---------------------------- MODULE ConnectorProofs ----------------------------
(***************************************************************************)
(* Proofs about what the connectors fetch.  Of Gathering: the fan-out of   *)
(* an ssh gather, its permits, the keys its sessions were opened behind    *)
(* and what it returns, and the run of a script with its caller.  Of       *)
(* RemotePull: the conditional reads of an origin, and the pulls of a      *)
(* central from it.  And of CredentialDelivery: what a connector is given, *)
(* for every list of credentials and every content of the store.           *)
(***************************************************************************)
EXTENDS Gathering, RemotePull, CredentialDelivery, FiniteSetTheorems, TLAPS

-----------------------------------------------------------------------------
(* Finite sets in order.                                                   *)

InOrder(list, before) ==
    \A m, n \in DOMAIN list : m < n => <<list[m], list[n]>> \in before

\* The elements of a finite set can be listed in any strict order of them:
\* each at the place its predecessors leave it.
LEMMA ListsExist ==
    ASSUME NEW S, IsFiniteSet(S), NEW before,
           \A x, y \in S : x # y => <<x, y>> \in before \/ <<y, x>> \in before,
           \A x \in S : <<x, x>> \notin before,
           \A x, y, z \in S : <<x, y>> \in before /\ <<y, z>> \in before => <<x, z>> \in before
    PROVE  \E list \in [1 .. Cardinality(S) -> S] : InOrder(list, before)
  <1> DEFINE N == Cardinality(S)
             Below(x) == {y \in S : <<y, x>> \in before}
             place == [x \in S |-> Cardinality(Below(x)) + 1]
  <1>1. N \in Nat
    BY FS_CardinalityType
  <1>2. \A x \in S : Cardinality(Below(x)) \in Nat /\ Cardinality(Below(x)) < N
    <2> TAKE x \in S
    <2>1. IsFiniteSet(Below(x)) /\ Below(x) \in SUBSET S /\ Below(x) # S
      BY FS_Subset
    <2>2. Cardinality(Below(x)) <= N /\ Cardinality(Below(x)) # N
      BY <2>1, FS_Subset
    <2>3. Cardinality(Below(x)) \in Nat
      BY <2>1, FS_CardinalityType
    <2>4. QED
      BY <1>1, <2>2, <2>3
  <1>3. ASSUME NEW x \in S, NEW y \in S, <<x, y>> \in before
        PROVE  place[x] < place[y]
    <2>1. Below(x) \in SUBSET Below(y) /\ x \in Below(y) /\ x \notin Below(x)
      BY <1>3
    <2>2. IsFiniteSet(Below(y))
      BY FS_Subset
    <2>3. /\ Cardinality(Below(x)) <= Cardinality(Below(y))
          /\ Cardinality(Below(x)) # Cardinality(Below(y))
      BY <2>1, <2>2, FS_Subset
    <2> HIDE DEF Below
    <2>4. QED
      BY <1>2, <2>3
  <1>4. place \in [S -> 1 .. N] /\ \A x \in S : place[x] \in 1 .. N
    <2>1. \A x \in S : place[x] \in 1 .. N
      <3> HIDE DEF Below
      <3>1. QED
        BY <1>1, <1>2
    <2>2. QED
      BY <2>1
  <1> HIDE DEF place, Below
  <1>5. ASSUME NEW x \in S, NEW y \in S, place[x] = place[y]
        PROVE  x = y
    <2>1. place[x] \in Nat /\ place[y] \in Nat
      BY <1>1, <1>4
    <2>2. ~(place[x] < place[y]) /\ ~(place[y] < place[x])
      BY <1>5, <2>1
    <2>3. QED
      BY <1>3, <2>2
  <1>6. place \in Injection(S, 1 .. N)
    BY <1>4, <1>5 DEF Injection, IsInjective
  <1>7. IsFiniteSet(1 .. N) /\ Cardinality(1 .. N) = N
    BY <1>1, FS_Interval
  <1>8. place \in Surjection(S, 1 .. N)
    BY <1>6, <1>7, FS_Injection
  <1>9. \A n \in 1 .. N : \E x \in S : place[x] = n
    BY <1>8 DEF Surjection
  <1> DEFINE list == [n \in 1 .. N |-> CHOOSE x \in S : place[x] = n]
  <1>10. \A n \in 1 .. N : list[n] \in S /\ place[list[n]] = n
    BY <1>9
  <1>11. list \in [1 .. N -> S]
    BY <1>10
  <1> HIDE DEF list
  <1>12. ASSUME NEW m \in 1 .. N, NEW n \in 1 .. N, m < n
         PROVE  <<list[m], list[n]>> \in before
    <2>1. list[m] # list[n]
      BY <1>10, <1>12
    <2>2. ~(<<list[n], list[m]>> \in before)
      <3>1. SUFFICES ASSUME <<list[n], list[m]>> \in before PROVE FALSE
        OBVIOUS
      <3>2. place[list[n]] < place[list[m]]
        BY <1>3, <1>10, <3>1
      <3>3. QED
        BY <1>1, <1>10, <1>12, <3>2
    <2>3. QED
      BY <1>10, <2>1, <2>2
  <1>13. QED
    BY <1>11, <1>12 DEF InOrder

\* Numbers sort: strictly ascending, and each of them once.
LEMMA SortedIsSorted ==
    ASSUME NEW names \in SUBSET Nat, IsFiniteSet(names)
    PROVE  /\ Sorted(names) \in [1 .. Cardinality(names) -> names]
           /\ \A m, n \in DOMAIN Sorted(names) : m < n => Sorted(names)[m] < Sorted(names)[n]
           /\ \A x \in names : \E n \in DOMAIN Sorted(names) : Sorted(names)[n] = x
  <1> DEFINE N == Cardinality(names)
             before == {pair \in names \X names : pair[1] < pair[2]}
             list == Sorted(names)
  <1>1. \A x, y \in names : <<x, y>> \in before <=> x < y
    OBVIOUS
  <1>2. /\ \A x, y \in names : x # y => <<x, y>> \in before \/ <<y, x>> \in before
        /\ \A x \in names : <<x, x>> \notin before
        /\ \A x, y, z \in names : <<x, y>> \in before /\ <<y, z>> \in before => <<x, z>> \in before
    <2> HIDE DEF before
    <2>1. \A x \in names : x \in Nat
      OBVIOUS
    <2>2. QED
      BY <1>1, <2>1
  <1> HIDE DEF before
  <1>3. PICK l \in [1 .. N -> names] : InOrder(l, before)
    BY <1>2, ListsExist
  <1>4. \A m, n \in DOMAIN l : m < n => l[m] < l[n]
    BY <1>1, <1>3 DEF InOrder
  <1>5. list \in [1 .. N -> names] /\ \A m, n \in DOMAIN list : m < n => list[m] < list[n]
    BY <1>4 DEF Sorted
  <1> HIDE DEF list
  <1>6. N \in Nat /\ IsFiniteSet(1 .. N) /\ Cardinality(1 .. N) = N
    BY FS_CardinalityType, FS_Interval
  <1>7. \A m, n \in 1 .. N : list[m] = list[n] => m = n
    <2>1. \A n \in 1 .. N : list[n] \in Nat
      BY <1>5
    <2>2. QED
      BY <1>5, <1>6, <2>1
  <1>8. list \in Injection(1 .. N, names)
    BY <1>5, <1>7 DEF Injection, IsInjective
  <1>9. list \in Surjection(1 .. N, names)
    BY <1>6, <1>8, FS_Injection
  <1>10. QED
    BY <1>5, <1>9 DEF Surjection, list

\* The hosts of results sort too, a host as often as it has answered.
LEMMA HostsSort ==
    ASSUME NEW all, NEW some \in SUBSET Nat, IsFiniteSet(some),
           \A i \in some : all[i].host \in Nat
    PROVE  LET hosts == HostsInOrder(all, some)
           IN  /\ \A a, b \in DOMAIN hosts : a < b => hosts[a] <= hosts[b]
               /\ \A i \in some : \E n \in DOMAIN hosts : hosts[n] = all[i].host
  <1> DEFINE N == Cardinality(some)
             Before(i, j) == \/ all[i].host < all[j].host
                             \/ all[i].host = all[j].host /\ i < j
             before == {pair \in some \X some : Before(pair[1], pair[2])}
             Ascends(list) == \A m, n \in DOMAIN list : m < n => Before(list[m], list[n])
             order == CHOOSE list \in [1 .. N -> some] : Ascends(list)
  <1>1. \A i, j \in some : <<i, j>> \in before <=> Before(i, j)
    OBVIOUS
  <1>2. /\ \A i, j \in some : i # j => Before(i, j) \/ Before(j, i)
        /\ \A i \in some : ~Before(i, i)
        /\ \A i, j, k \in some : Before(i, j) /\ Before(j, k) => Before(i, k)
    <2> DEFINE h(i) == all[i].host
    <2>1. \A i \in some : i \in Nat /\ h(i) \in Nat
      OBVIOUS
    <2>2. \A i, j : Before(i, j) <=> h(i) < h(j) \/ (h(i) = h(j) /\ i < j)
      OBVIOUS
    <2> HIDE DEF Before, h
    <2>3. QED
      BY <2>1, <2>2
  <1> HIDE DEF before, Before
  <1>3. /\ \A x, y \in some : x # y => <<x, y>> \in before \/ <<y, x>> \in before
        /\ \A x \in some : <<x, x>> \notin before
        /\ \A x, y, z \in some : <<x, y>> \in before /\ <<y, z>> \in before => <<x, z>> \in before
    BY <1>1, <1>2
  <1>4. PICK l \in [1 .. N -> some] : InOrder(l, before)
    BY <1>3, ListsExist
  <1>5. Ascends(l)
    BY <1>1, <1>4 DEF InOrder
  <1>6. order \in [1 .. N -> some] /\ Ascends(order)
    BY <1>5
  <1>7. HostsInOrder(all, some) = [n \in DOMAIN order |-> all[order[n]].host]
    BY DEF HostsInOrder, Before
  <1> HIDE DEF order
  <1>8. N \in Nat /\ IsFiniteSet(1 .. N) /\ Cardinality(1 .. N) = N
    BY FS_CardinalityType, FS_Interval
  <1>9. \A m, n \in 1 .. N : m < n => Before(order[m], order[n])
    BY <1>6
  <1>10. \A m, n \in 1 .. N : order[m] = order[n] => m = n
    <2>1. ASSUME NEW m \in 1 .. N, NEW n \in 1 .. N, order[m] = order[n]
          PROVE  m = n
      <3>1. ~(m < n) /\ ~(n < m)
        BY <1>2, <1>6, <1>9, <2>1
      <3>2. QED
        BY <1>8, <3>1
    <2>2. QED
      BY <2>1
  <1>11. order \in Surjection(1 .. N, some)
    <2>1. order \in Injection(1 .. N, some)
      BY <1>6, <1>10 DEF Injection, IsInjective
    <2>2. QED
      BY <1>8, <2>1, FS_Injection
  <1>12. \A i \in some : \E n \in 1 .. N : order[n] = i
    BY <1>11 DEF Surjection
  <1>13. \A m, n \in 1 .. N : m < n => all[order[m]].host <= all[order[n]].host
    <2>1. \A n \in 1 .. N : order[n] \in some /\ all[order[n]].host \in Nat
      BY <1>6
    <2>2. QED
      BY <1>9, <2>1 DEF Before
  <1>14. QED
    BY <1>6, <1>7, <1>12, <1>13

\* Who is picked is named by the dataset.
LEMMA PickedAreNamed ==
    ASSUME NEW from, NEW entry, NEW h \in Picked(from, entry)
    PROVE  h \in DOMAIN entry.hostvars \cup UNION {entry.groups[n] : n \in DOMAIN entry.groups}
  <1>1. CASE h \in DOMAIN entry.hostvars
    BY <1>1
  <1>2. CASE \E n \in DOMAIN entry.groups : h \in entry.groups[n]
    BY <1>2
  <1>3. CASE /\ h \notin DOMAIN entry.hostvars
             /\ ~\E n \in DOMAIN entry.groups : h \in entry.groups[n]
    BY <1>3 DEF Picked
  <1>4. QED
    BY <1>1, <1>2, <1>3

\* The hosts of a gather are a finite list of numbers.
LEMMA SpecsAreNumbered ==
    ASSUME NEW g \in Gathers
    PROVE  /\ DOMAIN HostSpecs(g) \in SUBSET Nat /\ IsFiniteSet(DOMAIN HostSpecs(g))
           /\ \A i \in DOMAIN HostSpecs(g) : HostSpecs(g)[i].name \in Nat
  <1>1. CASE g.hosts.kind = "list"
    <2>1. g.hosts.names \in Seq(Nat)
      BY <1>1, SshGatherAssumption
    <2>2. HostSpecs(g) = [i \in DOMAIN g.hosts.names |->
                             [name |-> g.hosts.names[i], addresses |-> <<g.hosts.names[i]>>]]
      BY <1>1 DEF HostSpecs
    <2>3. DOMAIN HostSpecs(g) = 1 .. Len(g.hosts.names) /\ Len(g.hosts.names) \in Nat
      BY <2>1, <2>2
    <2>4. \A i \in 1 .. Len(g.hosts.names) : HostSpecs(g)[i].name = g.hosts.names[i]
      BY <2>2, <2>3
    <2>5. IsFiniteSet(1 .. Len(g.hosts.names))
      BY <2>3, FS_Interval
    <2> HIDE DEF HostSpecs
    <2>6. QED
      BY <2>1, <2>3, <2>4, <2>5
  <1>2. CASE g.hosts.kind = "source" /\ g.hosts.entry = None
    <2>1. HostSpecs(g) = <<>>
      BY <1>2 DEF HostSpecs
    <2>2. DOMAIN HostSpecs(g) = {}
      BY <2>1
    <2>3. QED
      BY <2>2, FS_EmptySet
  <1>3. CASE g.hosts.kind = "source" /\ g.hosts.entry # None
    <2> DEFINE entry == g.hosts.entry
               from == g.hosts.from
               named == DOMAIN entry.hostvars
                           \cup UNION {entry.groups[n] : n \in DOMAIN entry.groups}
               kept == {h \in Picked(from, entry) : Candidates(from.via, h, entry) # <<>>}
    <2>1. named \in SUBSET Nat /\ IsFiniteSet(named)
      BY <1>3, SshGatherAssumption DEF IsDataset
    <2>2. Picked(from, entry) \subseteq named
      BY PickedAreNamed
    <2>3. kept \in SUBSET Nat /\ IsFiniteSet(kept)
      <3>1. kept \in SUBSET named
        BY <2>2
      <3>2. QED
        BY <2>1, <3>1, FS_Subset
    <2>4. HostSpecs(g) = Resolve(from, entry)
      BY <1>3 DEF HostSpecs
    <2>5. Resolve(from, entry) =
             [i \in DOMAIN Sorted(kept) |->
                 [name |-> Sorted(kept)[i],
                  addresses |-> Candidates(from.via, Sorted(kept)[i], entry)]]
      BY Zenon DEF Resolve
    <2> HIDE DEF kept, entry, from
    <2>6. Sorted(kept) \in [1 .. Cardinality(kept) -> kept] /\ Cardinality(kept) \in Nat
      BY <2>3, SortedIsSorted, FS_CardinalityType
    <2>7. /\ DOMAIN HostSpecs(g) = 1 .. Cardinality(kept)
          /\ \A i \in DOMAIN HostSpecs(g) : HostSpecs(g)[i].name = Sorted(kept)[i]
      BY <2>4, <2>5, <2>6
    <2>8. IsFiniteSet(1 .. Cardinality(kept))
      BY <2>6, FS_Interval
    <2>9. /\ 1 .. Cardinality(kept) \in SUBSET Nat
          /\ \A i \in 1 .. Cardinality(kept) : Sorted(kept)[i] \in Nat
      <3>1. \A i \in 1 .. Cardinality(kept) : Sorted(kept)[i] \in kept
        BY <2>6
      <3>2. 1 .. Cardinality(kept) \subseteq Nat
        BY <2>6
      <3>3. \A h \in kept : h \in Nat
        BY <2>3
      <3>4. QED
        BY <3>1, <3>2, <3>3
    <2>10. DOMAIN HostSpecs(g) \in SUBSET Nat /\ IsFiniteSet(DOMAIN HostSpecs(g))
      BY <2>7, <2>8, <2>9
    <2>11. \A i \in DOMAIN HostSpecs(g) : HostSpecs(g)[i].name \in Nat
      BY <2>7, <2>9
    <2>12. QED
      BY <2>10, <2>11
  <1>4. QED
    BY <1>1, <1>2, <1>3, SshGatherAssumption

\* So are those in its scope, and a host scope lets nobody else in.
LEMMA ScopeNarrows ==
    ASSUME NEW g \in Gathers, NEW i \in DOMAIN InScope(g)
    PROVE  /\ InScope(g)[i].name \in Nat
           /\ g.scope.kind = "host" => InScope(g)[i].name \in g.scope.target
  <1> DEFINE specs == HostSpecs(g)
             kept == {n \in DOMAIN specs : specs[n].name \in g.scope.target}
  <1>1. CASE g.scope.kind # "host"
    BY <1>1, SpecsAreNumbered DEF InScope
  <1>2. CASE g.scope.kind = "host"
    <2>1. InScope(g) = [n \in DOMAIN Sorted(kept) |-> specs[Sorted(kept)[n]]]
      BY <1>2 DEF InScope
    <2>2. kept \in SUBSET Nat /\ IsFiniteSet(kept)
      <3>1. kept \in SUBSET DOMAIN specs
        OBVIOUS
      <3>2. QED
        BY <3>1, SpecsAreNumbered, FS_Subset
    <2>3. Sorted(kept) \in [1 .. Cardinality(kept) -> kept]
      BY <2>2, SortedIsSorted
    <2>4. Sorted(kept)[i] \in kept /\ InScope(g)[i] = specs[Sorted(kept)[i]]
      BY <2>1, <2>3
    <2>5. QED
      BY <2>4, SpecsAreNumbered
  <1>3. QED
    BY <1>1, <1>2

-----------------------------------------------------------------------------
(* The invariant of a gather.                                              *)

LiveStates == {"dialling", "connected", "sending", "running"}
ResultKinds == {"answer", "failure", "panic"}

\* A task that has a session has a key that was accepted at its address.
TasksAreVerified ==
    \A i \in TaskIds :
       /\ {"at", "attempt"} \subseteq DOMAIN task[i]
       /\ task[i].at \in LiveStates \cup {"queued", "joined"}
       /\ task[i].at \in {"connected", "sending", "running"} =>
             "key" \in DOMAIN task[i] /\ KeyAccepted(gather, AddressOf(i), task[i].key)

\* Permits are in the semaphore or with a live task.
PermitsAreOut ==
    /\ IsFiniteSet(Live) /\ permits \in Nat
    /\ phase = "gathering" => permits + Cardinality(Live) = gather.concurrency
    /\ phase # "gathering" => Live = {}

\* Which tasks there are, and when the gather is over.
Lifecycle ==
    /\ phase \in {"ready", "gathering", "done", "unused"}
    /\ IF phase = "unused" THEN gather = None ELSE gather \in Gathers
    /\ phase \in {"ready", "unused"} => TaskIds = {} /\ DOMAIN results = {}
    /\ phase = "gathering" => TaskIds = DOMAIN Specs
    /\ phase = "done" => \A i \in TaskIds : task[i].at = "joined"
    /\ (phase = "done" /\ outcome.kind = "gathered") =>
          TaskIds = DOMAIN Specs /\ outcome = Collected(results)

\* Results are a sequence of what tasks return.
ResultsAreWhole ==
    /\ DOMAIN results = 1 .. Len(results) /\ Len(results) \in Nat
    /\ results \in Seq({results[n] : n \in DOMAIN results})
    /\ \A n \in DOMAIN results : results[n].kind \in ResultKinds

\* `by` says which task each result is of: of each that has returned, one.
ReportedBy(by) ==
    /\ \A m, n \in DOMAIN results : by[m] = by[n] => m = n
    /\ \A i \in TaskIds : task[i].at = "joined" <=> \E n \in DOMAIN results : by[n] = i
    /\ \A n \in DOMAIN results : results[n].host = Specs[by[n]].name

Reported == \E by \in [DOMAIN results -> TaskIds] : ReportedBy(by)

\* As long as no timeout of the source has dropped them.
TasksReport == (phase = "gathering" \/ (phase = "done" /\ outcome.kind = "gathered")) => Reported

SshInv ==
    /\ TasksAreVerified /\ PermitsAreOut /\ Lifecycle /\ ResultsAreWhole /\ TasksReport

-----------------------------------------------------------------------------
(* Steps of a gather.                                                      *)

\* While a task is queued or live the gather is under way.
LEMMA UnderWay ==
    ASSUME SshInv, NEW i \in TaskIds, task[i].at # "joined"
    PROVE  phase = "gathering" /\ gather \in Gathers /\ TaskIds = DOMAIN Specs
  BY DEF SshInv, Lifecycle

\* A script that arrives in part is not run.
LEMMA CutScriptsDoNotRun == \A i : RunsWhenCut(i) = {}
  <1>1. {n \in 0 .. Size - 1 : RemoteRuns(n, Size)} = {}
    BY SshGatherAssumption DEF RemoteRuns
  <1>2. QED
    BY <1>1, Zenon DEF RunsWhenCut

\* A task goes on, live as before, behind a key that was accepted.
LEMMA TaskGoesOn ==
    ASSUME SshInv, NEW i \in Live, UNCHANGED <<gather, phase, permits, results, outcome>>,
           DOMAIN task' = DOMAIN task, \A j \in TaskIds \ {i} : task'[j] = task[j],
           {"at", "attempt"} \subseteq DOMAIN task'[i], task'[i].at \in LiveStates,
           task'[i].at \in {"connected", "sending", "running"} =>
              /\ "key" \in DOMAIN task'[i]
              /\ KeyAccepted(gather, Specs[i].addresses[task'[i].attempt], task'[i].key)
    PROVE  SshInv'
  <1>1. i \in TaskIds /\ task[i].at \in LiveStates
    BY DEF Live, LiveStates
  <1>2. TaskIds' = TaskIds /\ Specs' = Specs
    BY DEF TaskIds, Specs
  <1>3. Live' = Live
    BY <1>1, <1>2 DEF Live, LiveStates
  <1>4. TasksAreVerified'
    <2> SUFFICES ASSUME NEW j \in TaskIds
                 PROVE  /\ {"at", "attempt"} \subseteq DOMAIN task'[j]
                        /\ task'[j].at \in LiveStates \cup {"queued", "joined"}
                        /\ task'[j].at \in {"connected", "sending", "running"} =>
                              /\ "key" \in DOMAIN task'[j]
                              /\ KeyAccepted(gather, Specs[j].addresses[task'[j].attempt],
                                             task'[j].key)
      BY <1>2 DEF TasksAreVerified, AddressOf
    <2>1. CASE j = i
      BY <2>1
    <2>2. CASE j # i
      BY <2>2 DEF SshInv, TasksAreVerified, AddressOf
    <2>3. QED
      BY <2>1, <2>2
  <1>5. PermitsAreOut'
    BY <1>3 DEF SshInv, PermitsAreOut
  <1>6. phase = "gathering"
    BY <1>1, UnderWay DEF LiveStates
  <1>7. Lifecycle'
    BY <1>2, <1>6 DEF SshInv, Lifecycle
  <1>8. ResultsAreWhole'
    BY DEF SshInv, ResultsAreWhole
  <1>9. \A j \in TaskIds : task'[j].at = "joined" <=> task[j].at = "joined"
    BY <1>1 DEF LiveStates
  <1>10. TasksReport'
    BY <1>2, <1>6, <1>9 DEF SshInv, TasksReport, Reported, ReportedBy
  <1>11. QED
    BY <1>4, <1>5, <1>7, <1>8, <1>10 DEF SshInv

\* One more result, of a task that has not reported yet.
LEMMA OneMoreResult ==
    ASSUME SshInv, NEW i \in TaskIds, task[i].at # "joined", NEW result,
           result.kind \in ResultKinds, result.host = Specs[i].name,
           results' = Append(results, result), UNCHANGED gather,
           DOMAIN task' = DOMAIN task, \A j \in TaskIds \ {i} : task'[j] = task[j],
           task'[i].at = "joined"
    PROVE  ResultsAreWhole' /\ Reported'
  <1> DEFINE n == Len(results) + 1
             old == {results[m] : m \in DOMAIN results}
  <1>1. /\ DOMAIN results = 1 .. Len(results) /\ Len(results) \in Nat /\ results \in Seq(old)
        /\ \A m \in DOMAIN results : results[m].kind \in ResultKinds
    BY DEF SshInv, ResultsAreWhole
  <1>2. /\ Len(results') = n /\ DOMAIN results' = 1 .. n
        /\ results'[n] = result
        /\ \A m \in DOMAIN results : results'[m] = results[m]
    <2>1. results \in Seq(old \cup {result})
      BY <1>1
    <2>2. QED
      BY <1>1, <2>1
  <1>3. DOMAIN results' = DOMAIN results \cup {n} /\ n \notin DOMAIN results
    BY <1>1, <1>2
  <1>4. results' \in Seq({results'[m] : m \in DOMAIN results'})
    <2>1. {results'[m] : m \in DOMAIN results'} = old \cup {result}
      BY <1>2, <1>3
    <2>2. results \in Seq(old \cup {result})
      BY <1>1
    <2>3. QED
      BY <2>1, <2>2
  <1>5. ResultsAreWhole'
    BY <1>1, <1>2, <1>3, <1>4 DEF ResultsAreWhole
  <1>6. PICK by \in [DOMAIN results -> TaskIds] : ReportedBy(by)
    BY UnderWay DEF SshInv, TasksReport, Reported
  <1> DEFINE more == [m \in DOMAIN results' |-> IF m = n THEN i ELSE by[m]]
  <1>7. TaskIds' = TaskIds /\ Specs' = Specs
    BY DEF TaskIds, Specs
  <1>8. more \in [DOMAIN results' -> TaskIds']
    BY <1>3, <1>6, <1>7
  <1>9. /\ more[n] = i
        /\ \A m \in DOMAIN results :
              more[m] = by[m] /\ by[m] \in TaskIds /\ task[by[m]].at = "joined"
    BY <1>3, <1>6 DEF ReportedBy
  <1> HIDE DEF more
  <1>10. \A l, m \in DOMAIN results' : more[l] = more[m] => l = m
    BY <1>3, <1>6, <1>9 DEF ReportedBy
  <1>11. \A j \in TaskIds : task'[j].at = "joined" <=> \E m \in DOMAIN results' : more[m] = j
    <2> TAKE j \in TaskIds
    <2>1. CASE j = i
      BY <1>3, <1>9, <2>1
    <2>2. CASE j # i
      <3>1. task'[j].at = "joined" <=> \E m \in DOMAIN results : by[m] = j
        BY <1>6, <2>2 DEF ReportedBy
      <3>2. (\E m \in DOMAIN results' : more[m] = j) <=> (\E m \in DOMAIN results : by[m] = j)
        BY <1>3, <1>9, <2>2
      <3>3. QED
        BY <3>1, <3>2
    <2>3. QED
      BY <2>1, <2>2
  <1>12. \A m \in DOMAIN results' : results'[m].host = Specs[more[m]].name
    <2> TAKE m \in DOMAIN results'
    <2>1. CASE m = n
      BY <1>2, <1>9, <2>1
    <2>2. CASE m # n
      BY <1>2, <1>3, <1>6, <1>9, <2>2 DEF ReportedBy
    <2>3. QED
      BY <2>1, <2>2
  <1>13. Reported'
    BY <1>7, <1>8, <1>10, <1>11, <1>12 DEF Reported, ReportedBy
  <1>14. QED
    BY <1>5, <1>13

\* A live task that returns frees its permit; the last one ends the gather.
LEMMA EndsInvariant ==
    ASSUME SshInv, NEW i \in Live, NEW result,
           result.kind \in ResultKinds, result.host = Specs[i].name, Ends(i, result)
    PROVE  SshInv'
  <1>1. i \in TaskIds /\ task[i].at \in LiveStates /\ task[i].at # "joined"
    BY DEF Live, LiveStates
  <1>2. phase = "gathering" /\ gather \in Gathers /\ TaskIds = DOMAIN Specs
    BY <1>1, UnderWay
  <1>3. /\ DOMAIN task' = DOMAIN task /\ \A j \in TaskIds \ {i} : task'[j] = task[j]
        /\ task'[i] = [task[i] EXCEPT !.at = "joined"]
        /\ permits' = permits + 1 /\ results' = Append(results, result) /\ UNCHANGED gather
    BY <1>1 DEF Ends, TaskIds
  <1>4. /\ DOMAIN task'[i] = DOMAIN task[i] /\ task'[i].at = "joined"
        /\ {"at", "attempt"} \subseteq DOMAIN task'[i]
    BY <1>1, <1>3 DEF SshInv, TasksAreVerified
  <1>5. TaskIds' = TaskIds /\ Specs' = Specs
    BY <1>3 DEF TaskIds, Specs
  <1>6. ResultsAreWhole' /\ Reported'
    BY <1>1, <1>3, <1>4, OneMoreResult
  <1>7. Live' = Live \ {i}
    BY <1>1, <1>3, <1>4, <1>5 DEF Live
  <1>8. TasksAreVerified'
    <2> SUFFICES ASSUME NEW j \in TaskIds
                 PROVE  /\ {"at", "attempt"} \subseteq DOMAIN task'[j]
                        /\ task'[j].at \in LiveStates \cup {"queued", "joined"}
                        /\ task'[j].at \in {"connected", "sending", "running"} =>
                              /\ "key" \in DOMAIN task'[j]
                              /\ KeyAccepted(gather, Specs[j].addresses[task'[j].attempt],
                                             task'[j].key)
      BY <1>3, <1>5 DEF TasksAreVerified, AddressOf
    <2>1. CASE j = i
      BY <1>4, <2>1
    <2>2. CASE j # i
      BY <1>3, <2>2 DEF SshInv, TasksAreVerified, AddressOf
    <2>3. QED
      BY <2>1, <2>2
  <1>9. /\ IsFiniteSet(Live') /\ permits' \in Nat
        /\ permits' + Cardinality(Live') = gather.concurrency
    <2>1. IsFiniteSet(Live) /\ permits \in Nat /\ permits + Cardinality(Live) = gather.concurrency
      BY <1>2 DEF SshInv, PermitsAreOut
    <2>2. IsFiniteSet(Live \ {i}) /\ Cardinality(Live \ {i}) = Cardinality(Live) - 1
      BY <2>1, FS_RemoveElement
    <2>3. Cardinality(Live) \in Nat
      BY <2>1, FS_CardinalityType
    <2>4. QED
      BY <1>3, <1>7, <2>1, <2>2, <2>3
  <1>10. CASE \A j \in TaskIds \ {i} : task[j].at = "joined"
    <2>1. phase' = "done" /\ outcome' = Collected(results')
      BY <1>10 DEF Ends
    <2>2. \A j \in TaskIds : task'[j].at = "joined"
      BY <1>3, <1>4, <1>10
    <2>3. Live' = {}
      BY <1>5, <2>2 DEF Live
    <2>4. Lifecycle'
      BY <1>2, <1>3, <1>5, <2>1, <2>2, SshGatherAssumption DEF Lifecycle
    <2>5. PermitsAreOut'
      BY <1>9, <2>1, <2>3 DEF PermitsAreOut
    <2>6. QED
      BY <1>6, <1>8, <2>4, <2>5 DEF SshInv, TasksReport
  <1>11. CASE ~(\A j \in TaskIds \ {i} : task[j].at = "joined")
    <2>1. UNCHANGED <<phase, outcome>>
      BY <1>11 DEF Ends
    <2>2. Lifecycle'
      BY <1>2, <1>3, <1>5, <2>1 DEF SshInv, Lifecycle
    <2>3. PermitsAreOut'
      BY <1>2, <1>3, <1>9, <2>1 DEF PermitsAreOut
    <2>4. QED
      BY <1>6, <1>8, <2>2, <2>3 DEF SshInv, TasksReport
  <1>12. QED
    BY <1>10, <1>11

-----------------------------------------------------------------------------
(* The steps one by one.  Each keeps the invariant, and what it runs on a  *)
(* host runs whole and behind a verified key.                              *)

\* What runs has been verified, and runs are never taken back.
Verified(r) ==
    /\ r.whole
    /\ gather.known # None =>
          /\ r.key.kind = "plain"
          /\ \E n \in DOMAIN gather.known.lines :
                LET line == gather.known.lines[n]
                IN  /\ line.kind = "entry" /\ line.key = r.key.key
                    /\ <<Specs[r.task].addresses[r.attempt], gather.port>> \in line.names

SshIInv == SshInv /\ NothingRunsUnverified

\* An accepted key is one that the known_hosts file records for the address.
LEMMA AcceptedKeysAreRecorded ==
    ASSUME NEW address, NEW key, KeyAccepted(gather, address, key), gather.known # None
    PROVE  /\ key.kind = "plain"
           /\ \E n \in DOMAIN gather.known.lines :
                 LET line == gather.known.lines[n]
                 IN  /\ line.kind = "entry" /\ line.key = key.key
                     /\ <<address, gather.port>> \in line.names
  <1> DEFINE lines == gather.known.lines
             named == {f \in KeyEntries(lines) : <<address, gather.port>> \in f.names}
  <1>1. key.kind = "plain" /\ key.key \in {e.key : e \in named}
    BY DEF KeyAccepted, CheckKey
  <1>2. PICK e \in KeyEntries(lines) : <<address, gather.port>> \in e.names /\ e.key = key.key
    BY <1>1
  <1>3. PICK n \in DOMAIN lines : lines[n].kind = "entry" /\ lines[n] = e
    BY <1>2 DEF KeyEntries
  <1>4. QED
    BY <1>1, <1>2, <1>3

\* What a task with a session runs is verified.
LEMMA RunsAreVerified ==
    ASSUME SshInv, NEW i \in TaskIds, task[i].at \in {"connected", "sending", "running"}
    PROVE  Verified(Run(i, TRUE))
  <1>1. KeyAccepted(gather, AddressOf(i), task[i].key)
    BY DEF SshInv, TasksAreVerified
  <1>2. QED
    BY <1>1, AcceptedKeysAreRecorded DEF Verified, Run, AddressOf

\* Runs stay verified when nothing but a verified run is added.
LEMMA MoreRuns ==
    ASSUME NothingRunsUnverified, UNCHANGED gather, NEW more, runs' = runs \cup more,
           \A r \in more : Verified(r)
    PROVE  NothingRunsUnverified'
  <1>1. Specs' = Specs
    BY DEF Specs
  <1>2. \A r \in runs' : Verified(r)
    BY DEF NothingRunsUnverified, Verified
  <1>3. QED
    BY <1>1, <1>2 DEF NothingRunsUnverified, Verified

\* A step that runs nothing keeps what was run verified.
LEMMA NoMoreRuns ==
    ASSUME NothingRunsUnverified, UNCHANGED gather, runs' = runs
    PROVE  NothingRunsUnverified'
  BY DEF NothingRunsUnverified, Specs

\* A failure is a result of its task.
LEMMA FailuresAreResults ==
    ASSUME NEW i
    PROVE  Failure(i).kind \in ResultKinds /\ Failure(i).host = Specs[i].name
  BY DEF Failure, ResultKinds

\* The next address, or the end of the task.
LEMMA NextAddressInvariant ==
    ASSUME SshInv, NEW i \in Live, NextAddress(i)
    PROVE  SshInv' /\ UNCHANGED gather
  <1>1. i \in TaskIds /\ {"at", "attempt"} \subseteq DOMAIN task[i]
    BY DEF Live, SshInv, TasksAreVerified
  <1>2. CASE task[i].attempt < Len(Specs[i].addresses)
    <2>1. /\ task' = [task EXCEPT ![i] = [at |-> "dialling", attempt |-> task[i].attempt + 1]]
          /\ UNCHANGED <<gather, phase, permits, results, outcome>>
      BY <1>2 DEF NextAddress
    <2>2. /\ task'[i] = [at |-> "dialling", attempt |-> task[i].attempt + 1]
          /\ DOMAIN task' = DOMAIN task /\ \A j \in TaskIds \ {i} : task'[j] = task[j]
      BY <1>1, <2>1 DEF TaskIds
    <2>3. /\ {"at", "attempt"} \subseteq DOMAIN task'[i] /\ task'[i].at \in LiveStates
          /\ task'[i].at \notin {"connected", "sending", "running"}
      BY <2>2 DEF LiveStates
    <2>4. QED
      BY <2>1, <2>2, <2>3, TaskGoesOn
  <1>3. CASE ~(task[i].attempt < Len(Specs[i].addresses))
    <2>1. Ends(i, Failure(i))
      BY <1>3 DEF NextAddress
    <2>2. UNCHANGED gather
      BY <2>1 DEF Ends
    <2>3. QED
      BY <2>1, <2>2, EndsInvariant, FailuresAreResults
  <1>4. QED
    BY <1>2, <1>3

\* A task that keeps its attempt and its key goes on to another state.
LEMMA MovesInvariant ==
    ASSUME SshInv, NEW i \in TaskIds, task[i].at \in {"connected", "sending"},
           NEW at \in {"sending", "running"}, TaskMoves(i, at)
    PROVE  SshInv'
  <1>1. i \in Live
    BY DEF Live
  <1>2. /\ {"at", "attempt"} \subseteq DOMAIN task[i] /\ "key" \in DOMAIN task[i]
        /\ KeyAccepted(gather, Specs[i].addresses[task[i].attempt], task[i].key)
    BY DEF SshInv, TasksAreVerified, AddressOf
  <1>3. /\ task'[i] = [task[i] EXCEPT !.at = at] /\ DOMAIN task' = DOMAIN task
        /\ \A j \in TaskIds \ {i} : task'[j] = task[j]
        /\ UNCHANGED <<gather, phase, permits, results, outcome>>
    BY DEF TaskMoves, TaskIds
  <1>4. /\ DOMAIN task'[i] = DOMAIN task[i] /\ task'[i].at = at
        /\ task'[i].attempt = task[i].attempt /\ task'[i].key = task[i].key
    BY <1>2, <1>3
  <1>5. at \in LiveStates
    BY DEF LiveStates
  <1>6. QED
    BY <1>1, <1>2, <1>3, <1>4, <1>5, TaskGoesOn

\* The fan-out begins with all tasks queued and all permits free.
LEMMA StartInvariant ==
    ASSUME SshIInv, Start
    PROVE  SshIInv'
  <1>1. /\ phase = "ready" /\ gather \in Gathers /\ TaskIds = {} /\ DOMAIN results = {}
        /\ gather.concurrency \in Nat /\ UNCHANGED <<gather, results, runs>>
    BY SshGatherAssumption DEF Start, SshIInv, SshInv, Lifecycle
  <1>2. NothingRunsUnverified'
    BY <1>1, NoMoreRuns DEF SshIInv
  <1>3. ResultsAreWhole'
    BY <1>1 DEF SshIInv, SshInv, ResultsAreWhole
  <1>4. Specs' = Specs
    BY <1>1 DEF Specs
  <1>5. CASE Refused(gather)
    <2>1. phase' = "done" /\ outcome' = [kind |-> "failed"] /\ UNCHANGED <<task, permits>>
      BY <1>5 DEF Start
    <2>2. TaskIds' = {} /\ Live' = {}
      BY <1>1, <2>1 DEF TaskIds, Live
    <2>3. TasksAreVerified' /\ Lifecycle' /\ TasksReport'
      BY <1>1, <2>1, <2>2 DEF TasksAreVerified, Lifecycle, TasksReport
    <2>4. PermitsAreOut'
      BY <2>1, <2>2, FS_EmptySet DEF PermitsAreOut, SshIInv, SshInv
    <2>5. QED
      BY <1>2, <1>3, <2>3, <2>4 DEF SshIInv, SshInv
  <1>6. CASE ~Refused(gather)
    <2>1. /\ phase' = "gathering" /\ permits' = gather.concurrency
          /\ task' = [j \in DOMAIN Specs |-> [at |-> "queued", attempt |-> 1]]
      BY <1>6 DEF Start
    <2>2. TaskIds' = DOMAIN Specs /\ Live' = {}
      BY <2>1 DEF TaskIds, Live
    <2>3. \A j \in TaskIds' : task'[j] = [at |-> "queued", attempt |-> 1]
      BY <2>1, <2>2
    <2>4. TasksAreVerified'
      BY <2>3 DEF TasksAreVerified
    <2>5. PermitsAreOut'
      BY <1>1, <2>1, <2>2, FS_EmptySet DEF PermitsAreOut
    <2>6. Lifecycle'
      BY <1>1, <1>4, <2>1, <2>2, SshGatherAssumption DEF Lifecycle
    <2>7. Reported'
      <3>1. DOMAIN results' = {}
        BY <1>1
      <3>2. PICK by \in [DOMAIN results' -> TaskIds'] : TRUE
        <4>1. [n \in {} |-> n] \in [DOMAIN results' -> TaskIds']
          BY <3>1
        <4>2. QED
          BY <4>1
      <3>3. \A j \in TaskIds' : task'[j].at # "joined"
        BY <2>3
      <3>4. QED
        BY <3>1, <3>2, <3>3 DEF Reported, ReportedBy
    <2>8. QED
      BY <1>2, <1>3, <2>4, <2>5, <2>6, <2>7 DEF SshIInv, SshInv, TasksReport
  <1>7. QED
    BY <1>5, <1>6

\* A queued task takes a permit.
LEMMA AcquireInvariant ==
    ASSUME SshIInv, NEW i \in TaskIds, Acquire(i)
    PROVE  SshIInv'
  <1>1. /\ task[i].at = "queued" /\ permits > 0 /\ permits' = permits - 1
        /\ task'[i] = [task[i] EXCEPT !.at = "dialling"] /\ DOMAIN task' = DOMAIN task
        /\ \A j \in TaskIds \ {i} : task'[j] = task[j]
        /\ UNCHANGED <<gather, phase, results, outcome, runs>>
    BY DEF Acquire, TaskIds
  <1>2. phase = "gathering" /\ gather \in Gathers /\ TaskIds = DOMAIN Specs
    BY <1>1, UnderWay DEF SshIInv
  <1>3. DOMAIN task'[i] = DOMAIN task[i] /\ {"at", "attempt"} \subseteq DOMAIN task'[i]
        /\ task'[i].at = "dialling"
    BY <1>1 DEF SshIInv, SshInv, TasksAreVerified
  <1>4. TaskIds' = TaskIds /\ Specs' = Specs
    BY <1>1 DEF TaskIds, Specs
  <1>5. Live' = Live \cup {i} /\ i \notin Live
    BY <1>1, <1>3, <1>4 DEF Live
  <1>6. TasksAreVerified'
    <2> SUFFICES ASSUME NEW j \in TaskIds
                 PROVE  /\ {"at", "attempt"} \subseteq DOMAIN task'[j]
                        /\ task'[j].at \in LiveStates \cup {"queued", "joined"}
                        /\ task'[j].at \in {"connected", "sending", "running"} =>
                              /\ "key" \in DOMAIN task'[j]
                              /\ KeyAccepted(gather, Specs[j].addresses[task'[j].attempt],
                                             task'[j].key)
      BY <1>1, <1>4 DEF TasksAreVerified, AddressOf
    <2>1. CASE j = i
      BY <1>3, <2>1 DEF LiveStates
    <2>2. CASE j # i
      BY <1>1, <2>2 DEF SshIInv, SshInv, TasksAreVerified, AddressOf
    <2>3. QED
      BY <2>1, <2>2
  <1>7. PermitsAreOut'
    <2>1. IsFiniteSet(Live) /\ permits \in Nat /\ permits + Cardinality(Live) = gather.concurrency
      BY <1>2 DEF SshIInv, SshInv, PermitsAreOut
    <2>2. IsFiniteSet(Live \cup {i}) /\ Cardinality(Live \cup {i}) = Cardinality(Live) + 1
      BY <1>5, <2>1, FS_AddElement
    <2>3. Cardinality(Live) \in Nat
      BY <2>1, FS_CardinalityType
    <2>4. permits' \in Nat /\ permits' + Cardinality(Live') = gather.concurrency
      BY <1>1, <1>5, <2>1, <2>2, <2>3
    <2>5. QED
      BY <1>1, <1>2, <1>5, <2>2, <2>4 DEF PermitsAreOut
  <1>8. Lifecycle'
    BY <1>1, <1>2, <1>4 DEF SshIInv, SshInv, Lifecycle
  <1>9. ResultsAreWhole'
    BY <1>1 DEF SshIInv, SshInv, ResultsAreWhole
  <1>10. \A j \in TaskIds : task'[j].at = "joined" <=> task[j].at = "joined"
    BY <1>1, <1>3
  <1>11. TasksReport'
    BY <1>1, <1>2, <1>4, <1>10 DEF SshIInv, SshInv, TasksReport, Reported, ReportedBy
  <1>12. NothingRunsUnverified'
    BY <1>1, NoMoreRuns DEF SshIInv
  <1>13. QED
    BY <1>6, <1>7, <1>8, <1>9, <1>11, <1>12 DEF SshIInv, SshInv

\* A connection fails.
LEMMA NothingThereInvariant ==
    ASSUME SshIInv, NEW i \in TaskIds, NothingThere(i)
    PROVE  SshIInv'
  <1>1. i \in Live /\ NextAddress(i) /\ UNCHANGED runs
    BY DEF NothingThere, Live
  <1>2. SshInv' /\ UNCHANGED gather
    BY <1>1, NextAddressInvariant DEF SshIInv
  <1>3. QED
    BY <1>1, <1>2, NoMoreRuns DEF SshIInv

\* A session is opened behind a key that was accepted.
LEMMA ConnectInvariant ==
    ASSUME SshIInv, NEW i \in TaskIds, Connect(i)
    PROVE  SshIInv'
  <1>1. i \in Live /\ UNCHANGED runs /\ "attempt" \in DOMAIN task[i]
    BY DEF Connect, Live, SshIInv, SshInv, TasksAreVerified
  <1>2. PICK offered \in Offers :
           IF KeyAccepted(gather, AddressOf(i), offered)
           THEN /\ task' = [task EXCEPT ![i] =
                      [at |-> "connected", attempt |-> task[i].attempt, key |-> offered]]
                /\ UNCHANGED <<gather, phase, permits, results, outcome>>
           ELSE Ends(i, Failure(i))
    BY DEF Connect
  <1>3. CASE KeyAccepted(gather, AddressOf(i), offered)
    <2>1. /\ UNCHANGED <<gather, phase, permits, results, outcome>>
          /\ task'[i] = [at |-> "connected", attempt |-> task[i].attempt, key |-> offered]
          /\ DOMAIN task' = DOMAIN task /\ \A j \in TaskIds \ {i} : task'[j] = task[j]
      BY <1>2, <1>3 DEF TaskIds
    <2>2. /\ {"at", "attempt"} \subseteq DOMAIN task'[i] /\ task'[i].at \in LiveStates
          /\ "key" \in DOMAIN task'[i]
          /\ KeyAccepted(gather, Specs[i].addresses[task'[i].attempt], task'[i].key)
      BY <1>3, <2>1 DEF LiveStates, AddressOf
    <2>3. SshInv'
      BY <1>1, <2>1, <2>2, TaskGoesOn DEF SshIInv
    <2>4. QED
      BY <1>1, <2>1, <2>3, NoMoreRuns DEF SshIInv
  <1>4. CASE ~KeyAccepted(gather, AddressOf(i), offered)
    <2>1. Ends(i, Failure(i)) /\ UNCHANGED gather
      BY <1>2, <1>4 DEF Ends
    <2>2. SshInv'
      BY <1>1, <2>1, EndsInvariant, FailuresAreResults DEF SshIInv
    <2>3. QED
      BY <1>1, <2>1, <2>2, NoMoreRuns DEF SshIInv
  <1>5. QED
    BY <1>3, <1>4

\* The login is refused, or the script is sent, or the command runs.
LEMMA LogInInvariant ==
    ASSUME SshIInv, NEW i \in TaskIds, LogIn(i)
    PROVE  SshIInv'
  <1>1. i \in Live /\ task[i].at = "connected"
    BY DEF LogIn, Live
  <1>2. \/ TaskMoves(i, "sending") /\ UNCHANGED runs
        \/ TaskMoves(i, "running") /\ runs' = runs \cup {Run(i, TRUE)}
        \/ Ends(i, Failure(i)) /\ UNCHANGED runs
    BY DEF LogIn
  <1>3. CASE TaskMoves(i, "sending") /\ UNCHANGED runs
    <2>1. SshInv' /\ UNCHANGED gather
      BY <1>1, <1>3, MovesInvariant DEF SshIInv, TaskMoves
    <2>2. QED
      BY <1>3, <2>1, NoMoreRuns DEF SshIInv
  <1>4. CASE TaskMoves(i, "running") /\ runs' = runs \cup {Run(i, TRUE)}
    <2>1. SshInv' /\ UNCHANGED gather
      BY <1>1, <1>4, MovesInvariant DEF SshIInv, TaskMoves
    <2> DEFINE more == {Run(i, TRUE)}
    <2>2. \A r \in more : Verified(r)
      BY <1>1, RunsAreVerified DEF SshIInv
    <2>3. runs' = runs \cup more
      BY <1>4
    <2> HIDE DEF more
    <2>4. QED
      BY <2>1, <2>2, <2>3, MoreRuns DEF SshIInv
  <1>5. CASE Ends(i, Failure(i)) /\ UNCHANGED runs
    <2>1. SshInv' /\ UNCHANGED gather
      BY <1>1, <1>5, EndsInvariant, FailuresAreResults DEF SshIInv, Ends
    <2>2. QED
      BY <1>5, <2>1, NoMoreRuns DEF SshIInv
  <1>6. QED
    BY <1>2, <1>3, <1>4, <1>5

\* The script has arrived whole, and runs.
LEMMA SentInvariant ==
    ASSUME SshIInv, NEW i \in TaskIds, Sent(i)
    PROVE  SshIInv'
  <1>1. /\ task[i].at = "sending" /\ TaskMoves(i, "running") /\ UNCHANGED gather
        /\ runs' = runs \cup {Run(i, whole) : whole \in {w \in {TRUE} : RemoteRuns(Size, Size)}}
    BY DEF Sent, TaskMoves
  <1>2. SshInv'
    BY <1>1, MovesInvariant DEF SshIInv
  <1>3. Verified(Run(i, TRUE))
    BY <1>1, RunsAreVerified DEF SshIInv
  <1>4. \A r \in {Run(i, whole) : whole \in {w \in {TRUE} : RemoteRuns(Size, Size)}} : Verified(r)
    BY <1>3
  <1>5. QED
    BY <1>1, <1>2, <1>4, MoreRuns DEF SshIInv

\* The command has ended, well or not.
LEMMA FinishInvariant ==
    ASSUME SshIInv, NEW i \in TaskIds, Finish(i)
    PROVE  SshIInv'
  <1>1. i \in Live /\ UNCHANGED runs
    BY DEF Finish, Live
  <1>2. PICK status \in {None, 0, 1}, output \in Outputs :
           Ends(i, IF HostFailed(status) THEN Failure(i)
                   ELSE [kind |-> "answer", host |-> Specs[i].name,
                         vars |-> Variables(gather.script, output)])
    BY DEF Finish
  <1> DEFINE result == IF HostFailed(status) THEN Failure(i)
                       ELSE [kind |-> "answer", host |-> Specs[i].name,
                             vars |-> Variables(gather.script, output)]
  <1>3. result.kind \in ResultKinds /\ result.host = Specs[i].name /\ Ends(i, result)
    BY <1>2, FailuresAreResults DEF ResultKinds
  <1> HIDE DEF result
  <1>4. SshInv' /\ UNCHANGED gather
    BY <1>1, <1>3, EndsInvariant DEF SshIInv, Ends
  <1>5. QED
    BY <1>1, <1>4, NoMoreRuns DEF SshIInv

\* A session fails after the connection.
LEMMA SessionFailsInvariant ==
    ASSUME SshIInv, NEW i \in TaskIds, SessionFails(i)
    PROVE  SshIInv'
  <1>1. i \in Live /\ Ends(i, Failure(i)) /\ runs' = runs
    BY CutScriptsDoNotRun DEF SessionFails, Live
  <1>2. SshInv' /\ UNCHANGED gather
    BY <1>1, EndsInvariant, FailuresAreResults DEF SshIInv, Ends
  <1>3. QED
    BY <1>1, <1>2, NoMoreRuns DEF SshIInv

\* The timeout around one address.
LEMMA AddressTimesOutInvariant ==
    ASSUME SshIInv, NEW i \in TaskIds, AddressTimesOut(i)
    PROVE  SshIInv'
  <1>1. i \in Live /\ NextAddress(i) /\ runs' = runs
    BY CutScriptsDoNotRun DEF AddressTimesOut
  <1>2. SshInv' /\ UNCHANGED gather
    BY <1>1, NextAddressInvariant DEF SshIInv
  <1>3. QED
    BY <1>1, <1>2, NoMoreRuns DEF SshIInv

\* A task panics.
LEMMA PanicInvariant ==
    ASSUME SshIInv, NEW i \in TaskIds, Panic(i)
    PROVE  SshIInv'
  <1> DEFINE result == [kind |-> "panic", host |-> Specs[i].name]
  <1>1. i \in Live /\ Ends(i, result) /\ runs' = runs
    BY CutScriptsDoNotRun DEF Panic
  <1>2. result.kind \in ResultKinds /\ result.host = Specs[i].name
    BY DEF ResultKinds
  <1> HIDE DEF result
  <1>3. SshInv' /\ UNCHANGED gather
    BY <1>1, <1>2, EndsInvariant DEF SshIInv, Ends
  <1>4. QED
    BY <1>1, <1>3, NoMoreRuns DEF SshIInv

\* The source's timeout drops all tasks, and what they had reported.
LEMMA SourceTimesOutInvariant ==
    ASSUME SshIInv, SourceTimesOut
    PROVE  SshIInv'
  <1>1. /\ phase = "gathering" /\ phase' = "done" /\ outcome' = [kind |-> "failed"]
        /\ task' = [j \in TaskIds |-> [task[j] EXCEPT !.at = "joined"]]
        /\ UNCHANGED <<gather, permits, results>>
    BY DEF SourceTimesOut
  <1>2. runs' = runs
    BY CutScriptsDoNotRun DEF SourceTimesOut
  <1>3. TaskIds' = TaskIds
    BY <1>1 DEF TaskIds
  <1>4. \A j \in TaskIds : /\ {"at", "attempt"} \subseteq DOMAIN task'[j]
                           /\ task'[j].at = "joined"
    BY <1>1 DEF SshIInv, SshInv, TasksAreVerified
  <1>5. TasksAreVerified'
    BY <1>3, <1>4 DEF TasksAreVerified
  <1>6. Live' = {}
    BY <1>3, <1>4 DEF Live
  <1>7. PermitsAreOut'
    BY <1>1, <1>6, FS_EmptySet DEF PermitsAreOut, SshIInv, SshInv
  <1>8. Lifecycle' /\ TasksReport'
    BY <1>1, <1>3, <1>4, SshGatherAssumption DEF SshIInv, SshInv, Lifecycle, TasksReport
  <1>9. ResultsAreWhole'
    BY <1>1 DEF SshIInv, SshInv, ResultsAreWhole
  <1>10. NothingRunsUnverified'
    BY <1>1, <1>2, NoMoreRuns DEF SshIInv
  <1>11. QED
    BY <1>5, <1>7, <1>8, <1>9, <1>10 DEF SshIInv, SshInv

\* Every step of a gather keeps the invariant.
LEMMA SshStepInvariant ==
    ASSUME SshIInv, SshNext
    PROVE  SshIInv'
  <1>1. CASE Start
    BY <1>1, StartInvariant
  <1>2. CASE SourceTimesOut
    BY <1>2, SourceTimesOutInvariant
  <1>3. ASSUME NEW i \in TaskIds, HostStep(i)
        PROVE  SshIInv'
    BY <1>3, AcquireInvariant, NothingThereInvariant, ConnectInvariant, LogInInvariant,
       SentInvariant, FinishInvariant, SessionFailsInvariant, AddressTimesOutInvariant,
       PanicInvariant DEF HostStep
  <1>4. QED
    BY <1>1, <1>2, <1>3 DEF SshNext

-----------------------------------------------------------------------------
(* The run of a script.                                                    *)

\* Who waits, what has become of the child, and what is known by then.
ScriptInv ==
    /\ ScriptTypeOK
    /\ caller \in {"spawning", "unused"} => child = "none"
    /\ caller = "joining" => child = "exited"
    /\ caller = "gone" => child # "running"
    /\ caller = "done" => child \in {"none", "exited"}
    /\ caller # "done" => answer \in {"none", "failed"}
    /\ caller = "done" /\ child = "none" => answer = "failed"
    /\ caller = "done" /\ child = "exited" => writer # "writing" /\ answer = Verdict

\* Every step of a run keeps it.
LEMMA ScriptStepInvariant ==
    ASSUME ScriptInv, ScriptNext
    PROVE  ScriptInv'
  <1> DEFINE Promised ==
        /\ caller \in {"spawning", "unused"} => child = "none"
        /\ caller = "joining" => child = "exited"
        /\ caller = "gone" => child # "running"
        /\ caller = "done" => child \in {"none", "exited"}
        /\ caller # "done" => answer \in {"none", "failed"}
        /\ caller = "done" /\ child = "none" => answer = "failed"
        /\ caller = "done" /\ child = "exited" => writer # "writing" /\ answer = Verdict
  <1> SUFFICES ScriptTypeOK' /\ Promised'
    BY DEF ScriptInv
  <1>0. ScriptTypeOK /\ Promised
    BY DEF ScriptInv
  <1>1. CASE Spawn
    <2>1. ScriptTypeOK'
      BY <1>0, <1>1 DEF Spawn, ScriptTypeOK, Pipe
    <2>2. Promised'
      BY <1>0, <1>1 DEF Spawn, ScriptTypeOK, Verdict, Status
    <2>3. QED
      BY <2>1, <2>2
  <1>2. CASE WriteInput
    <2>1. ScriptTypeOK'
      BY <1>0, <1>2 DEF WriteInput, ScriptTypeOK, Pipe
    <2>2. Promised'
      BY <1>0, <1>2 DEF WriteInput, ScriptTypeOK, Verdict, Status
    <2>3. QED
      BY <2>1, <2>2
  <1>3. CASE InputFails
    <2>1. ScriptTypeOK'
      BY <1>0, <1>3 DEF InputFails, ScriptTypeOK, Pipe
    <2>2. Promised'
      BY <1>0, <1>3 DEF InputFails, ScriptTypeOK, Verdict, Status
    <2>3. QED
      BY <2>1, <2>2
  <1>4. CASE Drain
    <2>1. ScriptTypeOK'
      BY <1>0, <1>4 DEF Drain, ScriptTypeOK, Pipe
    <2>2. Promised'
      BY <1>0, <1>4 DEF Drain, ScriptTypeOK, Verdict, Status
    <2>3. QED
      BY <2>1, <2>2
  <1>5. CASE Reap
    <2>1. ScriptTypeOK'
      BY <1>0, <1>5 DEF Reap, ScriptTypeOK, Pipe
    <2>2. Promised'
      BY <1>0, <1>5 DEF Reap, ScriptTypeOK, Verdict, Status
    <2>3. QED
      BY <2>1, <2>2
  <1>6. CASE Return
    <2>1. ScriptTypeOK'
      BY <1>0, <1>6 DEF Return, ScriptTypeOK, Pipe, Verdict
    <2>2. Promised'
      BY <1>0, <1>6 DEF Return, ScriptTypeOK, Verdict, Status
    <2>3. QED
      BY <2>1, <2>2
  <1>7. CASE GiveUp
    <2>1. ScriptTypeOK'
      BY <1>0, <1>7 DEF GiveUp, ScriptTypeOK, Pipe
    <2>2. Promised'
      BY <1>0, <1>7 DEF GiveUp, ScriptTypeOK, Verdict, Status
    <2>3. QED
      BY <2>1, <2>2
  <1>8. CASE ChildReads
    <2>1. ScriptTypeOK'
      BY <1>0, <1>8 DEF ChildReads, Does, ChildGoes, ScriptTypeOK, Pipe
    <2>2. Promised'
      BY <1>0, <1>8 DEF ChildReads, Does, ChildGoes, ScriptTypeOK, Verdict, Status
    <2>3. QED
      BY <2>1, <2>2
  <1>9. CASE ChildWrites
    <2>1. ScriptTypeOK'
      BY <1>0, <1>9 DEF ChildWrites, Does, ChildGoes, ScriptTypeOK, Pipe
    <2>2. Promised'
      BY <1>0, <1>9 DEF ChildWrites, Does, ChildGoes, ScriptTypeOK, Verdict, Status
    <2>3. QED
      BY <2>1, <2>2
  <1>10. CASE ChildExits
    <2>1. ScriptTypeOK'
      <3>1. /\ child' = "exited" /\ stdin' = 0
            /\ UNCHANGED <<caller, stdout, stderr, writer, unsent, answer>>
        BY <1>10 DEF ChildExits
      <3>2. QED
        BY <1>0, <3>1 DEF ScriptTypeOK, Pipe
    <2>2. Promised'
      BY <1>0, <1>10 DEF ChildExits, Does, ScriptTypeOK, Verdict, Status
    <2>3. QED
      BY <2>1, <2>2
  <1>11. QED
    BY <1>1, <1>2, <1>3, <1>4, <1>5, <1>6, <1>7, <1>8, <1>9, <1>10 DEF ScriptNext

-----------------------------------------------------------------------------
(* What a finished gather says.                                            *)

\* All who were asked have answered, failed or panicked.
LEMMA AllAreAccountedFor ==
    ASSUME SshInv
    PROVE  EveryHostIsAccountedFor
  <1> SUFFICES ASSUME phase = "done", outcome.kind = "gathered"
               PROVE  LET gathered == DOMAIN outcome.hostvars
                      IN  /\ gathered \cup outcome.unreachable \cup Panicked = HostsAsked
                          /\ \A h \in gathered \cap outcome.unreachable :
                                \E i, j \in DOMAIN Specs :
                                   i # j /\ Specs[i].name = h /\ Specs[j].name = h
    BY DEF EveryHostIsAccountedFor
  <1> DEFINE with(k) == {results[n].host : n \in {m \in DOMAIN results : results[m].kind = k}}
  <1>1. /\ TaskIds = DOMAIN Specs /\ outcome = Collected(results)
        /\ \A i \in TaskIds : task[i].at = "joined"
        /\ \A n \in DOMAIN results : results[n].kind \in ResultKinds
    BY DEF SshInv, Lifecycle, ResultsAreWhole
  <1>2. PICK by \in [DOMAIN results -> TaskIds] : ReportedBy(by)
    BY DEF SshInv, TasksReport, Reported
  <1>3. /\ DOMAIN outcome.hostvars = with("answer") /\ outcome.unreachable = with("failure")
        /\ Panicked = with("panic")
    BY <1>1 DEF Collected, HostVars, Of, Panicked
  <1>4. with("answer") \cup with("failure") \cup with("panic")
           = {results[n].host : n \in DOMAIN results}
    BY <1>1 DEF ResultKinds
  <1>5. {results[n].host : n \in DOMAIN results} = HostsAsked
    BY <1>1, <1>2 DEF ReportedBy, HostsAsked
  <1>6. ASSUME NEW h \in with("answer"), h \in with("failure")
        PROVE  \E i, j \in DOMAIN Specs : i # j /\ Specs[i].name = h /\ Specs[j].name = h
    <2>1. PICK m \in DOMAIN results : results[m].kind = "answer" /\ results[m].host = h
      OBVIOUS
    <2>2. PICK n \in DOMAIN results : results[n].kind = "failure" /\ results[n].host = h
      BY <1>6
    <2>3. m # n /\ by[m] # by[n] /\ by[m] \in DOMAIN Specs /\ by[n] \in DOMAIN Specs
      BY <1>1, <1>2, <2>1, <2>2 DEF ReportedBy
    <2>4. Specs[by[m]].name = h /\ Specs[by[n]].name = h
      BY <1>2, <2>1, <2>2 DEF ReportedBy
    <2>5. QED
      BY <2>3, <2>4
  <1>7. QED
    BY <1>3, <1>4, <1>5, <1>6

\* Scopes narrow, and groups are sorted lists of who has answered.
LEMMA GroupsAreSorted ==
    ASSUME SshInv
    PROVE  GroupsAreOfTheAnswers
  <1> SUFFICES ASSUME phase = "done", outcome.kind = "gathered"
               PROVE  GroupsAreOfTheAnswers
    BY DEF GroupsAreOfTheAnswers
  <1> DEFINE answered == Of(results, "answer")
             hostvars == HostVars(results, answered)
             keys == UNION {hostvars[h] : h \in DOMAIN hostvars}
             reachable == HostsInOrder(results, answered)
             with(k) == {h \in DOMAIN hostvars : k \in hostvars[h]}
  <1>1. /\ gather \in Gathers /\ TaskIds = DOMAIN Specs /\ outcome = Collected(results)
        /\ DOMAIN results = 1 .. Len(results) /\ Len(results) \in Nat
    BY DEF SshInv, Lifecycle, ResultsAreWhole
  <1>2. PICK by \in [DOMAIN results -> TaskIds] : ReportedBy(by)
    BY DEF SshInv, TasksReport, Reported
  <1>3. \A n \in DOMAIN results : results[n].host \in Nat
    <2> TAKE n \in DOMAIN results
    <2>1. by[n] \in DOMAIN Specs /\ results[n].host = Specs[by[n]].name
      BY <1>1, <1>2 DEF ReportedBy
    <2>2. QED
      BY <1>1, <2>1, ScopeNarrows DEF Specs
  <1>4. answered \in SUBSET Nat /\ IsFiniteSet(answered)
    <2>1. answered \in SUBSET (1 .. Len(results)) /\ IsFiniteSet(1 .. Len(results))
      BY <1>1, FS_Interval DEF Of
    <2>2. QED
      BY <2>1, FS_Subset
  <1>5. \A i \in answered : results[i].host \in Nat
    BY <1>3 DEF Of
  <1>6. DOMAIN hostvars = {results[i].host : i \in answered}
    BY DEF HostVars
  <1>7. DOMAIN hostvars \in SUBSET Nat /\ IsFiniteSet(DOMAIN hostvars)
    <2> DEFINE hosts == {results[i].host : i \in answered}
               hostOf == [i \in answered |-> results[i].host]
    <2>1. IsFiniteSet(hosts)
      <3> HIDE DEF answered
      <3>1. hostOf \in Surjection(answered, hosts)
        BY DEF Surjection
      <3>2. QED
        BY <1>4, <3>1, FS_Surjection
    <2>2. QED
      BY <1>5, <1>6, <2>1
  <1>8. /\ outcome.hostvars = hostvars
        /\ outcome.groups = [k \in keys \cup {"ssh_gathered"} |->
                                IF k \in keys THEN Sorted(with(k)) ELSE reachable]
    BY <1>1 DEF Collected, GroupsOf
  <1>9. /\ \A a, b \in DOMAIN reachable : a < b => reachable[a] <= reachable[b]
        /\ \A h \in DOMAIN hostvars : \E n \in DOMAIN reachable : reachable[n] = h
    <2> HIDE DEF answered, hostvars
    <2>1. /\ \A a, b \in DOMAIN reachable : a < b => reachable[a] <= reachable[b]
          /\ \A i \in answered : \E n \in DOMAIN reachable : reachable[n] = results[i].host
      BY <1>4, <1>5, HostsSort
    <2>2. QED
      BY <1>6, <2>1
  <1>10. \A k \in keys \cup {"ssh_gathered"} :
            k \in keys <=> \E h \in DOMAIN hostvars : k \in hostvars[h]
    OBVIOUS
  <1>11. ASSUME NEW k \in keys
         PROVE  /\ Sorted(with(k)) \in [1 .. Cardinality(with(k)) -> with(k)]
                /\ \A a, b \in DOMAIN Sorted(with(k)) :
                      a < b => Sorted(with(k))[a] < Sorted(with(k))[b]
                /\ \A h \in with(k) : \E n \in DOMAIN Sorted(with(k)) : Sorted(with(k))[n] = h
                /\ with(k) \in SUBSET Nat
    <2> HIDE DEF hostvars
    <2>1. with(k) \in SUBSET DOMAIN hostvars
      OBVIOUS
    <2>2. with(k) \in SUBSET Nat /\ IsFiniteSet(with(k))
      BY <1>7, <2>1, FS_Subset
    <2> HIDE DEF with
    <2>3. QED
      BY <2>2, SortedIsSorted
  <1>12. gather.scope.kind = "host" => HostsAsked \subseteq gather.scope.target
    BY <1>1, ScopeNarrows DEF HostsAsked, Specs
  <1> HIDE DEF answered, hostvars, reachable, keys
  <1>13. ASSUME NEW k \in DOMAIN outcome.groups
         PROVE  LET members == outcome.groups[k]
                    has(h) == \E n \in DOMAIN members : members[n] = h
                    reported == \E h \in DOMAIN hostvars : k \in hostvars[h]
                IN  /\ \A a, b \in DOMAIN members : a < b => members[a] <= members[b]
                    /\ reported =>
                          /\ \A a, b \in DOMAIN members : a < b => members[a] < members[b]
                          /\ \A h \in DOMAIN hostvars : k \in hostvars[h] <=> has(h)
                    /\ ~reported =>
                          k = "ssh_gathered" /\ \A h \in DOMAIN hostvars : has(h)
    <2>1. k \in keys \cup {"ssh_gathered"}
      BY <1>8
    <2>2. CASE k \in keys
      <3> DEFINE members == Sorted(with(k))
      <3>1. outcome.groups[k] = members
        BY <1>8, <2>1, <2>2
      <3>2. /\ \A n \in DOMAIN members : members[n] \in with(k) /\ members[n] \in Nat
            /\ \A a, b \in DOMAIN members : a < b => members[a] < members[b]
            /\ \A h \in with(k) : \E n \in DOMAIN members : members[n] = h
        BY <1>11, <2>2
      <3> HIDE DEF members
      <3>3. \A a, b \in DOMAIN members : a < b => members[a] <= members[b]
        BY <3>2
      <3>4. \A h \in DOMAIN hostvars :
               k \in hostvars[h] <=> \E n \in DOMAIN members : members[n] = h
        BY <3>2
      <3>5. QED
        BY <1>10, <2>1, <2>2, <3>1, <3>2, <3>3, <3>4
    <2>3. CASE k \notin keys
      <3>1. outcome.groups[k] = reachable /\ k = "ssh_gathered"
        BY <1>8, <2>1, <2>3
      <3>2. QED
        BY <1>9, <1>10, <2>1, <2>3, <3>1
    <2>4. QED
      BY <2>2, <2>3
  <1>14. QED
    BY <1>8, <1>12, <1>13 DEF GroupsAreOfTheAnswers

\* A step of a script leaves the gather as it is.
LEMMA NoGatherMoves ==
    ASSUME SshIInv, UNCHANGED sshVars
    PROVE  SshIInv'
  <1>1. /\ gather' = gather /\ phase' = phase /\ task' = task /\ permits' = permits
        /\ results' = results /\ outcome' = outcome /\ runs' = runs
    BY DEF sshVars
  <1>2. TaskIds' = TaskIds /\ Specs' = Specs /\ Live' = Live
    BY <1>1 DEF TaskIds, Specs, Live
  <1>3. TasksAreVerified'
    BY <1>1, <1>2 DEF SshIInv, SshInv, TasksAreVerified, AddressOf
  <1>4. PermitsAreOut' /\ Lifecycle'
    BY <1>1, <1>2 DEF SshIInv, SshInv, PermitsAreOut, Lifecycle
  <1>5. ResultsAreWhole'
    BY <1>1 DEF SshIInv, SshInv, ResultsAreWhole
  <1>6. TasksReport'
    <2>1. Reported => Reported'
      BY <1>1, <1>2 DEF Reported, ReportedBy
    <2>2. QED
      BY <1>1, <2>1 DEF SshIInv, SshInv, TasksReport
  <1>7. NothingRunsUnverified'
    BY <1>1, <1>2 DEF SshIInv, NothingRunsUnverified
  <1>8. QED
    BY <1>3, <1>4, <1>5, <1>6, <1>7 DEF SshIInv, SshInv

-----------------------------------------------------------------------------
(* Theorems.                                                               *)

IInv == SshIInv /\ ScriptInv

\* The invariant holds throughout: permits are in the semaphore or with a
\* live task, a session has a key that was accepted, each task that has
\* returned has given one result, and a script's caller knows of its child.
THEOREM GatheringInvariant == Spec => []IInv
  <1>1. ASSUME Init
        PROVE  IInv
    <2>1. /\ task = <<>> /\ results = <<>> /\ runs = {} /\ permits = 0
          /\ \/ gather \in Gathers /\ phase = "ready"
             \/ gather = None /\ phase = "unused"
      BY <1>1 DEF Init, SshInit, SshUnused
    <2>2. TaskIds = {} /\ DOMAIN results = {} /\ Len(results) = 0 /\ Live = {}
      BY <2>1 DEF TaskIds, Live
    <2>3. SshInv /\ NothingRunsUnverified
      BY <2>1, <2>2, FS_EmptySet DEF SshInv, TasksAreVerified, PermitsAreOut, Lifecycle,
         ResultsAreWhole, TasksReport, NothingRunsUnverified
    <2>4. ScriptInv
      BY <1>1, ScriptRunAssumption DEF Init, ScriptInit, ScriptUnused, Blank, ScriptInv,
         ScriptTypeOK, Pipe
    <2>5. QED
      BY <2>3, <2>4 DEF IInv, SshIInv
  <1>2. ASSUME IInv, [Next]_vars
        PROVE  IInv'
    <2>1. CASE SshStep
      <3>1. SshIInv'
        BY <1>2, <2>1, SshStepInvariant DEF SshStep, IInv
      <3>2. ScriptInv'
        BY <1>2, <2>1 DEF SshStep, scriptVars, IInv, ScriptInv, ScriptTypeOK, Verdict, Status
      <3>3. QED
        BY <3>1, <3>2 DEF IInv
    <2>2. CASE UNCHANGED sshVars
      <3>1. SshIInv'
        BY <1>2, <2>2, NoGatherMoves DEF IInv
      <3>2. ScriptInv'
        <4>1. CASE ScriptNext
          BY <1>2, <4>1, ScriptStepInvariant DEF IInv
        <4>2. CASE UNCHANGED scriptVars
          BY <1>2, <4>2 DEF scriptVars, IInv, ScriptInv, ScriptTypeOK, Verdict, Status
        <4>3. QED
          BY <1>2, <2>2, <4>1, <4>2 DEF Next, SshStep, ScriptStep, vars
      <3>3. QED
        BY <3>1, <3>2 DEF IInv
    <2>3. QED
      BY <1>2, <2>1, <2>2 DEF Next, ScriptStep, vars
  <1>3. QED
    BY <1>1, <1>2, PTL DEF Spec

\* Every command runs whole and behind a key that known_hosts records for the
\* address dialled, sessions keep to the permits, and nobody who has stopped
\* waiting leaves a session or a child behind (ssh.rs:50, ssh.rs:217,
\* connectors/process.rs:64).
THEOREM NothingIsLeftRunning == Spec => []NothingRunsUnwatched
  <1>1. ASSUME IInv
        PROVE  NothingRunsUnwatched
    <2>1. NoSessionOutlivesTheGather
      <3>1. phase # "gathering" => Live = {}
        BY <1>1 DEF IInv, SshIInv, SshInv, PermitsAreOut
      <3>2. CASE phase = "gathering"
        <4>1. gather \in Gathers /\ gather # None
          BY <1>1, <3>2, SshGatherAssumption DEF IInv, SshIInv, SshInv, Lifecycle
        <4>2. permits \in Nat /\ permits + Cardinality(Live) = gather.concurrency
          BY <1>1, <3>2 DEF IInv, SshIInv, SshInv, PermitsAreOut
        <4>3. Cardinality(Live) \in Nat
          BY <1>1, FS_CardinalityType DEF IInv, SshIInv, SshInv, PermitsAreOut
        <4>4. QED
          BY <3>2, <4>1, <4>2, <4>3 DEF NoSessionOutlivesTheGather
      <3>3. CASE phase # "gathering"
        <4>1. Cardinality(Live) = 0
          BY <3>1, <3>3, FS_EmptySet
        <4>2. gather = None \/ gather.concurrency \in Nat
          BY <1>1, SshGatherAssumption DEF IInv, SshIInv, SshInv, Lifecycle
        <4>3. QED
          BY <3>1, <4>1, <4>2 DEF NoSessionOutlivesTheGather
      <3>4. QED
        BY <3>2, <3>3
    <2>2. NoScriptOutlivesItsCaller
      BY <1>1 DEF IInv, ScriptInv, NoScriptOutlivesItsCaller
    <2>3. QED
      BY <1>1, <2>1, <2>2 DEF IInv, SshIInv, NothingRunsUnwatched, NothingOutlivesTheWait
  <1>2. QED
    BY <1>1, GatheringInvariant, PTL

\* A gather that has answered accounts for every host it asked, by its
\* variables or in the list of the unreachable, never both unless the settings
\* name it twice (ssh.rs:367); a host scope asks nobody else (ssh.rs:425), and
\* the groups are those of the answers in an order that is not theirs
\* (ssh.rs:307).  A script's answer is the one it ended with
\* (enrichers/process.rs:123).
THEOREM EveryAnswerIsWhole == Spec => []AnswersAreWhole
  <1>1. ASSUME IInv
        PROVE  AnswersAreWhole
    <2>1. TypeOK
      BY <1>1 DEF IInv, SshIInv, SshInv, TasksAreVerified, LiveStates, Lifecycle, PermitsAreOut,
         ScriptInv, TypeOK
    <2>2. EveryHostIsAccountedFor /\ GroupsAreOfTheAnswers
      BY <1>1, AllAreAccountedFor, GroupsAreSorted DEF IInv, SshIInv
    <2>3. AnswersAreTheScripts
      BY <1>1 DEF IInv, ScriptInv, ScriptTypeOK, AnswersAreTheScripts, Verdict
    <2>4. QED
      BY <2>1, <2>2, <2>3 DEF AnswersAreWhole, GatherAccountsForEveryHost
  <1>2. QED
    BY <1>1, GatheringInvariant, PTL

-----------------------------------------------------------------------------
(* The reads of an origin and the pulls of a central: the invariant.       *)

\* The writes of this life of the origin, counted or about to be.
Written == generation + unbumped + (IF pc = "refreshed" THEN 1 ELSE 0)

\* What a request has read is what was there when it read it, and is there
\* still unless a write came in between.
RequestReads ==
    /\ kind \in Readers \cup {"remote"} /\ (kind = "remote" => pc = "idle" /\ copy = NoCopy)
    /\ got \in Seq(Contents \cup {NoData})
    /\ pc \in {"idle", "refreshing", "refreshed"} => got = <<>>
    /\ pc = "reading" => Len(got) < Len(Reads(kind))
    /\ pc # "idle" => BodyIn(cache, kind) \in seen
    /\ kind = "plain" /\ pc = "answering" => got \in seen
    /\ ~overlapped => \A i \in 1 .. Len(got) : got[i] = cache[Reads(kind)[i]]
    /\ validator # NoCopy => copy # NoCopy /\ validator = copy.etag

\* A copy from an untorn response is of its generation: with that many writes
\* and no more, it is what the origin holds.
CopyHolds ==
    copy # NoCopy =>
        /\ copy.life \in 0 .. restarts
        /\ kind = "plain" => copy.etag = <<"bytes", copy.body>>
        /\ kind # "plain" /\ copy.life = restarts /\ ~copy.torn =>
              LET g == copy.etag[2]
              IN  /\ copy.etag = <<"generation", g>> /\ g \in 0 .. Written
                  /\ g = Written => copy.body = BodyIn(cache, kind)

ReadsInv == ReadsTypeOK /\ unbumped <= writes /\ RequestReads /\ CopyHolds

PullFields == {"at", "scope", "validator", "body", "age", "seen", "gathered", "moved", "aged"}

\* What an answer to a pull may hold, of what the origin held during it.
Fits(pull, body) ==
    IF pull.scope = Full THEN body \in pull.seen \ {NoData}
    ELSE \E c \in pull.seen \ {NoData} : body = Restrict(c, {pull.scope})

\* A pull under way, its answer in what the origin, which holds `held`, has
\* held since it began.
PullKeeps(pull, held, remembered) ==
    /\ DOMAIN pull = PullFields /\ pull.at \in Stages \ {"idle"}
    /\ pull.scope \in {Full} \cup Hosts
    /\ held \in pull.seen /\ pull.seen \subseteq Contents \cup {NoData}
    /\ pull.validator \in Contents \cup {NoData}
    /\ pull.validator # NoData => pull.scope = Full /\ remembered # NoData
    /\ pull.body # NoData => DOMAIN pull.body \subseteq Hosts
    /\ pull.at = "reply" =>
          IF pull.body = NoData THEN pull.validator # NoData ELSE Fits(pull, pull.body)
    /\ pull.at \in {"status", "scope", "land"} => pull.body # NoData
    /\ pull.scope = Full => pull.body \in Contents \cup {NoData}

\* Its ages, at this time, when the origin's entry is since then.
PullDates(pull, time, since) ==
    /\ pull.aged \in 0 .. time /\ pull.gathered \in 0 .. time /\ pull.moved \in BOOLEAN
    /\ pull.age = Unknown \/ pull.age \in 0 .. time
    /\ pull.at \in {"reply", "status"} /\ ~pull.moved => pull.gathered = since
    /\ pull.at \in {"scope", "land"} /\ ~pull.moved /\ pull.age # Unknown =>
          pull.age = pull.aged - pull.gathered
    /\ IF pull.at \in {"scope", "land"} THEN pull.age = Unknown \/ pull.age <= pull.aged
       ELSE pull.age = Unknown

PullHolds(p) ==
    kind = "remote" /\ PullKeeps(pulls[p], cache[Source], memo) /\ PullDates(pulls[p], now, born)

\* The central's entries: none, or of these hosts and no younger than now.
EntryFits(entry) ==
    \/ entry = NoEntry
    \/ /\ entry = [content |-> entry.content, dated |-> entry.dated]
       /\ DOMAIN entry.content \subseteq Hosts /\ entry.dated \in 0 .. now

PullInv ==
    /\ ReadsInv
    /\ now \in 0 .. MaxTime /\ born \in 0 .. now /\ savedBorn \in 0 .. now
    /\ failures \in 0 .. MaxFailures /\ scopes \subseteq Pullers
    /\ memo \in Contents \cup {NoData}
    /\ DOMAIN central = Pullers /\ \A p \in Pullers : EntryFits(central[p])
    /\ DOMAIN pulls = Pullers
    /\ \A p \in Pullers : pulls[p] # Idle => PullHolds(p)

\* A pull that shares the memo with no other is validated by what is remembered
\* still, and so a 304 stands for what the origin held during it.
OwnMemo(pull, remembered) ==
    /\ pull.at \in {"asked", "reply"} /\ pull.scope = Full => pull.validator = remembered
    /\ pull.at = "reply" /\ pull.body = NoData => pull.validator \in pull.seen
    /\ pull.at \in {"status", "scope", "land"} => Fits(pull, pull.body)

MemosAreOwn == \A p \in Pullers : pulls[p] # Idle => OwnMemo(pulls[p], memo)

-----------------------------------------------------------------------------
(* Steps of the origin and of a request.                                   *)

\* What is read is a list of sources, not an empty one.
LEMMA ReadsAreSources ==
    ASSUME NEW k
    PROVE  /\ Reads(k) \in Seq(Sources) /\ Len(Reads(k)) \in Nat \ {0}
           /\ DOMAIN Reads(k) = 1 .. Len(Reads(k))
           /\ \A i \in 1 .. Len(Reads(k)) : Reads(k)[i] \in Sources
           /\ k \in {"plain", "filtered"} => Reads(k) = <<Source>>
  <1>1. /\ <<Source>> \in Seq(Sources) /\ Len(<<Source>>) = 1
        /\ Members \in Seq(Sources) /\ Members # <<>>
    BY ReadsAssumption
  <1>2. Len(Members) \in Nat \ {0}
    BY <1>1
  <1>3. Reads(k) \in Seq(Sources) /\ Len(Reads(k)) \in Nat \ {0}
    BY <1>1, <1>2 DEF Reads
  <1>4. k \in {"plain", "filtered"} => Reads(k) = <<Source>>
    BY DEF Reads
  <1> HIDE DEF Reads
  <1>5. QED
    BY <1>3, <1>4

\* A write that the request under way, if any, has seen.
LEMMA PutInvariant ==
    ASSUME ReadsInv, NEW s \in Sources, NEW c \in Contents \cup {NoData}, Put(s, c)
    PROVE  /\ cache' \in [Sources -> Contents \cup {NoData}]
           /\ writes' = writes + 1 /\ writes' \in 0 .. MaxWrites
  BY ReadsAssumption DEF ReadsInv, ReadsTypeOK, Put

\* Another writer's write.
LEMMA WriteInvariant ==
    ASSUME ReadsInv, NEW s \in Sources, NEW c \in Contents \cup {NoData}, Write(s, c)
    PROVE  ReadsInv'
  <1>1. /\ cache' \in [Sources -> Contents \cup {NoData}]
        /\ writes' = writes + 1 /\ writes' \in 0 .. MaxWrites
    BY PutInvariant DEF Write
  <1>2. /\ unbumped' = unbumped + 1 /\ overlapped' = (overlapped \/ got # <<>>)
        /\ seen' = IF pc = "idle" THEN seen ELSE seen \cup {BodyIn(cache', kind)}
        /\ UNCHANGED <<generation, saved, restarts, kind, pc, validator, got, copy>>
    BY DEF Write
  <1>3. ReadsTypeOK' /\ unbumped' <= writes'
    BY <1>1, <1>2, ReadsAssumption DEF ReadsInv, ReadsTypeOK
  <1>4. RequestReads'
    <2>1. pc' # "idle" => BodyIn(cache', kind') \in seen'
      BY <1>2
    <2>2. ~overlapped' => got' = <<>>
      BY <1>2
    <2>3. ~overlapped' => \A i \in 1 .. Len(got') : got'[i] = cache'[Reads(kind')[i]]
      BY <2>2
    <2>4. (kind = "plain" /\ pc = "answering" => got \in seen')
      BY <1>2 DEF ReadsInv, RequestReads
    <2>5. QED
      BY <1>2, <2>1, <2>3, <2>4 DEF ReadsInv, RequestReads
  <1>5. CopyHolds'
    <2>1. Written \in Nat /\ Written' = Written + 1
      BY <1>2 DEF ReadsInv, ReadsTypeOK, Written
    <2>2. QED
      BY <1>2, <2>1 DEF ReadsInv, CopyHolds
  <1>6. QED
    BY <1>3, <1>4, <1>5 DEF ReadsInv

\* It is counted.
LEMMA BumpInvariant ==
    ASSUME ReadsInv, Bump
    PROVE  ReadsInv'
  <1>1. /\ unbumped > 0 /\ unbumped' = unbumped - 1 /\ generation' = generation + 1
        /\ UNCHANGED <<cache, saved, writes, restarts, kind, pc, validator, got, seen,
                       overlapped, copy>>
    BY DEF Bump, reader
  <1>2. ReadsTypeOK' /\ unbumped' <= writes'
    BY <1>1, ReadsAssumption DEF ReadsInv, ReadsTypeOK
  <1>3. RequestReads'
    BY <1>1 DEF ReadsInv, RequestReads
  <1>4. Written' = Written
    BY <1>1 DEF ReadsInv, ReadsTypeOK, Written
  <1>5. CopyHolds'
    BY <1>1, <1>4 DEF ReadsInv, CopyHolds
  <1>6. QED
    BY <1>2, <1>3, <1>5 DEF ReadsInv

\* Nothing of what is read changes.
LEMMA ReadsUnchanged ==
    ASSUME ReadsInv, saved' \in {saved, cache},
           UNCHANGED <<cache, generation, unbumped, writes, restarts, reader>>
    PROVE  ReadsInv'
  <1>1. UNCHANGED <<cache, generation, unbumped, writes, restarts, kind, pc, validator, got,
                    seen, overlapped, copy>>
    BY DEF reader
  <1>2. ReadsTypeOK' /\ unbumped' <= writes'
    BY <1>1 DEF ReadsInv, ReadsTypeOK
  <1>3. RequestReads'
    BY <1>1 DEF ReadsInv, RequestReads
  <1>4. CopyHolds'
    BY <1>1 DEF ReadsInv, CopyHolds, Written
  <1>5. QED
    BY <1>2, <1>3, <1>4 DEF ReadsInv

\* A restart loses the request and makes every copy one of an earlier life.
LEMMA RestartInvariant ==
    ASSUME ReadsInv, Restart
    PROVE  ReadsInv'
  <1>1. /\ restarts < MaxRestarts /\ restarts' = restarts + 1 /\ cache' = saved
        /\ generation' = Cardinality(Entries(saved)) /\ unbumped' = 0
        /\ UNCHANGED <<saved, writes, kind>>
        /\ pc' = "idle" /\ validator' = NoCopy /\ got' = <<>> /\ seen' = {} /\ overlapped' = FALSE
        /\ copy' \in {NoCopy, copy}
    BY DEF Restart, Reboot, RequestLost
  <1>2. generation' \in Nat
    <2>1. Entries(saved) \in SUBSET Sources
      BY DEF Entries
    <2>2. QED
      BY <1>1, <2>1, ReadsAssumption, FS_Subset, FS_CardinalityType
  <1>3. Len(got') = 0 /\ got' \in Seq(Contents \cup {NoData})
    BY <1>1
  <1>4. ReadsTypeOK' /\ unbumped' <= writes'
    BY <1>1, <1>2, <1>3, ReadsAreSources, ReadsAssumption DEF ReadsInv, ReadsTypeOK
  <1>5. RequestReads'
    BY <1>1, <1>3 DEF ReadsInv, RequestReads
  <1>6. CopyHolds'
    <2>1. SUFFICES ASSUME copy' # NoCopy PROVE CopyHolds'
      BY DEF CopyHolds
    <2>2. /\ copy' = copy /\ copy.life \in 0 .. restarts
          /\ kind = "plain" => copy.etag = <<"bytes", copy.body>>
      BY <1>1, <2>1 DEF ReadsInv, CopyHolds
    <2>3. copy.life \in 0 .. restarts' /\ copy.life # restarts'
      BY <1>1, <2>2, ReadsAssumption DEF ReadsInv, ReadsTypeOK
    <2>4. QED
      BY <1>1, <2>2, <2>3 DEF CopyHolds
  <1>7. QED
    BY <1>4, <1>5, <1>6 DEF ReadsInv

\* The request comes in.
LEMMA AskInvariant ==
    ASSUME ReadsInv, Ask
    PROVE  ReadsInv'
  <1>1. /\ kind \in Readers /\ pc = "idle" /\ pc' \in {"refreshing", "reading"}
        /\ validator' = (IF copy = NoCopy THEN NoCopy ELSE copy.etag)
        /\ seen' = {BodyIn(cache, kind)}
        /\ UNCHANGED <<cache, generation, unbumped, saved, writes, restarts, kind, got,
                       overlapped, copy>>
    BY DEF Ask, origin
  <1>2. got = <<>> /\ Len(got) = 0
    BY <1>1 DEF ReadsInv, RequestReads
  <1>3. ReadsTypeOK' /\ unbumped' <= writes'
    BY <1>1 DEF ReadsInv, ReadsTypeOK
  <1>4. RequestReads'
    BY <1>1, <1>2, ReadsAreSources DEF ReadsInv, RequestReads, Readers
  <1>5. Written' = Written
    BY <1>1 DEF Written
  <1>6. CopyHolds'
    BY <1>1, <1>5 DEF ReadsInv, CopyHolds
  <1>7. QED
    BY <1>3, <1>4, <1>6 DEF ReadsInv

\* Its own refresh lands, before anything is read.
LEMMA RefreshPutsInvariant ==
    ASSUME ReadsInv, RefreshPuts
    PROVE  ReadsInv'
  <1>1. PICK i \in DOMAIN Reads(kind), c \in Contents : Put(Reads(kind)[i], c)
    BY DEF RefreshPuts
  <1>2. /\ cache' \in [Sources -> Contents \cup {NoData}]
        /\ writes' = writes + 1 /\ writes' \in 0 .. MaxWrites
    BY <1>1, PutInvariant, ReadsAreSources
  <1>3. /\ pc = "refreshing" /\ pc' = "refreshed" /\ seen' = {BodyIn(cache', kind)}
        /\ UNCHANGED <<generation, unbumped, saved, restarts, kind, validator, got,
                       overlapped, copy>>
    BY DEF RefreshPuts
  <1>4. ReadsTypeOK' /\ unbumped' <= writes'
    BY <1>2, <1>3 DEF ReadsInv, ReadsTypeOK
  <1>5. got = <<>> /\ Len(got) = 0
    BY <1>3 DEF ReadsInv, RequestReads
  <1>6. RequestReads'
    BY <1>2, <1>3, <1>5 DEF ReadsInv, RequestReads
  <1>7. Written \in Nat /\ Written' = Written + 1
    BY <1>3 DEF ReadsInv, ReadsTypeOK, Written
  <1>8. CopyHolds'
    BY <1>3, <1>7 DEF ReadsInv, CopyHolds
  <1>9. QED
    BY <1>4, <1>6, <1>8 DEF ReadsInv

\* It is counted, or there is none: the reads begin.
LEMMA ReadsBegin ==
    ASSUME ReadsInv, RefreshBumps \/ RefreshSkipped
    PROVE  ReadsInv'
  <1>1. /\ pc \in {"refreshing", "refreshed"} /\ pc' = "reading"
        /\ generation' = IF pc = "refreshed" THEN generation + 1 ELSE generation
        /\ UNCHANGED <<cache, unbumped, saved, writes, restarts, kind, validator, got, seen,
                       overlapped, copy>>
    BY DEF RefreshBumps, RefreshSkipped, origin
  <1>2. got = <<>> /\ Len(got) = 0
    BY <1>1 DEF ReadsInv, RequestReads
  <1>3. ReadsTypeOK' /\ unbumped' <= writes'
    BY <1>1 DEF ReadsInv, ReadsTypeOK
  <1>4. RequestReads'
    BY <1>1, <1>2, ReadsAreSources DEF ReadsInv, RequestReads
  <1>5. Written' = Written
    BY <1>1 DEF ReadsInv, ReadsTypeOK, Written
  <1>6. CopyHolds'
    BY <1>1, <1>5 DEF ReadsInv, CopyHolds
  <1>7. QED
    BY <1>3, <1>4, <1>6 DEF ReadsInv

\* A request that is lost or answered leaves nothing behind but its copy.
LEMMA RequestOver ==
    ASSUME ReadsInv, pc # "refreshed", UNCHANGED <<origin, kind>>,
           pc' = "idle", validator' = NoCopy, got' = <<>>, seen' = {}, overlapped' = FALSE,
           kind # "remote", CopyHolds'
    PROVE  ReadsInv'
  <1>1. UNCHANGED <<cache, generation, unbumped, saved, writes, restarts, kind>>
    BY DEF origin
  <1>2. Len(got') = 0 /\ got' \in Seq(Contents \cup {NoData})
    OBVIOUS
  <1>3. ReadsTypeOK' /\ unbumped' <= writes'
    BY <1>1, <1>2, ReadsAreSources DEF ReadsInv, ReadsTypeOK
  <1>4. RequestReads'
    BY <1>1, <1>2 DEF ReadsInv, RequestReads
  <1>5. QED
    BY <1>3, <1>4 DEF ReadsInv

\* One more entry is read, as it is now.
LEMMA GetEntryInvariant ==
    ASSUME ReadsInv, GetEntry
    PROVE  ReadsInv'
  <1> DEFINE s == Reads(kind)[Len(got) + 1]
             next == Append(got, cache[s])
             missing == kind \in {"plain", "filtered"} /\ cache[s] = NoData
  <1>1. /\ pc = "reading" /\ UNCHANGED origin
        /\ UNCHANGED <<cache, generation, unbumped, saved, writes, restarts, kind>>
    BY DEF GetEntry, origin, RequestLost
  <1>2. kind # "remote"
    BY <1>1 DEF ReadsInv, RequestReads
  <1>3. CASE missing
    <2>1. RequestLost /\ UNCHANGED copy
      BY <1>3 DEF GetEntry
    <2>2. Written' = Written
      BY <1>1, <2>1 DEF RequestLost, Written
    <2>3. CopyHolds'
      BY <1>1, <2>1, <2>2 DEF ReadsInv, CopyHolds
    <2>4. QED
      BY <1>1, <1>2, <2>1, <2>3, RequestOver DEF RequestLost
  <1>4. CASE ~missing
    <2>1. /\ got' = next /\ pc' = (IF Len(next) = Len(Reads(kind)) THEN "answering" ELSE "reading")
          /\ UNCHANGED <<kind, validator, seen, overlapped, copy>>
      BY <1>4 DEF GetEntry
    <2>2. /\ got \in Seq(Contents \cup {NoData}) /\ Len(got) \in Nat
          /\ Len(got) < Len(Reads(kind)) /\ Len(Reads(kind)) \in Nat /\ s \in Sources
      BY <1>1, ReadsAreSources DEF ReadsInv, RequestReads
    <2>3. cache[s] \in Contents \cup {NoData}
      BY <2>2 DEF ReadsInv, ReadsTypeOK
    <2>4. /\ next \in Seq(Contents \cup {NoData}) /\ Len(next) = Len(got) + 1
          /\ next[Len(got) + 1] = cache[s] /\ \A i \in 1 .. Len(got) : next[i] = got[i]
      BY <2>2, <2>3
    <2> HIDE DEF next
    <2>5. ReadsTypeOK' /\ unbumped' <= writes'
      BY <1>1, <2>1, <2>2, <2>4 DEF ReadsInv, ReadsTypeOK
    <2>6. ~overlapped => \A i \in 1 .. Len(next) : next[i] = cache[Reads(kind)[i]]
      BY <1>1, <2>2, <2>4 DEF ReadsInv, RequestReads
    <2>7. ASSUME kind = "plain"
          PROVE  next \in seen
      <3>1. Reads(kind) = <<Source>> /\ Len(got) = 0 /\ s = Source
        BY <2>2, <2>7, ReadsAreSources
      <3>2. BodyIn(cache, kind) \in seen
        BY <1>1 DEF ReadsInv, RequestReads
      <3>3. BodyIn(cache, kind) = [i \in 1 .. 1 |-> cache[Source]]
        BY <3>1 DEF BodyIn
      <3>4. next = [i \in 1 .. 1 |-> cache[Source]]
        BY <2>4, <3>1
      <3>5. QED
        BY <3>2, <3>3, <3>4
    <2>8. RequestReads'
      <3>1. /\ pc' = "reading" => Len(got') < Len(Reads(kind))
            /\ pc' = "answering" => Len(got') = Len(Reads(kind))
            /\ pc' \in {"reading", "answering"}
        BY <2>1, <2>2, <2>4
      <3>2. QED
        BY <1>1, <1>2, <2>1, <2>4, <2>6, <2>7, <3>1 DEF ReadsInv, RequestReads
    <2>9. Written' = Written
      BY <1>1, <2>1 DEF Written
    <2>10. CopyHolds'
      BY <1>1, <2>1, <2>9 DEF ReadsInv, CopyHolds
    <2>11. QED
      BY <2>5, <2>8, <2>10 DEF ReadsInv
  <1>5. QED
    BY <1>3, <1>4

\* What has been read untorn is all of what the origin holds.
LEMMA UntornReadsAreWhole ==
    ASSUME ReadsInv, pc = "answering", ~overlapped
    PROVE  got = BodyIn(cache, kind)
  <1>1. /\ got \in Seq(Contents \cup {NoData}) /\ Len(got) = Len(Reads(kind))
        /\ \A i \in 1 .. Len(got) : got[i] = cache[Reads(kind)[i]]
    <2>1. got \in Seq(Contents \cup {NoData}) /\ Len(got) = Len(Reads(kind))
      BY DEF ReadsInv, ReadsTypeOK, RequestReads
    <2>2. \A i \in 1 .. Len(got) : got[i] = cache[Reads(kind)[i]]
      BY Zenon DEF ReadsInv, RequestReads
    <2>3. QED
      BY <2>1, <2>2
  <1>2. DOMAIN got = DOMAIN Reads(kind) /\ DOMAIN Reads(kind) = 1 .. Len(got)
    BY <1>1, ReadsAreSources
  <1>3. got = [i \in DOMAIN got |-> got[i]]
    BY <1>1
  <1>4. QED
    BY <1>1, <1>2, <1>3 DEF BodyIn

\* The answer, with the copy it leaves.
LEMMA AnswerInvariant ==
    ASSUME ReadsInv, Answer
    PROVE  ReadsInv'
  <1>1. /\ pc = "answering" /\ copy' = (IF Is304 THEN copy ELSE Answered)
        /\ UNCHANGED <<origin, kind>>
        /\ UNCHANGED <<cache, generation, unbumped, saved, writes, restarts, kind>>
        /\ pc' = "idle" /\ validator' = NoCopy /\ got' = <<>> /\ seen' = {} /\ overlapped' = FALSE
    BY DEF Answer, origin
  <1>2. kind # "remote"
    BY <1>1 DEF ReadsInv, RequestReads
  <1>3. Written' = Written /\ Written = generation + unbumped /\ Written \in Nat
    BY <1>1 DEF ReadsInv, ReadsTypeOK, Written
  <1>4. CASE Is304
    BY <1>1, <1>2, <1>3, <1>4, RequestOver DEF ReadsInv, CopyHolds
  <1>5. CASE ~Is304
    <2>1. copy' = [body |-> got, etag |-> ETag, life |-> restarts, torn |-> overlapped]
      BY <1>1, <1>5 DEF Answered
    <2>2. restarts \in 0 .. restarts
      BY ReadsAssumption DEF ReadsInv, ReadsTypeOK
    <2>3. kind = "plain" => copy'.etag = <<"bytes", copy'.body>>
      BY <2>1 DEF ETag
    <2>4. ASSUME kind # "plain", ~overlapped
          PROVE  LET g == copy'.etag[2]
                 IN  /\ copy'.etag = <<"generation", g>> /\ g \in 0 .. Written
                     /\ g = Written => copy'.body = BodyIn(cache, kind)
      <3>1. copy'.etag = <<"generation", generation>> /\ copy'.etag[2] = generation
        BY <2>1, <2>4 DEF ETag
      <3>2. generation \in 0 .. Written
        BY <1>3 DEF ReadsInv, ReadsTypeOK
      <3>3. copy'.body = BodyIn(cache, kind)
        BY <1>1, <2>1, <2>4, UntornReadsAreWhole
      <3>4. QED
        BY <3>1, <3>2, <3>3
    <2>5. CopyHolds'
      BY <1>1, <1>3, <2>1, <2>2, <2>3, <2>4 DEF CopyHolds
    <2>6. QED
      BY <1>1, <1>2, <2>5, RequestOver
  <1>6. QED
    BY <1>4, <1>5

\* Every step of a request.
LEMMA ReaderStepInvariant ==
    ASSUME ReadsInv, ReaderNext
    PROVE  ReadsInv'
  BY AskInvariant, RefreshPutsInvariant, ReadsBegin, GetEntryInvariant, AnswerInvariant
  DEF ReaderNext

-----------------------------------------------------------------------------
(* What an answer says of the copy.                                        *)

\* Only an answer ends a request that has been read.
LEMMA AnswersAreCurrent ==
    ASSUME ReadsInv, Answer
    PROVE  /\ kind = "plain" => copy'.body \in seen
           /\ (kind # "plain" /\ Is304 /\ ~copy.torn /\ copy.life = restarts /\ unbumped = 0) =>
                 copy.body = BodyIn(cache, kind)
  <1>1. pc = "answering" /\ copy' = (IF Is304 THEN copy ELSE Answered)
    BY DEF Answer
  <1>2. Is304 => copy # NoCopy /\ copy.etag = ETag
    BY DEF Is304, ReadsInv, RequestReads
  <1>3. ASSUME kind = "plain"
        PROVE  copy'.body \in seen
    <2>1. got \in seen
      BY <1>1, <1>3 DEF ReadsInv, RequestReads
    <2>2. CASE Is304
      <3>1. copy.etag = <<"bytes", copy.body>> /\ copy.etag = <<"bytes", got>>
        BY <1>2, <1>3, <2>2 DEF ETag, ReadsInv, CopyHolds
      <3>2. copy.body = got
        <4>1. <<"bytes", copy.body>>[2] = copy.body /\ <<"bytes", got>>[2] = got
          OBVIOUS
        <4>2. QED
          BY <3>1, <4>1
      <3>3. QED
        BY <1>1, <2>1, <2>2, <3>2
    <2>3. CASE ~Is304
      BY <1>1, <2>1, <2>3 DEF Answered
    <2>4. QED
      BY <2>2, <2>3
  <1>4. ASSUME kind # "plain", Is304, ~copy.torn, copy.life = restarts, unbumped = 0
        PROVE  copy.body = BodyIn(cache, kind)
    <2>1. Written = generation
      BY <1>1, <1>4 DEF ReadsInv, ReadsTypeOK, Written
    <2>2. copy.etag = <<"generation", generation>>
      BY <1>2, <1>4 DEF ETag
    <2>3. copy.etag[2] = generation
      BY <2>2
    <2>4. QED
      BY <1>2, <1>4, <2>1, <2>3 DEF ReadsInv, CopyHolds
  <1>5. QED
    BY <1>3, <1>4

-----------------------------------------------------------------------------
(* Steps of a pull.                                                        *)

\* A pull at a stage is no idle one.
LEMMA UnderWayPull ==
    ASSUME PullInv, NEW p \in Pullers, pulls[p].at # "idle"
    PROVE  pulls[p] # Idle /\ PullHolds(p)
  <1>1. pulls[p] # Idle
    BY DEF Idle
  <1>2. QED
    BY <1>1 DEF PullInv

\* The invariant says what the type invariant does.
LEMMA TypesFollow ==
    ASSUME PullInv
    PROVE  PullTypeOK
  <1>1. \A p \in Pullers : pulls[p].at \in Stages
    BY DEF PullInv, PullHolds, PullKeeps, Idle, Stages
  <1>2. QED
    BY <1>1 DEF PullTypeOK, PullInv, EntryFits, NoEntry, ReadsInv

\* A pull that has seen the origin change.
LEMMA WitnessKeeps ==
    ASSUME NEW pull, NEW held, NEW remembered, PullKeeps(pull, held, remembered),
           NEW time \in Nat, NEW since, PullDates(pull, time, since),
           NEW c \in Contents \cup {NoData}, NEW then
    PROVE  LET after == [pull EXCEPT !.seen = @ \cup {c},
                                     !.moved = (@ \/ pull.at \in {"reply", "status"})]
           IN  PullKeeps(after, c, remembered) /\ PullDates(after, time, then)
  <1> DEFINE after == [pull EXCEPT !.seen = @ \cup {c},
                                   !.moved = (@ \/ pull.at \in {"reply", "status"})]
  <1>1. DOMAIN pull = PullFields
    BY DEF PullKeeps
  <1>2. /\ DOMAIN after = PullFields /\ after.seen = pull.seen \cup {c}
        /\ after.moved = (pull.moved \/ pull.at \in {"reply", "status"})
        /\ after.at = pull.at /\ after.scope = pull.scope /\ after.validator = pull.validator
        /\ after.body = pull.body /\ after.age = pull.age /\ after.gathered = pull.gathered
        /\ after.aged = pull.aged
    BY <1>1 DEF PullFields
  <1> HIDE DEF after
  <1>3. Fits(pull, pull.body) => Fits(after, after.body)
    BY <1>2 DEF Fits
  <1>4. PullKeeps(after, c, remembered)
    BY <1>2, <1>3 DEF PullKeeps
  <1>5. PullDates(after, time, then)
    BY <1>2 DEF PullDates
  <1>6. QED
    BY <1>4, <1>5 DEF after

\* Time goes by.
LEMMA DatesKeep ==
    ASSUME NEW pull, NEW time \in Nat, NEW since, PullDates(pull, time, since)
    PROVE  PullDates(pull, time + 1, since)
  BY DEF PullDates

\* One puller moves on within its pull, begins or ends it.
LEMMA MoveInvariant ==
    ASSUME PullInv, kind = "remote", NEW p \in Pullers, NEW pull,
           pulls' = [pulls EXCEPT ![p] = pull],
           pull # Idle => PullKeeps(pull, cache[Source], memo') /\ PullDates(pull, now, born),
           memo' \in Contents \cup {NoData}, memo # NoData => memo' # NoData,
           scopes' \subseteq Pullers, failures' \in 0 .. MaxFailures,
           UNCHANGED <<readsVars, now, born, savedBorn>>,
           DOMAIN central' = Pullers, \A q \in Pullers : EntryFits(central'[q])
    PROVE  PullInv'
  <1>1. UNCHANGED <<cache, kind>> /\ UNCHANGED <<origin, reader>>
    BY DEF readsVars, origin, reader
  <1>2. ReadsInv'
    <2>1. UNCHANGED <<cache, generation, unbumped, writes, restarts, reader, saved>>
      BY <1>1 DEF origin
    <2>2. QED
      BY <2>1, ReadsUnchanged DEF PullInv
  <1>3. DOMAIN pulls' = Pullers /\ pulls'[p] = pull /\ \A q \in Pullers \ {p} : pulls'[q] = pulls[q]
    BY DEF PullInv
  <1>4. ASSUME NEW q \in Pullers, pulls'[q] # Idle
        PROVE  PullHolds(q)'
    <2>1. CASE q = p
      BY <1>1, <1>3, <1>4, <2>1 DEF PullHolds
    <2>2. CASE q # p
      <3>1. pulls'[q] = pulls[q] /\ PullHolds(q)
        BY <1>3, <1>4, <2>2 DEF PullInv
      <3>2. PullKeeps(pulls[q], cache[Source], memo')
        BY <3>1 DEF PullHolds, PullKeeps
      <3>3. QED
        BY <1>1, <3>1, <3>2 DEF PullHolds
    <2>3. QED
      BY <2>1, <2>2
  <1>5. \A q \in Pullers : EntryFits(central[q])'
    BY DEF EntryFits
  <1>6. QED
    BY <1>2, <1>3, <1>4, <1>5 DEF PullInv

\* Requests leave, are answered or fail; what is remembered is a dataset.
LEMMA BeginInvariant ==
    ASSUME PullInv, NEW p \in Pullers, NEW scope \in {Full} \cup Hosts,
           NEW stage \in {"sync", "data"}, Begin(p, scope, stage)
    PROVE  PullInv'
  <1> DEFINE pull == [at |-> stage, scope |-> scope, validator |-> NoData, body |-> NoData,
                      age |-> Unknown, seen |-> {cache[Source]}, gathered |-> 0,
                      moved |-> FALSE, aged |-> 0]
  <1>1. kind = "remote" /\ pulls' = [pulls EXCEPT ![p] = pull]
        /\ UNCHANGED <<readsVars, now, born, savedBorn, memo, central, scopes, failures>>
    BY DEF Begin
  <1>2. cache[Source] \in Contents \cup {NoData}
    BY ReadsAssumption DEF PullInv, ReadsInv, ReadsTypeOK
  <1>3. PullKeeps(pull, cache[Source], memo) /\ PullDates(pull, now, born)
    BY <1>2 DEF PullKeeps, PullDates, PullFields, Stages, PullInv
  <1> HIDE DEF pull
  <1>4. QED
    BY <1>1, <1>3, MoveInvariant DEF PullInv

\* A pull ends without landing.
LEMMA StopsInvariant ==
    ASSUME PullInv, NEW p \in Pullers, pulls[p].at # "idle", Stops(p),
           failures' \in 0 .. MaxFailures
    PROVE  PullInv'
  <1>1. kind = "remote"
    BY UnderWayPull DEF PullHolds
  <1>2. QED
    BY <1>1, MoveInvariant DEF Stops, PullInv

\* A pull goes on, the memo as it is.
LEMMA GoesInvariant ==
    ASSUME PullInv, NEW p \in Pullers, pulls[p].at # "idle", NEW pull, Goes(p, pull),
           PullKeeps(pull, cache[Source], memo) /\ PullDates(pull, now, born),
           UNCHANGED memo, scopes' \subseteq Pullers, failures' \in 0 .. MaxFailures
    PROVE  PullInv'
  <1>1. kind = "remote"
    BY UnderWayPull DEF PullHolds
  <1>2. QED
    BY <1>1, MoveInvariant DEF Goes, PullInv

\* What is known of a pull that is under way, spelled out.
LEMMA PullFacts ==
    ASSUME PullInv, NEW p \in Pullers, pulls[p].at # "idle"
    PROVE  /\ PullKeeps(pulls[p], cache[Source], memo) /\ PullDates(pulls[p], now, born)
           /\ DOMAIN pulls[p] = PullFields
           /\ now \in 0 .. MaxTime /\ born \in 0 .. now /\ memo \in Contents \cup {NoData}
           /\ cache[Source] \in Contents \cup {NoData}
           /\ failures \in 0 .. MaxFailures /\ scopes \subseteq Pullers /\ MaxTime \in Nat
  <1>1. PullKeeps(pulls[p], cache[Source], memo) /\ PullDates(pulls[p], now, born)
    BY UnderWayPull DEF PullHolds
  <1>2. cache[Source] \in Contents \cup {NoData}
    BY ReadsAssumption DEF PullInv, ReadsInv, ReadsTypeOK
  <1>3. QED
    BY <1>1, <1>2, PullAssumption DEF PullInv, PullKeeps

\* The dataset request leaves, validated by what is remembered.
LEMMA AsksInvariant ==
    ASSUME PullInv, NEW p \in Pullers, Asks(p)
    PROVE  PullInv'
  <1> DEFINE pull == [pulls[p] EXCEPT !.at = "asked",
                                      !.validator = IF pulls[p].scope = Full THEN memo ELSE NoData]
  <1>1. pulls[p].at = "data" /\ Goes(p, pull) /\ UNCHANGED <<memo, scopes, failures>>
    BY DEF Asks
  <1>2. PullKeeps(pull, cache[Source], memo) /\ PullDates(pull, now, born)
    BY <1>1, PullFacts DEF PullKeeps, PullDates, PullFields, Stages
  <1> HIDE DEF pull
  <1>3. QED
    BY <1>1, <1>2, PullFacts, GoesInvariant

\* The dataset or one host of it: a dataset still, and no "no data".
LEMMA AskedFits ==
    ASSUME NEW p, NEW c \in Contents, pulls[p].scope \in {Full} \cup Hosts, c \in pulls[p].seen
    PROVE  /\ Asked(p, c) # NoData /\ DOMAIN Asked(p, c) \subseteq Hosts
           /\ Fits(pulls[p], Asked(p, c))
           /\ pulls[p].scope = Full => Asked(p, c) \in Contents
  <1>1. c # NoData /\ DOMAIN c = Hosts
    BY ReadsAssumption, PullAssumption
  <1>2. CASE pulls[p].scope = Full
    BY <1>1, <1>2 DEF Asked, Fits
  <1>3. CASE pulls[p].scope # Full
    <2>1. pulls[p].scope \in Hosts /\ Asked(p, c) = Restrict(c, {pulls[p].scope})
      BY <1>3 DEF Asked
    <2>2. Restrict(c, {pulls[p].scope}) # NoData
      BY <2>1, PullAssumption
    <2>3. DOMAIN Restrict(c, {pulls[p].scope}) = {pulls[p].scope}
      BY DEF Restrict
    <2>4. QED
      BY <1>1, <1>3, <2>1, <2>2, <2>3 DEF Fits
  <1>4. QED
    BY <1>2, <1>3

\* The origin answers with what it holds.
LEMMA OriginAnswersInvariant ==
    ASSUME PullInv, NEW p \in Pullers, OriginAnswers(p)
    PROVE  PullInv'
  <1> DEFINE body == IF pulls[p].validator = cache[Source] THEN NoData
                     ELSE Asked(p, cache[Source])
             pull == [pulls[p] EXCEPT !.at = "reply", !.body = body, !.gathered = born]
  <1>1. /\ pulls[p].at = "asked" /\ cache[Source] # NoData /\ Goes(p, pull)
        /\ UNCHANGED <<memo, scopes, failures>>
    BY DEF OriginAnswers
  <1>2. /\ cache[Source] \in Contents /\ pulls[p].scope \in {Full} \cup Hosts
        /\ cache[Source] \in pulls[p].seen
    BY <1>1, PullFacts DEF PullKeeps
  <1>3. /\ Asked(p, cache[Source]) # NoData /\ DOMAIN Asked(p, cache[Source]) \subseteq Hosts
        /\ Fits(pulls[p], Asked(p, cache[Source]))
        /\ pulls[p].scope = Full => Asked(p, cache[Source]) \in Contents
    BY <1>2, AskedFits
  <1>4. /\ body = NoData => pulls[p].validator # NoData
        /\ body # NoData => Fits(pulls[p], body) /\ DOMAIN body \subseteq Hosts
        /\ pulls[p].scope = Full => body \in Contents \cup {NoData}
    BY <1>1, <1>3
  <1> HIDE DEF body
  <1>5. /\ DOMAIN pull = PullFields /\ pull.at = "reply" /\ pull.body = body
        /\ pull.gathered = born /\ pull.scope = pulls[p].scope /\ pull.seen = pulls[p].seen
        /\ pull.validator = pulls[p].validator /\ pull.age = pulls[p].age
        /\ pull.moved = pulls[p].moved /\ pull.aged = pulls[p].aged
    BY <1>1, PullFacts DEF PullFields
  <1> HIDE DEF pull
  <1>6. PullKeeps(pull, cache[Source], memo)
    <2>1. PullKeeps(pulls[p], cache[Source], memo)
      BY <1>1, PullFacts
    <2>2. Fits(pulls[p], body) => Fits(pull, body)
      BY <1>5 DEF Fits
    <2>3. QED
      BY <1>4, <1>5, <2>1, <2>2 DEF PullKeeps, Stages
  <1>7. PullDates(pull, now, born)
    BY <1>1, <1>5, PullFacts DEF PullDates
  <1>8. QED
    BY <1>1, <1>6, <1>7, PullFacts, GoesInvariant

\* A 304 is only ever the answer to a validator, so there is something remembered.
LEMMA Reply304Invariant ==
    ASSUME PullInv, NEW p \in Pullers, Reply304(p)
    PROVE  PullInv'
  <1> DEFINE pull == [pulls[p] EXCEPT !.at = "status", !.body = memo]
  <1>1. /\ pulls[p].at = "reply" /\ pulls[p].body = NoData /\ Goes(p, pull)
        /\ UNCHANGED <<memo, scopes, failures>>
    BY DEF Reply304
  <1>2. memo \in Contents /\ DOMAIN memo = Hosts
    BY <1>1, PullFacts, PullAssumption DEF PullKeeps
  <1>3. PullKeeps(pull, cache[Source], memo) /\ PullDates(pull, now, born)
    BY <1>1, <1>2, PullFacts, ReadsAssumption DEF PullKeeps, PullDates, PullFields, Stages
  <1> HIDE DEF pull
  <1>4. QED
    BY <1>1, <1>3, PullFacts, GoesInvariant

\* A 200 is remembered if it is the whole dataset.
LEMMA Reply200Invariant ==
    ASSUME PullInv, NEW p \in Pullers, Reply200(p)
    PROVE  PullInv'
  <1> DEFINE pull == [pulls[p] EXCEPT !.at = "status"]
  <1>1. /\ pulls[p].at = "reply" /\ pulls[p].body # NoData /\ Goes(p, pull)
        /\ memo' = (IF pulls[p].scope = Full THEN pulls[p].body ELSE memo)
        /\ UNCHANGED <<scopes, failures>>
    BY DEF Reply200
  <1>2. memo' \in Contents \cup {NoData} /\ (memo # NoData => memo' # NoData)
    BY <1>1, PullFacts DEF PullKeeps
  <1>3. PullKeeps(pull, cache[Source], memo') /\ PullDates(pull, now, born)
    BY <1>1, <1>2, PullFacts DEF PullKeeps, PullDates, PullFields, Stages
  <1>4. kind = "remote"
    BY <1>1, UnderWayPull DEF PullHolds
  <1> HIDE DEF pull
  <1>5. QED
    BY <1>1, <1>2, <1>3, <1>4, PullFacts, MoveInvariant DEF Goes, PullInv

\* The age arrives, or does not.
LEMMA StatusInvariant ==
    ASSUME PullInv, NEW p \in Pullers, StatusAnswers(p) \/ StatusFails(p)
    PROVE  PullInv'
  <1>1. CASE StatusAnswers(p)
    <2> DEFINE age == IF cache[Source] = NoData THEN Unknown ELSE now - born
               pull == [pulls[p] EXCEPT !.at = "scope", !.age = age, !.aged = now]
    <2>1. pulls[p].at = "status" /\ Goes(p, pull) /\ UNCHANGED <<memo, scopes, failures>>
      BY <1>1 DEF StatusAnswers
    <2>2. /\ age = Unknown \/ age \in 0 .. now
          /\ age # Unknown => age = now - born
      BY <2>1, PullFacts
    <2> HIDE DEF age
    <2>3. PullKeeps(pull, cache[Source], memo)
      BY <2>1, PullFacts DEF PullKeeps, PullFields, Stages
    <2>4. PullDates(pull, now, born)
      BY <2>1, <2>2, PullFacts DEF PullDates, PullFields
    <2> HIDE DEF pull
    <2>5. QED
      BY <2>1, <2>3, <2>4, PullFacts, GoesInvariant
  <1>2. CASE StatusFails(p)
    <2> DEFINE pull == [pulls[p] EXCEPT !.at = "scope"]
    <2>1. pulls[p].at = "status" /\ Goes(p, pull) /\ UNCHANGED <<memo, scopes>>
          /\ failures < MaxFailures /\ failures' = failures + 1
      BY <1>2 DEF StatusFails
    <2>2. PullKeeps(pull, cache[Source], memo) /\ PullDates(pull, now, born)
      BY <2>1, PullFacts DEF PullKeeps, PullDates, PullFields, Stages
    <2> HIDE DEF pull
    <2>3. failures' \in 0 .. MaxFailures
      BY <2>1, PullFacts, PullAssumption
    <2>4. QED
      BY <2>1, <2>2, <2>3, PullFacts, GoesInvariant
  <1>3. QED
    BY <1>1, <1>2

\* So does the advertised scope.
LEMMA ScopeAnswersInvariant ==
    ASSUME PullInv, NEW p \in Pullers, ScopeAnswers(p)
    PROVE  PullInv'
  <1> DEFINE pull == [pulls[p] EXCEPT !.at = "land"]
  <1>1. /\ pulls[p].at = "scope" /\ Goes(p, pull) /\ UNCHANGED <<memo, failures>>
        /\ scopes' \in {scopes, scopes \cup {p}}
    BY DEF ScopeAnswers
  <1>2. PullKeeps(pull, cache[Source], memo) /\ PullDates(pull, now, born)
    BY <1>1, PullFacts DEF PullKeeps, PullDates, PullFields, Stages
  <1> HIDE DEF pull
  <1>3. QED
    BY <1>1, <1>2, PullFacts, GoesInvariant

\* The sync lands.
LEMMA LandInvariant ==
    ASSUME PullInv, NEW p \in Pullers, Land(p)
    PROVE  PullInv'
  <1> DEFINE pull == pulls[p]
             born0 == IF pull.age = Unknown THEN now ELSE now - pull.age
  <1>1. /\ pull.at = "land" /\ central' = [central EXCEPT ![p] = Landed(p)]
        /\ pulls' = [pulls EXCEPT ![p] = Idle]
        /\ UNCHANGED <<readsVars, now, born, savedBorn, memo, scopes, failures>>
    BY DEF Land
  <1>2. DOMAIN pull.body \subseteq Hosts
    BY <1>1, PullFacts DEF PullKeeps
  <1>3. born0 \in 0 .. now
    BY <1>1, PullFacts DEF PullDates
  <1>4. EntryFits(Landed(p))
    <2>1. CASE pull.scope = Full \/ central[p] = NoEntry
      <3>1. Landed(p) = [content |-> pull.body, dated |-> born0]
        BY <2>1 DEF Landed
      <3> HIDE DEF born0
      <3>2. QED
        BY <1>2, <1>3, <3>1 DEF EntryFits
    <2>2. CASE ~(pull.scope = Full \/ central[p] = NoEntry)
      <3> DEFINE old == central[p].content
      <3>1. Landed(p) = [central[p] EXCEPT !.content = Patched(@, pull.body)]
        BY <2>2 DEF Landed
      <3>2. /\ central[p] = [content |-> old, dated |-> central[p].dated]
            /\ DOMAIN old \subseteq Hosts /\ central[p].dated \in 0 .. now
        BY <2>2 DEF PullInv, EntryFits
      <3>3. Landed(p) = [content |-> Patched(old, pull.body), dated |-> central[p].dated]
        BY <3>1, <3>2
      <3>4. DOMAIN Patched(old, pull.body) \subseteq Hosts
        BY <1>2, <3>2 DEF Patched
      <3>5. QED
        BY <3>2, <3>3, <3>4 DEF EntryFits
    <2>3. QED
      BY <2>1, <2>2
  <1>5. kind = "remote"
    BY <1>1, UnderWayPull DEF PullHolds
  <1>6. DOMAIN central' = Pullers /\ \A q \in Pullers : EntryFits(central'[q])
    BY <1>1, <1>4 DEF PullInv
  <1>7. QED
    BY <1>1, <1>5, <1>6, MoveInvariant DEF PullInv

-----------------------------------------------------------------------------
(* Steps of the origin, of the clock and of the central.                   *)

\* Nothing but the reads and the failures changes.
LEMMA ReadsMove ==
    ASSUME PullInv, ReadsInv',
           UNCHANGED <<now, born, memo, central, scopes, pulls, failures, kind>>,
           savedBorn' \in 0 .. now, cache'[Source] = cache[Source] \/ kind # "remote"
    PROVE  PullInv'
  <1>1. ASSUME NEW p \in Pullers, pulls'[p] # Idle
        PROVE  PullHolds(p)'
    BY <1>1 DEF PullInv, PullHolds
  <1>2. \A p \in Pullers : EntryFits(central[p])'
    BY DEF PullInv, EntryFits
  <1>3. QED
    BY <1>1, <1>2 DEF PullInv

\* The origin's entry is another one, and the pulls have seen it.
LEMMA OriginChanges ==
    ASSUME PullInv, ReadsInv', UNCHANGED <<now, memo, central, scopes, failures, kind, savedBorn>>,
           born' \in 0 .. now, NEW c \in Contents \cup {NoData}, cache'[Source] = c,
           pulls' = Witness(InFlight, c)
    PROVE  PullInv'
  <1>1. DOMAIN pulls' = Pullers
    BY DEF Witness
  <1>2. ASSUME NEW p \in Pullers, pulls'[p] # Idle
        PROVE  PullHolds(p)'
    <2>1. pulls[p] # Idle
      BY <1>2 DEF Witness, InFlight
    <2>2. PullHolds(p)
      BY <2>1 DEF PullInv
    <2> DEFINE after == [pulls[p] EXCEPT !.seen = @ \cup {c},
                            !.moved = (@ \/ pulls[p].at \in {"reply", "status"})]
    <2>3. pulls'[p] = after
      BY <2>1 DEF Witness, InFlight
    <2>4. now \in Nat
      BY PullAssumption DEF PullInv
    <2>5. PullKeeps(after, c, memo) /\ PullDates(after, now, born')
      BY <2>2, <2>4, WitnessKeeps DEF PullHolds
    <2> HIDE DEF after
    <2>6. QED
      BY <2>2, <2>3, <2>5 DEF PullHolds
  <1>3. \A p \in Pullers : EntryFits(central[p])'
    BY DEF PullInv, EntryFits
  <1>4. QED
    BY <1>1, <1>2, <1>3 DEF PullInv

\* Another writer's write at the origin; of the entry that is pulled, it is of this moment.
LEMMA OriginWritesInvariant ==
    ASSUME PullInv, NEW s \in Sources, NEW c \in Contents \cup {NoData}, OriginWrites(s, c)
    PROVE  PullInv'
  <1>1. ReadsInv'
    BY WriteInvariant DEF OriginWrites, PullInv
  <1>2. /\ cache' = [cache EXCEPT ![s] = c] /\ DOMAIN cache = Sources
        /\ UNCHANGED <<kind, now, savedBorn, memo, central, scopes, failures>>
    BY DEF OriginWrites, Write, Put, PullInv, ReadsInv, ReadsTypeOK
  <1>3. CASE s = Source /\ kind = "remote"
    <2>1. born' = now /\ pulls' = Witness(InFlight, c) /\ cache'[Source] = c
      BY <1>2, <1>3, ReadsAssumption DEF OriginWrites
    <2>2. born' \in 0 .. now
      BY <2>1, PullAssumption DEF PullInv
    <2>3. QED
      BY <1>1, <1>2, <2>1, <2>2, OriginChanges
  <1>4. CASE ~(s = Source /\ kind = "remote")
    <2>1. UNCHANGED <<born, pulls>>
      BY <1>4 DEF OriginWrites
    <2>2. cache'[Source] = cache[Source] \/ kind # "remote"
      BY <1>2, <1>4, ReadsAssumption
    <2>3. QED
      BY <1>1, <1>2, <2>1, <2>2, ReadsMove DEF PullInv
  <1>5. QED
    BY <1>3, <1>4

\* A restart of the origin brings back what its snapshot has, and since when.
LEMMA OriginRestartsInvariant ==
    ASSUME PullInv, OriginRestarts
    PROVE  PullInv'
  <1>1. ReadsInv'
    BY RestartInvariant DEF OriginRestarts, PullInv
  <1>2. /\ cache' = saved /\ born' = savedBorn /\ pulls' = Witness(InFlight, saved[Source])
        /\ UNCHANGED <<kind, now, savedBorn, memo, central, scopes, failures>>
    BY DEF OriginRestarts, Restart, Reboot, RequestLost
  <1>3. saved[Source] \in Contents \cup {NoData} /\ savedBorn \in 0 .. now
    BY ReadsAssumption DEF PullInv, ReadsInv, ReadsTypeOK
  <1>4. QED
    BY <1>1, <1>2, <1>3, OriginChanges

\* The gather a pull asked for: what it has seen begins there.
LEMMA OriginGathersInvariant ==
    ASSUME PullInv, NEW p \in Pullers, NEW c \in Contents, OriginGathers(p, c)
    PROVE  PullInv'
  <1>1. /\ pulls[p].at = "sync" /\ Put(Source, c) /\ born' = now
        /\ pulls' = [Witness(InFlight, c) EXCEPT ![p].at = "data", ![p].seen = {c}]
        /\ UNCHANGED <<generation, unbumped, saved, restarts, reader, now, savedBorn, memo,
                       central, scopes, failures>>
        /\ UNCHANGED <<kind, pc, validator, got, seen, overlapped, copy>>
    BY DEF OriginGathers, reader
  <1>2. pulls[p] # Idle /\ PullHolds(p) /\ kind = "remote" /\ pc = "idle" /\ copy = NoCopy
    BY <1>1, UnderWayPull DEF PullHolds, PullInv, ReadsInv, RequestReads
  <1>3. ReadsInv'
    <2>1. /\ cache' \in [Sources -> Contents \cup {NoData}]
          /\ writes' = writes + 1 /\ writes' \in 0 .. MaxWrites
      BY <1>1, PutInvariant, ReadsAssumption DEF PullInv
    <2>2. ReadsTypeOK' /\ unbumped' <= writes'
      BY <1>1, <2>1 DEF PullInv, ReadsInv, ReadsTypeOK
    <2>3. got = <<>> /\ Len(got) = 0
      BY <1>2 DEF PullInv, ReadsInv, RequestReads
    <2>4. RequestReads'
      BY <1>1, <1>2, <2>3 DEF PullInv, ReadsInv, RequestReads
    <2>5. CopyHolds'
      BY <1>1, <1>2 DEF CopyHolds
    <2>6. QED
      BY <2>2, <2>4, <2>5 DEF ReadsInv
  <1>4. cache'[Source] = c
    BY <1>1, ReadsAssumption DEF Put, PullInv, ReadsInv, ReadsTypeOK
  <1>5. DOMAIN pulls' = Pullers
    BY <1>1 DEF Witness
  <1>6. now \in Nat /\ born' \in 0 .. now
    BY <1>1, PullAssumption DEF PullInv
  <1>7. ASSUME NEW q \in Pullers, pulls'[q] # Idle
        PROVE  PullHolds(q)'
    <2> DEFINE after == [pulls[q] EXCEPT !.seen = @ \cup {c},
                            !.moved = (@ \/ pulls[q].at \in {"reply", "status"})]
    <2>1. pulls[q] # Idle /\ Witness(InFlight, c)[q] = after
      BY <1>1, <1>2, <1>7 DEF Witness, InFlight
    <2>2. PullHolds(q)
      BY <2>1 DEF PullInv
    <2>3. PullKeeps(after, c, memo) /\ PullDates(after, now, born')
      BY <1>6, <2>2, WitnessKeeps DEF PullHolds
    <2>4. CASE q # p
      <3>1. pulls'[q] = after
        BY <1>1, <2>1, <2>4 DEF Witness
      <3> HIDE DEF after
      <3>2. QED
        BY <1>1, <1>2, <1>4, <2>3, <3>1 DEF PullHolds
    <2>5. CASE q = p
      <3>1. pulls'[q] = [after EXCEPT !.at = "data", !.seen = {c}]
        BY <1>1, <2>1, <2>5 DEF Witness
      <3>2. after.at = "sync"
        BY <1>1, <2>2, <2>5 DEF PullHolds, PullKeeps, PullFields
      <3> HIDE DEF after
      <3>3. PullKeeps(pulls'[q], c, memo) /\ PullDates(pulls'[q], now, born')
        BY <2>3, <3>1, <3>2 DEF PullKeeps, PullDates, PullFields, Stages
      <3>4. QED
        BY <1>1, <1>2, <1>4, <3>3 DEF PullHolds
    <2>6. QED
      BY <2>4, <2>5
  <1>8. \A q \in Pullers : EntryFits(central[q])'
    BY <1>1 DEF PullInv, EntryFits
  <1>9. QED
    BY <1>1, <1>3, <1>5, <1>6, <1>7, <1>8 DEF PullInv

\* The clock.
LEMMA TickInvariant ==
    ASSUME PullInv, Tick
    PROVE  PullInv'
  <1>1. /\ now < MaxTime /\ now' = now + 1
        /\ UNCHANGED <<readsVars, born, savedBorn, memo, central, scopes, pulls, failures>>
    BY DEF Tick, centralVars
  <1>2. UNCHANGED <<cache, generation, unbumped, writes, restarts, reader, saved, kind>>
    BY <1>1 DEF readsVars, origin, reader
  <1>3. ReadsInv'
    BY <1>2, ReadsUnchanged DEF PullInv
  <1>4. now \in Nat
    BY PullAssumption DEF PullInv
  <1>5. ASSUME NEW p \in Pullers, pulls'[p] # Idle
        PROVE  PullHolds(p)'
    <2>1. PullHolds(p)
      BY <1>1, <1>5 DEF PullInv
    <2>2. PullDates(pulls[p], now + 1, born)
      BY <1>4, <2>1, DatesKeep DEF PullHolds
    <2>3. QED
      BY <1>1, <1>2, <2>1, <2>2 DEF PullHolds
  <1>6. \A p \in Pullers : EntryFits(central[p])'
    <2> TAKE p \in Pullers
    <2>1. EntryFits(central[p])
      BY DEF PullInv
    <2>2. QED
      BY <1>1, <1>4, <2>1 DEF EntryFits
  <1>7. /\ now' \in 0 .. MaxTime /\ born' \in 0 .. now' /\ savedBorn' \in 0 .. now'
    BY <1>1, PullAssumption DEF PullInv
  <1>8. QED
    BY <1>1, <1>3, <1>5, <1>6, <1>7 DEF PullInv

\* A restart of the central: no pulls, no memo, and some of the entries.
LEMMA CentralRestartsInvariant ==
    ASSUME PullInv, CentralRestarts
    PROVE  PullInv'
  <1>1. /\ failures < MaxFailures /\ failures' = failures + 1 /\ memo' = NoData /\ scopes' = {}
        /\ pulls' = [p \in Pullers |-> Idle]
        /\ UNCHANGED <<readsVars, now, born, savedBorn>>
    BY DEF CentralRestarts
  <1>2. UNCHANGED <<cache, generation, unbumped, writes, restarts, reader, saved, kind>>
    BY <1>1 DEF readsVars, origin, reader
  <1>3. ReadsInv'
    BY <1>2, ReadsUnchanged DEF PullInv
  <1>4. PICK kept \in SUBSET Pullers :
           central' = [p \in Pullers |-> IF p \in kept THEN central[p] ELSE NoEntry]
    BY DEF CentralRestarts
  <1>5. DOMAIN central' = Pullers /\ \A p \in Pullers : EntryFits(central[p])'
    BY <1>1, <1>4 DEF PullInv, EntryFits
  <1>6. failures' \in 0 .. MaxFailures
    BY <1>1, PullAssumption DEF PullInv
  <1>7. QED
    BY <1>1, <1>3, <1>5, <1>6 DEF PullInv

\* Every step keeps the invariant.
LEMMA PullStepInvariant ==
    ASSUME PullInv, [PullNext]_pullVars
    PROVE  PullInv'
  <1>1. CASE \E s \in Sources, c \in Contents \cup {NoData} : OriginWrites(s, c)
    BY <1>1, OriginWritesInvariant
  <1>2. CASE (Bump \/ ReaderNext) /\ UNCHANGED <<now, born, savedBorn, centralVars>>
    <2>1. ReadsInv'
      BY <1>2, BumpInvariant, ReaderStepInvariant DEF PullInv
    <2>2. kind' = kind /\ (cache'[Source] = cache[Source] \/ kind # "remote")
      <3>1. CASE Bump
        BY <3>1 DEF Bump, reader
      <3>2. CASE ReaderNext
        <4>1. kind # "remote"
          BY <3>2 DEF ReaderNext, Ask, Readers, RefreshPuts, RefreshBumps, RefreshSkipped,
             GetEntry, Answer, PullInv, ReadsInv, RequestReads
        <4>2. kind' = kind
          BY <3>2 DEF ReaderNext, Ask, RefreshPuts, RefreshBumps, RefreshSkipped, GetEntry,
             RequestLost, Answer
        <4>3. QED
          BY <4>1, <4>2
      <3>3. QED
        BY <1>2, <3>1, <3>2
    <2>3. QED
      BY <1>2, <2>1, <2>2, ReadsMove DEF centralVars, PullInv
  <1>3. CASE OriginSaves
    <2>1. /\ UNCHANGED <<cache, generation, unbumped, writes, restarts, reader, kind>>
          /\ saved' = cache /\ savedBorn' = born
          /\ UNCHANGED <<now, born, memo, central, scopes, pulls, failures>>
      BY <1>3 DEF OriginSaves, Save, reader, centralVars
    <2>2. ReadsInv'
      BY <2>1, ReadsUnchanged DEF PullInv
    <2>3. QED
      BY <2>1, <2>2, ReadsMove DEF PullInv
  <1>4. CASE OriginRestarts \/ Tick \/ CentralRestarts
    BY <1>4, OriginRestartsInvariant, TickInvariant, CentralRestartsInvariant
  <1>5. ASSUME NEW p \in Pullers,
               \/ \E scope \in {Full} \cup Hosts, stage \in {"sync", "data"} :
                     Begin(p, scope, stage)
               \/ \E c \in Contents : OriginGathers(p, c)
               \/ Fails(p) \/ StatusFails(p) \/ Moves(p)
        PROVE  PullInv'
    <2>1. CASE Fails(p)
      <3>1. pulls[p].at # "idle" /\ failures' \in 0 .. MaxFailures
        BY <2>1, PullAssumption DEF Fails, PullInv
      <3>2. QED
        BY <2>1, <3>1, StopsInvariant DEF Fails
    <2>2. CASE OriginRefuses(p) \/ Origin404(p)
      <3>1. pulls[p].at # "idle" /\ Stops(p) /\ failures' \in 0 .. MaxFailures
        BY <2>2 DEF OriginRefuses, Origin404, PullInv
      <3>2. QED
        BY <3>1, StopsInvariant
    <2>3. QED
      BY <1>5, <2>1, <2>2, BeginInvariant, OriginGathersInvariant, StatusInvariant, AsksInvariant,
         OriginAnswersInvariant, Reply304Invariant, Reply200Invariant, ScopeAnswersInvariant,
         LandInvariant DEF Moves
  <1>6. CASE UNCHANGED pullVars
    <2>1. /\ UNCHANGED <<cache, generation, unbumped, writes, restarts, reader, kind, saved>>
          /\ UNCHANGED <<now, born, savedBorn, memo, central, scopes, pulls, failures>>
      BY <1>6 DEF pullVars, centralVars, readsVars, origin, reader
    <2>2. ReadsInv'
      BY <2>1, ReadsUnchanged DEF PullInv
    <2>3. QED
      BY <2>1, <2>2, ReadsMove DEF PullInv
  <1>7. QED
    BY <1>1, <1>2, <1>3, <1>4, <1>5, <1>6 DEF PullNext

\* The invariant holds when both start.
LEMMA PullInitInvariant ==
    ASSUME PullInit
    PROVE  PullInv
  <1>1. ReadsInv
    <2>1. Entries(cache) \in SUBSET Sources
      BY DEF Entries
    <2>2. Cardinality(Entries(cache)) \in Nat
      BY <2>1, ReadsAssumption, FS_Subset, FS_CardinalityType
    <2>3. got = <<>> /\ Len(got) = 0 /\ got \in Seq(Contents \cup {NoData})
      BY DEF PullInit, ReaderInit
    <2>4. ReadsTypeOK /\ unbumped <= writes
      BY <2>2, <2>3, ReadsAssumption, ReadsAreSources
      DEF PullInit, OriginInit, ReaderInit, ReadsTypeOK
    <2>5. RequestReads /\ CopyHolds
      BY <2>3, PullAssumption DEF PullInit, ReaderInit, RequestReads, CopyHolds
    <2>6. QED
      BY <2>4, <2>5 DEF ReadsInv
  <1>2. QED
    BY <1>1, PullAssumption, ReadsAssumption DEF PullInit, PullInv, EntryFits

-----------------------------------------------------------------------------
(* Theorems about the pulls and reads.                                     *)

\* The inductive invariant of the reads of sources and views (views.rs,
\* sources.rs) and of the pulls of RemoteConnector::execute, with any number
\* of pullers.
THEOREM PullInvariant == PullSpec => []PullInv
  <1>1. PullInit => PullInv
    BY PullInitInvariant
  <1>2. PullInv /\ [PullNext]_pullVars => PullInv'
    BY PullStepInvariant
  <1>3. QED
    BY <1>1, <1>2, PTL DEF PullSpec

\* What a pull has seen and lands.
LEMMA LandsWhatItKept ==
    ASSUME PullInv, NEW p \in Pullers, Land(p)
    PROVE  /\ pulls[p].at = "land" /\ pulls[p].body # NoData
           /\ central'[p] = Landed(p)
           /\ PullKeeps(pulls[p], cache[Source], memo) /\ PullDates(pulls[p], now, born)
  <1>1. pulls[p].at = "land" /\ central' = [central EXCEPT ![p] = Landed(p)]
    BY DEF Land
  <1>2. PullKeeps(pulls[p], cache[Source], memo) /\ PullDates(pulls[p], now, born)
    BY <1>1, PullFacts
  <1>3. DOMAIN central = Pullers
    BY DEF PullInv
  <1>4. QED
    BY <1>1, <1>2, <1>3 DEF PullKeeps

\* The age of what lands.
LEMMA LandedAgesAreHonest ==
    ASSUME PullInv, NEW p \in Pullers, Land(p),
           pulls[p].scope = Full, pulls[p].age # Unknown, ~pulls[p].moved
    PROVE  /\ pulls[p].gathered <= central'[p].dated
           /\ central'[p].dated <= pulls[p].gathered + (now - pulls[p].aged)
  <1>1. /\ pulls[p].at = "land" /\ central'[p] = Landed(p)
        /\ PullDates(pulls[p], now, born) /\ now \in Nat
    BY LandsWhatItKept, PullAssumption DEF PullInv
  <1>2. central'[p].dated = now - pulls[p].age
    BY <1>1 DEF Landed
  <1>3. /\ pulls[p].age = pulls[p].aged - pulls[p].gathered
        /\ pulls[p].aged \in 0 .. now /\ pulls[p].gathered \in 0 .. now
    BY <1>1 DEF PullDates
  <1>4. QED
    BY <1>1, <1>2, <1>3

\* What lands, when the pull's answer was of what the origin held.
LEMMA LandedIsTheOrigins ==
    ASSUME PullInv, NEW p \in Pullers, Land(p), Fits(pulls[p], pulls[p].body)
    PROVE  LET held == pulls[p].seen \ {NoData}
           IN IF pulls[p].scope = Full
              THEN central'[p].content \in held
              ELSE \E c \in held : central'[p].content[pulls[p].scope] = c[pulls[p].scope]
  <1> DEFINE pull == pulls[p]
             held == pull.seen \ {NoData}
  <1>1. central'[p] = Landed(p) /\ PullKeeps(pull, cache[Source], memo)
    BY LandsWhatItKept
  <1>2. CASE pull.scope = Full
    <2>1. central'[p].content = pull.body
      BY <1>1, <1>2 DEF Landed
    <2>2. QED
      BY <1>2, <2>1 DEF Fits
  <1>3. CASE pull.scope # Full
    <2>1. PICK c \in held : pull.body = Restrict(c, {pull.scope})
      BY <1>3 DEF Fits
    <2>2. pull.scope \in Hosts /\ c \in Contents /\ DOMAIN c = Hosts
      BY <1>1, <1>3, PullAssumption DEF PullKeeps
    <2>3. /\ DOMAIN pull.body = {pull.scope} /\ pull.scope \in DOMAIN pull.body
          /\ pull.body[pull.scope] = c[pull.scope]
      BY <2>1, <2>2 DEF Restrict
    <2>4. central'[p].content[pull.scope] = pull.body[pull.scope]
      <3>1. CASE central[p] = NoEntry
        BY <1>1, <3>1 DEF Landed
      <3>2. CASE central[p] # NoEntry
        <4>1. central'[p] = [central[p] EXCEPT !.content = Patched(@, pull.body)]
          BY <1>1, <1>3, <3>2, Zenon DEF Landed
        <4>2. central[p] = [content |-> central[p].content, dated |-> central[p].dated]
          BY <3>2 DEF PullInv, EntryFits
        <4>3. central'[p].content = Patched(central[p].content, pull.body)
          BY <4>1, <4>2
        <4>4. QED
          BY <2>3, <4>3 DEF Patched
      <3>3. QED
        BY <3>1, <3>2
    <2>5. QED
      BY <1>3, <2>1, <2>3, <2>4
  <1>4. QED
    BY <1>2, <1>3

\* A client that revalidates is not told that what it holds is current when it
\* is not: a plain read (serve_dataset's hash of the bytes) never; a filtered
\* one, a view or a scrape (the generation read after the entries) but for the
\* torn and restarted cases that ReadsAreCurrent names.
THEOREM ReadsStayCurrent == PullSpec => ReadsAreCurrent
  <1>1. PullInv /\ [PullNext]_pullVars =>
           /\ [kind = "plain" /\ pc = "answering" /\ pc' = "idle" /\ restarts' = restarts
                 => copy'.body \in seen]_readsVars
           /\ [(/\ kind # "plain" /\ pc = "answering" /\ pc' = "idle" /\ restarts' = restarts
                /\ Is304 /\ ~copy.torn /\ copy.life = restarts /\ unbumped = 0)
                 => copy.body = BodyIn(cache, kind)]_readsVars
    <2> SUFFICES ASSUME PullInv, [PullNext]_pullVars, pc = "answering", pc' = "idle",
                        restarts' = restarts
                 PROVE  /\ kind = "plain" => copy'.body \in seen
                        /\ (kind # "plain" /\ Is304 /\ ~copy.torn /\ copy.life = restarts
                            /\ unbumped = 0) => copy.body = BodyIn(cache, kind)
      OBVIOUS
    <2>1. ReadsInv /\ restarts \in Nat
      BY ReadsAssumption DEF PullInv, ReadsInv, ReadsTypeOK
    <2>2. ~Restart /\ ~OriginRestarts
      BY <2>1 DEF OriginRestarts, Restart, Reboot
    <2>3. UNCHANGED pc \/ ReaderNext
      BY <2>2, Zenon DEF PullNext, pullVars, readsVars, reader, OriginWrites, Write, Bump,
         OriginSaves, Save, Tick, CentralRestarts, Begin, OriginGathers, Fails, StatusFails,
         Moves, Asks, OriginRefuses, OriginAnswers, Origin404, Reply304, Reply200,
         StatusAnswers, ScopeAnswers, Land, Goes, Stops
    <2>4. Answer
      <3>1. ReaderNext
        BY <2>3
      <3>2. QED
        BY <3>1 DEF ReaderNext, Ask, RefreshPuts, RefreshBumps, RefreshSkipped, GetEntry
    <2>5. QED
      BY <2>1, <2>4, AnswersAreCurrent
  <1>2. QED
    BY <1>1, PullInvariant, PTL DEF PullSpec, ReadsAreCurrent, PlainIsCurrent,
       UntornValidatorsHold

\* The state of the pulls and of the central's entries is of its type: no entry
\* is dated later than now, none has hosts the origin has not.
THEOREM PullTypesAreRight == PullSpec => []PullTypeOK
  BY PullInvariant, TypesFollow, PTL

\* fetch_age and born_at: with any number of pullers, what lands is dated no
\* earlier than it was gathered and later by no more than the answer to /status
\* was old, unless the origin changed between the data and the status.
THEOREM PulledAgesAreHonest == PullSpec => AgesAreHonest
  <1>1. PullInv /\ [PullNext]_pullVars =>
           [\A p \in Pullers :
              Land(p) /\ pulls[p].scope = Full /\ pulls[p].age # Unknown /\ ~pulls[p].moved
              => /\ pulls[p].gathered <= central'[p].dated
                 /\ central'[p].dated <= pulls[p].gathered + (now - pulls[p].aged)]_pullVars
    BY LandedAgesAreHonest
  <1>2. QED
    BY <1>1, PullInvariant, PTL DEF PullSpec, AgesAreHonest

\* One puller, and it goes on.
LEMMA MoveKeepsMemo ==
    ASSUME \A q, r \in Pullers : q = r, NEW p \in Pullers, DOMAIN pulls = Pullers, NEW pull,
           pulls' = [pulls EXCEPT ![p] = pull], pull # Idle => OwnMemo(pull, memo')
    PROVE  MemosAreOwn'
  BY DEF MemosAreOwn

\* What it has seen since is no less.
LEMMA WitnessKeepsMemo ==
    ASSUME NEW pull, NEW remembered, DOMAIN pull = PullFields, OwnMemo(pull, remembered),
           NEW c
    PROVE  LET after == [pull EXCEPT !.seen = @ \cup {c},
                                     !.moved = (@ \/ pull.at \in {"reply", "status"})]
           IN  OwnMemo(after, remembered)
  <1> DEFINE after == [pull EXCEPT !.seen = @ \cup {c},
                                   !.moved = (@ \/ pull.at \in {"reply", "status"})]
  <1>1. /\ after.seen = pull.seen \cup {c} /\ after.at = pull.at /\ after.scope = pull.scope
        /\ after.validator = pull.validator /\ after.body = pull.body
    BY DEF PullFields
  <1> HIDE DEF after
  <1>2. Fits(pull, pull.body) => Fits(after, after.body)
    BY <1>1 DEF Fits
  <1>3. OwnMemo(after, remembered)
    BY <1>1, <1>2 DEF OwnMemo
  <1>4. QED
    BY <1>3 DEF after

\* The pulls see the origin change.
LEMMA ChangeKeepsMemo ==
    ASSUME PullInv, MemosAreOwn, NEW c, pulls' = Witness(InFlight, c), UNCHANGED memo
    PROVE  MemosAreOwn'
  <1>1. ASSUME NEW p \in Pullers, pulls'[p] # Idle
        PROVE  OwnMemo(pulls'[p], memo)
    <2>1. pulls[p] # Idle
      BY <1>1 DEF Witness, InFlight
    <2>2. OwnMemo(pulls[p], memo) /\ DOMAIN pulls[p] = PullFields
      BY <2>1 DEF MemosAreOwn, PullInv, PullHolds, PullKeeps
    <2> DEFINE after == [pulls[p] EXCEPT !.seen = @ \cup {c},
                            !.moved = (@ \/ pulls[p].at \in {"reply", "status"})]
    <2>3. pulls'[p] = after
      BY <2>1 DEF Witness, InFlight
    <2>4. OwnMemo(after, memo)
      BY <2>2, WitnessKeepsMemo
    <2> HIDE DEF after
    <2>5. QED
      BY <2>3, <2>4
  <1>2. QED
    BY <1>1 DEF MemosAreOwn

\* The answer is 304 to what the origin holds.
LEMMA OriginAnswersKeepsMemo ==
    ASSUME PullInv, MemosAreOwn, \A q, r \in Pullers : q = r,
           NEW p \in Pullers, OriginAnswers(p)
    PROVE  MemosAreOwn'
  <1> DEFINE body == IF pulls[p].validator = cache[Source] THEN NoData
                     ELSE Asked(p, cache[Source])
             pull == [pulls[p] EXCEPT !.at = "reply", !.body = body, !.gathered = born]
  <1>1. /\ pulls[p].at = "asked" /\ cache[Source] # NoData /\ Goes(p, pull)
        /\ UNCHANGED <<memo, scopes, failures>>
    BY DEF OriginAnswers
  <1>2. OwnMemo(pulls[p], memo) /\ DOMAIN pulls[p] = PullFields /\ DOMAIN pulls = Pullers
    BY <1>1, UnderWayPull DEF MemosAreOwn, PullHolds, PullKeeps, PullInv
  <1>3. /\ cache[Source] \in Contents /\ pulls[p].scope \in {Full} \cup Hosts
        /\ cache[Source] \in pulls[p].seen
    BY <1>1, PullFacts DEF PullKeeps
  <1>4. body = NoData => pulls[p].validator \in pulls[p].seen
    BY <1>3, AskedFits
  <1> HIDE DEF body
  <1>5. /\ pull.at = "reply" /\ pull.body = body /\ pull.seen = pulls[p].seen
        /\ pull.scope = pulls[p].scope /\ pull.validator = pulls[p].validator
    BY <1>2 DEF PullFields
  <1> HIDE DEF pull
  <1>6. OwnMemo(pull, memo')
    BY <1>1, <1>2, <1>4, <1>5 DEF OwnMemo
  <1>7. QED
    BY <1>1, <1>2, <1>6, MoveKeepsMemo DEF Goes

\* A 304 takes what the pull was validated by, a 200 what the origin answered.
LEMMA RepliesKeepMemo ==
    ASSUME PullInv, MemosAreOwn, \A q, r \in Pullers : q = r,
           NEW p \in Pullers, Reply304(p) \/ Reply200(p)
    PROVE  MemosAreOwn'
  <1>1. pulls[p].at = "reply"
    BY DEF Reply304, Reply200
  <1>2. /\ OwnMemo(pulls[p], memo) /\ DOMAIN pulls[p] = PullFields /\ DOMAIN pulls = Pullers
        /\ PullKeeps(pulls[p], cache[Source], memo)
    BY <1>1, UnderWayPull DEF MemosAreOwn, PullHolds, PullKeeps, PullInv
  <1>3. CASE Reply304(p)
    <2> DEFINE pull == [pulls[p] EXCEPT !.at = "status", !.body = memo]
    <2>1. pulls[p].body = NoData /\ Goes(p, pull)
      BY <1>3 DEF Reply304
    <2>2. /\ pulls[p].validator # NoData /\ pulls[p].scope = Full
          /\ memo \in pulls[p].seen \ {NoData}
      BY <1>1, <1>2, <2>1 DEF OwnMemo, PullKeeps
    <2>3. /\ pull.at = "status" /\ pull.body = memo /\ pull.seen = pulls[p].seen
          /\ pull.scope = Full
      BY <1>2, <2>2 DEF PullFields
    <2> HIDE DEF pull
    <2>4. OwnMemo(pull, memo')
      BY <2>2, <2>3 DEF OwnMemo, Fits
    <2>5. QED
      BY <1>2, <2>1, <2>4, MoveKeepsMemo DEF Goes
  <1>4. CASE Reply200(p)
    <2> DEFINE pull == [pulls[p] EXCEPT !.at = "status"]
    <2>1. pulls[p].body # NoData /\ Goes(p, pull)
      BY <1>4 DEF Reply200
    <2>2. Fits(pulls[p], pulls[p].body)
      BY <1>1, <1>2, <2>1 DEF PullKeeps
    <2>3. /\ pull.at = "status" /\ pull.body = pulls[p].body /\ pull.seen = pulls[p].seen
          /\ pull.scope = pulls[p].scope
      BY <1>2 DEF PullFields
    <2> HIDE DEF pull
    <2>4. OwnMemo(pull, memo')
      BY <2>2, <2>3 DEF OwnMemo, Fits
    <2>5. QED
      BY <1>2, <2>1, <2>4, MoveKeepsMemo DEF Goes
  <1>5. QED
    BY <1>3, <1>4

\* The other steps of a pull keep what it has got.
LEMMA MovesKeepMemo ==
    ASSUME PullInv, MemosAreOwn, \A q, r \in Pullers : q = r, NEW p \in Pullers,
           Asks(p) \/ StatusAnswers(p) \/ StatusFails(p) \/ ScopeAnswers(p)
    PROVE  MemosAreOwn'
  <1>1. pulls[p].at \in {"data", "status", "scope"} /\ UNCHANGED memo
    BY DEF Asks, StatusAnswers, StatusFails, ScopeAnswers
  <1>2. /\ OwnMemo(pulls[p], memo) /\ DOMAIN pulls[p] = PullFields /\ DOMAIN pulls = Pullers
        /\ pulls[p].scope \in {Full} \cup Hosts
    BY <1>1, UnderWayPull DEF MemosAreOwn, PullHolds, PullKeeps, PullInv
  <1>3. PICK pull :
           /\ Goes(p, pull)
           /\ \/ pull.at = "asked" /\ (pull.scope = Full => pull.validator = memo)
              \/ /\ pulls[p].at \in {"status", "scope"} /\ pull.at \in {"scope", "land"}
                 /\ pull.scope = pulls[p].scope /\ pull.seen = pulls[p].seen
                 /\ pull.body = pulls[p].body
    <2>1. CASE Asks(p)
      <3> DEFINE pull == [pulls[p] EXCEPT !.at = "asked",
                             !.validator = IF pulls[p].scope = Full THEN memo ELSE NoData]
      <3>1. Goes(p, pull)
        BY <2>1 DEF Asks
      <3>2. pull.at = "asked" /\ (pull.scope = Full => pull.validator = memo)
        BY <1>2 DEF PullFields
      <3> HIDE DEF pull
      <3>3. QED
        BY <3>1, <3>2
    <2>2. CASE StatusAnswers(p)
      <3> DEFINE pull == [pulls[p] EXCEPT !.at = "scope",
                             !.age = IF cache[Source] = NoData THEN Unknown ELSE now - born,
                             !.aged = now]
      <3>1. Goes(p, pull) /\ pulls[p].at = "status"
        BY <2>2 DEF StatusAnswers
      <3>2. /\ pull.at = "scope" /\ pull.scope = pulls[p].scope /\ pull.seen = pulls[p].seen
            /\ pull.body = pulls[p].body
        BY <1>2 DEF PullFields
      <3> HIDE DEF pull
      <3>3. QED
        BY <3>1, <3>2
    <2>3. CASE StatusFails(p)
      <3> DEFINE pull == [pulls[p] EXCEPT !.at = "scope"]
      <3>1. Goes(p, pull) /\ pulls[p].at = "status"
        BY <2>3 DEF StatusFails
      <3>2. /\ pull.at = "scope" /\ pull.scope = pulls[p].scope /\ pull.seen = pulls[p].seen
            /\ pull.body = pulls[p].body
        BY <1>2 DEF PullFields
      <3> HIDE DEF pull
      <3>3. QED
        BY <3>1, <3>2
    <2>4. CASE ScopeAnswers(p)
      <3> DEFINE pull == [pulls[p] EXCEPT !.at = "land"]
      <3>1. Goes(p, pull) /\ pulls[p].at = "scope"
        BY <2>4 DEF ScopeAnswers
      <3>2. /\ pull.at = "land" /\ pull.scope = pulls[p].scope /\ pull.seen = pulls[p].seen
            /\ pull.body = pulls[p].body
        BY <1>2 DEF PullFields
      <3> HIDE DEF pull
      <3>3. QED
        BY <3>1, <3>2
    <2>5. QED
      BY <2>1, <2>2, <2>3, <2>4
  <1>4. OwnMemo(pull, memo')
    BY <1>1, <1>2, <1>3 DEF OwnMemo, Fits
  <1>5. QED
    BY <1>2, <1>3, <1>4, MoveKeepsMemo DEF Goes

\* With one puller, every step keeps the memo its own.
LEMMA MemoStepInvariant ==
    ASSUME PullInv, MemosAreOwn, \A p, q \in Pullers : p = q, [PullNext]_pullVars
    PROVE  MemosAreOwn'
  <1>1. DOMAIN pulls = Pullers
    BY DEF PullInv
  <1>2. CASE UNCHANGED <<pulls, memo>>
    BY <1>2 DEF MemosAreOwn
  <1>3. CASE OriginRestarts
    BY <1>3, ChangeKeepsMemo DEF OriginRestarts
  <1>4. ASSUME NEW s \in Sources, NEW c \in Contents \cup {NoData}, OriginWrites(s, c)
        PROVE  MemosAreOwn'
    <2>1. (UNCHANGED pulls \/ pulls' = Witness(InFlight, c)) /\ UNCHANGED memo
      BY <1>4 DEF OriginWrites
    <2>2. QED
      BY <1>2, <2>1, ChangeKeepsMemo
  <1>5. CASE CentralRestarts
    BY <1>5 DEF CentralRestarts, MemosAreOwn
  <1>6. ASSUME NEW p \in Pullers, NEW scope \in {Full} \cup Hosts,
               NEW stage \in {"sync", "data"}, Begin(p, scope, stage)
        PROVE  MemosAreOwn'
    <2> DEFINE pull == [at |-> stage, scope |-> scope, validator |-> NoData, body |-> NoData,
                        age |-> Unknown, seen |-> {cache[Source]}, gathered |-> 0,
                        moved |-> FALSE, aged |-> 0]
    <2>1. pulls' = [pulls EXCEPT ![p] = pull]
      BY <1>6 DEF Begin
    <2>2. OwnMemo(pull, memo')
      BY DEF OwnMemo
    <2> HIDE DEF pull
    <2>3. QED
      BY <1>1, <2>1, <2>2, MoveKeepsMemo
  <1>7. ASSUME NEW p \in Pullers, NEW c \in Contents, OriginGathers(p, c)
        PROVE  MemosAreOwn'
    <2>1. pulls' = [Witness(InFlight, c) EXCEPT ![p].at = "data", ![p].seen = {c}]
          /\ pulls[p].at = "sync" /\ UNCHANGED memo
      BY <1>7 DEF OriginGathers
    <2>2. DOMAIN pulls[p] = PullFields
      BY <2>1, PullFacts
    <2>3. DOMAIN Witness(InFlight, c)[p] = PullFields /\ DOMAIN Witness(InFlight, c) = Pullers
      BY <2>2 DEF Witness
    <2>4. pulls'[p].at = "data"
      BY <2>1, <2>3 DEF PullFields
    <2>5. QED
      BY <2>4 DEF MemosAreOwn, OwnMemo
  <1>8. ASSUME NEW p \in Pullers,
               Fails(p) \/ OriginRefuses(p) \/ Origin404(p) \/ Land(p)
        PROVE  MemosAreOwn'
    BY <1>1, <1>8, MoveKeepsMemo DEF Fails, OriginRefuses, Origin404, Land, Stops
  <1>9. ASSUME NEW p \in Pullers,
               \/ Asks(p) \/ StatusAnswers(p) \/ StatusFails(p) \/ ScopeAnswers(p)
               \/ OriginAnswers(p) \/ Reply304(p) \/ Reply200(p)
        PROVE  MemosAreOwn'
    BY <1>9, MovesKeepMemo, OriginAnswersKeepsMemo, RepliesKeepMemo
  <1>10. UNCHANGED centralVars \/ OriginSaves \/ Tick \/ UNCHANGED pullVars
           => UNCHANGED <<pulls, memo>>
    BY DEF centralVars, OriginSaves, Tick, pullVars
  <1>11. QED
    BY <1>2, <1>3, <1>4, <1>5, <1>6, <1>7, <1>8, <1>9, <1>10 DEF PullNext, Moves, centralVars

\* A 304 at a central with one source per origin URL stands for what the origin
\* held during that pull: the ETag sent with the request is that of what the
\* memo has when the answer comes (RemoteConnector.memo).  Two sources with one
\* URL share the memo, and one's full answer may replace what the other's 304
\* then takes; without the hypothesis PulledIsTheOrigins is not a theorem.
THEOREM OnePullerIsServedHonestly ==
    ASSUME \A p, q \in Pullers : p = q
    PROVE  PullSpec => PullsAreHonest
  <1>1. PullInit => MemosAreOwn
    BY DEF PullInit, MemosAreOwn
  <1>2. PullInv /\ MemosAreOwn /\ [PullNext]_pullVars => MemosAreOwn'
    BY MemoStepInvariant
  <1>3. PullSpec => []MemosAreOwn
    BY <1>1, <1>2, PullInvariant, PTL DEF PullSpec
  <1>4. PullInv /\ MemosAreOwn /\ [PullNext]_pullVars =>
           [\A p \in Pullers : Land(p) =>
              LET held == pulls[p].seen \ {NoData}
              IN IF pulls[p].scope = Full
                 THEN central'[p].content \in held
                 ELSE \E c \in held :
                         central'[p].content[pulls[p].scope] = c[pulls[p].scope]]_pullVars
    <2>1. ASSUME PullInv, MemosAreOwn, NEW p \in Pullers, Land(p)
          PROVE  Fits(pulls[p], pulls[p].body)
      <3>1. pulls[p].at = "land"
        BY <2>1 DEF Land
      <3>2. pulls[p] # Idle
        BY <3>1 DEF Idle
      <3>3. QED
        BY <2>1, <3>1, <3>2 DEF MemosAreOwn, OwnMemo
    <2>2. QED
      BY <2>1, LandedIsTheOrigins
  <1>5. PullSpec => PulledIsTheOrigins
    BY <1>3, <1>4, PullInvariant, PTL DEF PullSpec, PulledIsTheOrigins
  <1>6. QED
    BY <1>5, PullTypesAreRight, PulledAgesAreHonest, PTL DEF PullsAreHonest

-----------------------------------------------------------------------------
(* The delivery of credentials.                                            *)

\* What a field of a credential that is listed is known as.
Held(id, f, secrets) == [id |-> id, place |-> 0, field |-> f, value |-> secrets[id][f]]

\* The fields of what is listed, each once.
LEMMA FieldsAreHeld ==
    ASSUME NEW ids, NEW secrets
    PROVE  /\ \A x \in Fields(ids, secrets) :
                 \E id \in ToSet(ids) : \E f \in DOMAIN secrets[id] : x = Held(id, f, secrets)
           /\ \A id \in ToSet(ids) : \A f \in DOMAIN secrets[id] :
                 Held(id, f, secrets) \in Fields(ids, secrets)
  <1>1. Listed(ids) = {<<id, 0>> : id \in ToSet(ids)}
    BY DEF Listed, ToSet
  <1>2. Fields(ids, secrets) =
           UNION {{Held(c[1], f, secrets) : f \in DOMAIN secrets[c[1]]} : c \in Listed(ids)}
    <2>1. \A c \in Listed(ids) : c[2] = 0
      BY <1>1
    <2>2. \A c \in Listed(ids) :
             {[id |-> c[1], place |-> c[2], field |-> f, value |-> secrets[c[1]][f]] :
                 f \in DOMAIN secrets[c[1]]}
             = {Held(c[1], f, secrets) : f \in DOMAIN secrets[c[1]]}
      BY <2>1 DEF Held
    <2>3. QED
      BY <2>2 DEF Fields
  <1>3. ASSUME NEW x \in Fields(ids, secrets)
        PROVE  \E id \in ToSet(ids) : \E f \in DOMAIN secrets[id] : x = Held(id, f, secrets)
    <2>1. PICK c \in Listed(ids) : \E f \in DOMAIN secrets[c[1]] : x = Held(c[1], f, secrets)
      BY <1>2
    <2>2. c[1] \in ToSet(ids)
      BY <1>1
    <2>3. QED
      BY <2>1, <2>2
  <1>4. ASSUME NEW id \in ToSet(ids), NEW f \in DOMAIN secrets[id]
        PROVE  Held(id, f, secrets) \in Fields(ids, secrets)
    <2>1. <<id, 0>> \in Listed(ids) /\ <<id, 0>>[1] = id
      BY <1>1
    <2>2. QED
      BY <1>2, <2>1
  <1>5. QED
    BY <1>3, <1>4

\* A function of 1..n is a sequence of length n.
LEMMA IsASeq ==
    ASSUME NEW T, NEW n \in Nat, NEW f \in [1 .. n -> T]
    PROVE  f \in Seq(T) /\ Len(f) = n
  OBVIOUS

\* Two sequences, one after the other.
LEMMA Joined ==
    ASSUME NEW S, NEW a \in Seq(S), NEW b \in Seq(S)
    PROVE  /\ DOMAIN (a \o b) = 1 .. Len(a) + Len(b)
           /\ \A i \in 1 .. Len(a) : (a \o b)[i] = a[i]
           /\ \A i \in 1 .. Len(b) : (a \o b)[Len(a) + i] = b[i]
  <1>1. \A i \in 1 .. Len(b) :
           Len(a) + i \in 1 .. Len(a) + Len(b) /\ Len(a) + i > Len(a)
    OBVIOUS
  <1>2. QED
    BY <1>1

\* Only the set of what is listed counts.
LEMMA OrderDoesNotMatter ==
    ASSUME NEW S, NEW ids \in Seq(S), NEW secrets
    PROVE  Delivered(Reverse(ids) \o ids, secrets) = Delivered(ids, secrets)
  <1> DEFINE n == Len(ids)
             back == Reverse(ids)
             twice == back \o ids
  <1>1. n \in Nat /\ DOMAIN ids = 1 .. n
    OBVIOUS
  <1>2. back \in Seq(S) /\ Len(back) = n /\ \A i \in 1 .. n : back[i] = ids[n - i + 1]
    <2>1. back = [i \in 1 .. n |-> ids[n - i + 1]]
      BY DEF Reverse
    <2>2. \A i \in 1 .. n : n - i + 1 \in 1 .. n /\ ids[n - i + 1] \in S
      BY <1>1
    <2> HIDE DEF back
    <2>3. back \in [1 .. n -> S]
      BY <2>1, <2>2
    <2>4. back \in Seq(S) /\ Len(back) = n
      BY <1>1, <2>3, IsASeq
    <2>5. QED
      BY <2>1, <2>4
  <1> HIDE DEF back
  <1>3. /\ DOMAIN twice = 1 .. n + n
        /\ \A i \in 1 .. n : twice[i] = back[i] /\ twice[n + i] = ids[i]
    <2> HIDE DEF n
    <2>1. n = Len(ids)
      BY DEF n
    <2>2. /\ DOMAIN twice = 1 .. Len(back) + Len(ids)
          /\ \A i \in 1 .. Len(back) : twice[i] = back[i]
          /\ \A i \in 1 .. Len(ids) : twice[Len(back) + i] = ids[i]
      <3>1. back \in Seq(S) /\ ids \in Seq(S)
        BY <1>2
      <3>2. QED
        BY <3>1, Joined
    <2> HIDE DEF twice
    <2>3. QED
      BY <1>2, <2>1, <2>2
  <1> HIDE DEF twice, n
  <1>4. \A i \in DOMAIN twice : \E j \in DOMAIN ids : twice[i] = ids[j]
    <2>1. TAKE i \in DOMAIN twice
    <2>2. CASE i \in 1 .. n
      <3>1. n - i + 1 \in DOMAIN ids /\ twice[i] = ids[n - i + 1]
        BY <1>1, <1>2, <1>3, <2>2
      <3>2. QED
        BY <3>1
    <2>3. CASE i \notin 1 .. n
      <3>1. i - n \in 1 .. n /\ i = n + (i - n)
        BY <1>1, <1>3, <2>3
      <3>2. QED
        BY <1>1, <1>3, <3>1
    <2>4. QED
      BY <2>2, <2>3
  <1>5. \A j \in DOMAIN ids : \E i \in DOMAIN twice : twice[i] = ids[j]
    <2>1. TAKE j \in DOMAIN ids
    <2>2. n + j \in DOMAIN twice /\ twice[n + j] = ids[j]
      BY <1>1, <1>3
    <2>3. QED
      BY <2>2
  <1>6. Listed(twice) = Listed(ids)
    BY <1>4, <1>5 DEF Listed
  <1>7. (\E i \in DOMAIN twice : secrets[twice[i]] = Unresolved)
           <=> (\E i \in DOMAIN ids : secrets[ids[i]] = Unresolved)
    BY <1>4, <1>5
  <1>8. Delivered(twice, secrets) = Delivered(ids, secrets)
    <2>1. Fields(twice, secrets) = Fields(ids, secrets)
      BY <1>6 DEF Fields
    <2>2. QED
      BY <1>7, <2>1 DEF Delivered
  <1>9. QED
    BY <1>8 DEF twice, back

\* What a listed field is delivered as, and that nothing else is.
LEMMA NamesDelivered ==
    ASSUME NEW fields
    PROVE  /\ \A f \in fields : ~HandMade(f, fields) =>
                 [name |-> [f.field EXCEPT !.words = f.id \o @], of |-> f] \in Deliveries(fields)
           /\ \A f \in fields : Unshared(f, fields) =>
                 [name |-> f.field, of |-> f] \in Deliveries(fields)
           /\ \A d \in Deliveries(fields) :
                 /\ d.of \in fields
                 /\ \/ ~HandMade(d.of, fields)
                       /\ d.name = [d.of.field EXCEPT !.words = d.of.id \o @]
                    \/ Unshared(d.of, fields) /\ d.name = d.of.field
  <1> DEFINE Long(f) == [name |-> [f.field EXCEPT !.words = f.id \o @], of |-> f]
             Short(f) == [name |-> f.field, of |-> f]
  <1>1. Deliveries(fields) = {Long(f) : f \in {x \in fields : ~HandMade(x, fields)}}
                               \cup {Short(f) : f \in {x \in fields : Unshared(x, fields)}}
    BY DEF Deliveries
  <1>2. \A f : /\ Long(f).name = [f.field EXCEPT !.words = f.id \o @] /\ Long(f).of = f
               /\ Short(f).name = f.field /\ Short(f).of = f
    OBVIOUS
  <1>3. ASSUME NEW d \in Deliveries(fields)
        PROVE  /\ d.of \in fields
               /\ \/ ~HandMade(d.of, fields)
                     /\ d.name = [d.of.field EXCEPT !.words = d.of.id \o @]
                  \/ Unshared(d.of, fields) /\ d.name = d.of.field
    <2>1. CASE \E f \in fields : ~HandMade(f, fields) /\ d = Long(f)
      <3>1. PICK f \in fields : ~HandMade(f, fields) /\ d = Long(f)
        BY <2>1
      <3>2. d.of = f /\ d.name = [f.field EXCEPT !.words = f.id \o @]
        BY <1>2, <3>1
      <3>3. QED
        BY <3>1, <3>2
    <2>2. CASE \E f \in fields : Unshared(f, fields) /\ d = Short(f)
      <3>1. PICK f \in fields : Unshared(f, fields) /\ d = Short(f)
        BY <2>2
      <3>2. d.of = f /\ d.name = f.field
        BY <1>2, <3>1
      <3>3. QED
        BY <3>1, <3>2
    <2> HIDE DEF Long, Short
    <2>3. QED
      BY <1>1, <2>1, <2>2
  <1>4. /\ \A f \in fields : ~HandMade(f, fields) => Long(f) \in Deliveries(fields)
        /\ \A f \in fields : Unshared(f, fields) => Short(f) \in Deliveries(fields)
    <2> HIDE DEF Long, Short
    <2>1. QED
      BY <1>1
  <1>5. QED
    BY <1>3, <1>4

\* A field is shared with no other in one reading as in the other.
LEMMA AloneIsUnshared ==
    ASSUME NEW ids, NEW secrets, NEW id \in ToSet(ids), NEW f \in DOMAIN secrets[id]
    PROVE  Unshared(Held(id, f, secrets), Fields(ids, secrets))
             <=> \A other \in ToSet(ids) : \A g \in DOMAIN secrets[other] :
                     g.words = f.words => other = id /\ g = f
  <1> DEFINE fields == Fields(ids, secrets)
             x == Held(id, f, secrets)
  <1>1. ASSUME Unshared(x, fields),
               NEW other \in ToSet(ids), NEW g \in DOMAIN secrets[other], g.words = f.words
        PROVE  other = id /\ g = f
    <2>1. Held(other, g, secrets) \in fields
      BY FieldsAreHeld
    <2>2. Held(other, g, secrets).field = g /\ x.field = f
      BY DEF Held
    <2>3. Held(other, g, secrets) = x
      BY <1>1, <2>1, <2>2 DEF Unshared, Variable
    <2>4. QED
      BY <2>3 DEF Held
  <1>2. ASSUME \A other \in ToSet(ids) : \A g \in DOMAIN secrets[other] :
                   g.words = f.words => other = id /\ g = f,
               NEW y \in fields, Variable(y.field) = Variable(x.field)
        PROVE  y = x
    <2>1. PICK other \in ToSet(ids) : \E g \in DOMAIN secrets[other] : y = Held(other, g, secrets)
      BY FieldsAreHeld
    <2>2. PICK g \in DOMAIN secrets[other] : y = Held(other, g, secrets)
      BY <2>1
    <2>3. y.field = g /\ x.field = f
      BY <2>2 DEF Held
    <2>4. QED
      BY <1>2, <2>2, <2>3 DEF Variable
  <1>3. QED
    BY <1>1, <1>2 DEF Unshared

\* Unless all is refused, each field of each credential that is listed reaches
\* the connector under its credential's name, under its own exactly when no
\* other has it, and nothing else does (resolve_credentials); for any
\* credentials, in any order.
THEOREM CredentialsAreDelivered ==
    ASSUME NEW Segments, NEW ids \in Seq(Seq(Segments)), NEW secrets,
           \A i \in DOMAIN ids : secrets[ids[i]] # Unresolved =>
               \A f \in DOMAIN secrets[ids[i]] : f \in [words : Seq(Segments), upper : BOOLEAN],
           Delivered(ids, secrets) # Unresolved
    PROVE  ReachTheirNames(ids, secrets, Delivered(ids, secrets))
  <1> DEFINE listed == ToSet(ids)
             of(id) == DOMAIN secrets[id]
             alone(id, f) == \A other \in listed : \A g \in of(other) :
                                 g.words = f.words => other = id /\ g = f
             own(id, f) == IF IsStrictPrefix(id, f.words) /\ alone(id, f) THEN f.words
                           ELSE id \o f.words
             fields == Fields(ids, secrets)
             all == Deliveries(fields)
             given == [n \in {d.name : d \in all} |-> (CHOOSE d \in all : d.name = n).of.value]
             at(words) == {given[n] : n \in {x \in DOMAIN given : x.words = words}}
  <1>1. /\ \A i \in DOMAIN ids : secrets[ids[i]] # Unresolved
        /\ ~\E d, e \in all : Variable(d.name) = Variable(e.name)
                              /\ <<d.of.id, d.of.field>> # <<e.of.id, e.of.field>>
        /\ Delivered(ids, secrets) = given
    BY DEF Delivered
  <1>2. \A id \in listed : \A f \in of(id) : f \in [words : Seq(Segments), upper : BOOLEAN]
    BY <1>1 DEF ToSet
  <1>3. \A x \in fields : \E id \in listed : \E f \in of(id) : x = Held(id, f, secrets)
    BY FieldsAreHeld
  <1>4. ASSUME NEW id \in listed, NEW f \in of(id)
        PROVE  /\ Held(id, f, secrets) \in fields
               /\ Unshared(Held(id, f, secrets), fields) <=> alone(id, f)
               /\ HandMade(Held(id, f, secrets), fields)
                     <=> alone(id, f) /\ IsStrictPrefix(id, f.words)
    <2>1. Held(id, f, secrets).id = id /\ Held(id, f, secrets).field = f
      BY DEF Held
    <2>2. Held(id, f, secrets) \in fields
      BY FieldsAreHeld
    <2>3. Unshared(Held(id, f, secrets), fields) <=> alone(id, f)
      BY AloneIsUnshared
    <2> HIDE DEF alone, fields
    <2>4. QED
      BY <2>1, <2>2, <2>3 DEF HandMade, Variable
  <1>5. \A d, e \in all : d.name.words = e.name.words => d.of.value = e.of.value
    <2>1. SUFFICES ASSUME NEW d \in all, NEW e \in all, d.name.words = e.name.words
                   PROVE  d.of.value = e.of.value
      OBVIOUS
    <2>2. <<d.of.id, d.of.field>> = <<e.of.id, e.of.field>>
      BY <1>1, <2>1 DEF Variable
    <2>3. d.of \in fields /\ e.of \in fields
      BY NamesDelivered
    <2>4. \A x, y \in fields : x.id = y.id /\ x.field = y.field => x.value = y.value
      BY <1>3 DEF Held
    <2> HIDE DEF all, fields
    <2>5. QED
      BY <2>2, <2>3, <2>4
  <1>6. \A d \in all : d.name \in DOMAIN given /\ given[d.name] = d.of.value
    <2>1. SUFFICES ASSUME NEW d \in all
                   PROVE  d.name \in DOMAIN given /\ given[d.name] = d.of.value
      OBVIOUS
    <2> DEFINE chosen == CHOOSE e \in all : e.name = d.name
    <2>2. chosen \in all /\ chosen.name = d.name
      OBVIOUS
    <2>3. given[d.name] = chosen.of.value /\ d.name \in DOMAIN given
      OBVIOUS
    <2> HIDE DEF chosen, given, all
    <2>4. QED
      BY <1>5, <2>2, <2>3
  <1>7. \A n \in DOMAIN given : \E d \in all : n = d.name
    OBVIOUS
  <1>8. \A d \in all : at(d.name.words) = {d.of.value}
    <2> HIDE DEF given, all
    <2>1. TAKE d \in all
    <2>2. \A n \in DOMAIN given : n.words = d.name.words => given[n] = d.of.value
      BY <1>5, <1>6, <1>7
    <2>3. QED
      BY <1>6, <2>2
  <1>9. ASSUME NEW id \in listed, NEW f \in of(id)
        PROVE  /\ at(own(id, f)) = {secrets[id][f]}
               /\ alone(id, f) => at(f.words) = {secrets[id][f]}
    <2> DEFINE x == Held(id, f, secrets)
               long == [name |-> [f EXCEPT !.words = id \o @], of |-> x]
               short == [name |-> f, of |-> x]
    <2>1. x.id = id /\ x.field = f /\ x.value = secrets[id][f]
      BY DEF Held
    <2>2. /\ long.name.words = id \o f.words /\ short.name.words = f.words
          /\ long.of.value = secrets[id][f] /\ short.of.value = secrets[id][f]
      BY <1>2, <2>1
    <2>3. x \in fields /\ (~HandMade(x, fields) => long \in all)
          /\ (Unshared(x, fields) => short \in all)
      BY <1>4, <2>1, NamesDelivered
    <2> HIDE DEF x, long, short, all, given, fields, at
    <2>4. alone(id, f) => at(f.words) = {secrets[id][f]}
      BY <1>4, <1>8, <2>2, <2>3 DEF x
    <2>5. ~(IsStrictPrefix(id, f.words) /\ alone(id, f)) => at(id \o f.words) = {secrets[id][f]}
      BY <1>4, <1>8, <2>2, <2>3 DEF x
    <2>6. QED
      BY <2>4, <2>5
  <1>10. ASSUME NEW n \in DOMAIN given
         PROVE  \E id \in listed : \E f \in of(id) :
                   n.words = own(id, f) \/ (alone(id, f) /\ n.words = f.words)
    <2>1. PICK d \in all : n = d.name
      BY <1>7
    <2>2. /\ d.of \in fields
          /\ \/ ~HandMade(d.of, fields) /\ d.name = [d.of.field EXCEPT !.words = d.of.id \o @]
             \/ Unshared(d.of, fields) /\ d.name = d.of.field
      BY NamesDelivered
    <2>3. PICK id \in listed : \E f \in of(id) : d.of = Held(id, f, secrets)
      BY <1>3, <2>2
    <2>4. PICK f \in of(id) : d.of = Held(id, f, secrets)
      BY <2>3
    <2>5. d.of.id = id /\ d.of.field = f
      BY <2>4 DEF Held
    <2>6. f \in [words : Seq(Segments), upper : BOOLEAN]
      BY <1>2
    <2> HIDE DEF all, given, fields
    <2>7. CASE ~HandMade(d.of, fields) /\ d.name = [d.of.field EXCEPT !.words = d.of.id \o @]
      <3>1. n.words = id \o f.words
        BY <2>1, <2>5, <2>6, <2>7
      <3>2. QED
        BY <1>4, <2>4, <2>7, <3>1
    <2>8. CASE Unshared(d.of, fields) /\ d.name = d.of.field
      BY <1>4, <2>1, <2>4, <2>5, <2>8
    <2>9. QED
      BY <2>2, <2>7, <2>8
  <1>11. given = Delivered(Reverse(ids) \o ids, secrets)
    BY <1>1, OrderDoesNotMatter
  <1> HIDE DEF given
  <1>12. ReachTheirNames(ids, secrets, given)
    BY <1>9, <1>10, <1>11 DEF ReachTheirNames
  <1>13. QED
    BY <1>1, <1>12
=============================================================================
