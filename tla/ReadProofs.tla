---------------------------- MODULE ReadProofs ----------------------------
(***************************************************************************)
(* Proofs about the read side.  Of OnDemandRefresh, and the RefreshLimiter *)
(* it goes through: for any set of reads, finite or not, any hosts and     *)
(* lists of hosts, and any set of configured sizes.  Of InventoryRules: an *)
(* endpoint's limit and exclusions, the host search, enricher merges, what *)
(* scripts and endpoints print, what views serve, the pages, groups, paths *)
(* and patterns of a selection, for any requests.                          *)
(***************************************************************************)
EXTENDS OnDemandRefresh, InventoryRules, WellFoundedInduction, FiniteSetTheorems, SequenceTheorems,
        TLAPS

-----------------------------------------------------------------------------
(* The invariants.                                                         *)

InLine(q, c) == \E i \in DOMAIN q : q[i] = c

Distinct(q) == \A i, j \in DOMAIN q : q[i] = q[j] => i = j

\* What a permit that comes free does to the others: who waits may get it.
MovesUp(from, to) == to = from \/ (from = "waiting" /\ to = "holding")

Places == {"away", "settled", "waiting", "holding"}

\* The queue holds the waiting callers, each once.
QueueMatches(q, places) ==
    /\ Distinct(q)
    /\ \A c \in Readers : places[c] = "waiting" <=> InLine(q, c)

\* The invariant of the limiter.
LInv ==
    /\ L!LimiterTypeOK
    /\ QueueMatches(queue, at)
    /\ L!NobodyWaitsForAFreePermit
    /\ IsFiniteSet(L!Holding)
    /\ L!PermitsConserved

\* What the limiter and the source's lock say of a read.
PlacesMatch(r) ==
    /\ taken[r] <= Len(order[r])
    /\ pc[r] = "idle" => at[r] = "away" /\ order[r] = <<>>
    /\ pc[r] = "locking" => at[r] = "away"
    /\ pc[r] \in Waiting => at[r] = "holding"
    /\ pc[r] \in Waiting <=> InLine(sourceLock, r)

\* A lock has one holder: each guard a read has taken holds its lock.
GuardsHold(r) == \A i \in 1 .. taken[r] : hostLock[order[r][i]].holder = Guard(r, i)

\* A read that has its locks keeps them until it ends, and sets out only for
\* hosts it has locked.
Locked == {"acquiring"} \cup Waiting

GathersWhatItLocked(r) ==
    pc[r] \in Locked => taken[r] = Len(order[r]) /\ still[r] \subseteq Named(order[r])

\* When a refresh last brought h back, that is a TTL ago.
LongAgo(h) == refreshed[h] # Never => now - refreshed[h] >= Ttl

\* What a read found stale under its locks stays so until it is gathered.
StaleTillGathered(r) == pc[r] \in {"acquiring", "syncing"} => \A h \in still[r] : LongAgo(h)

ReadOK(r) == PlacesMatch(r) /\ GuardsHold(r) /\ GathersWhatItLocked(r) /\ StaleTillGathered(r)

\* A host that a refresh brought back is stamped with that instant or later.
RefreshedAreStamped ==
    /\ refreshed \in [Hosts -> Nat \cup {Never}]
    /\ \A h \in Hosts : refreshed[h] # Never =>
          refreshed[h] <= now /\ stamps[h] # Never /\ refreshed[h] <= stamps[h]

Typed ==
    /\ pc \in [Readers -> {"idle", "locking", "acquiring"} \cup Waiting]
    /\ order \in [Readers -> Seq(Hosts)]
    /\ taken \in [Readers -> Nat]
    /\ still \in [Readers -> SUBSET Hosts]
    /\ hostLock = [h \in Hosts |-> hostLock[h]]
    /\ sourceLock \in Seq(Readers \cup Others) /\ Distinct(sourceLock)
    /\ now \in Nat /\ stamps \in [Hosts -> 0 .. now \cup {Never}]

\* The invariant of the reads.
IInv ==
    /\ LInv
    /\ Typed
    /\ RefreshedAreStamped
    /\ \A r \in Readers : ReadOK(r)

-----------------------------------------------------------------------------
(* The queue of the semaphore.                                             *)

\* Cardinality is the same in the limiter's module.
LEMMA SameCardinality == \A S : L!Cardinality(S) = Cardinality(S)
  BY DEF L!Cardinality, Cardinality

\* Serving the first k of a queue takes out k callers, and nobody else.
LEMMA FirstServed ==
    ASSUME NEW q \in Seq(Readers), Distinct(q), NEW k \in 0 .. Len(q)
    PROVE  LET served == {q[i] : i \in 1 .. k}
               rest   == SubSeq(q, k + 1, Len(q))
           IN  /\ served \subseteq Readers
               /\ IsFiniteSet(served)
               /\ Cardinality(served) = k
               /\ \A c \in served : InLine(q, c)
               /\ rest \in Seq(Readers)
               /\ Distinct(rest)
               /\ \A c \in Readers : InLine(rest, c) <=> InLine(q, c) /\ c \notin served
               /\ Len(rest) = Len(q) - k
  <1> DEFINE served == {q[i] : i \in 1 .. k}
             rest == SubSeq(q, k + 1, Len(q))
             n == Len(q)
             turn == [i \in 1 .. k |-> q[i]]
  <1>1. /\ n \in Nat /\ k \in Nat /\ k <= n
        /\ DOMAIN q = 1 .. n
        /\ \A i \in 1 .. n : q[i] \in Readers
    BY LenProperties, ElementOfSeq
  <1>2. turn \in Bijection(1 .. k, served)
    <2>1. turn \in [1 .. k -> served]
      OBVIOUS
    <2>2. \A i, j \in 1 .. k : turn[i] = turn[j] => i = j
      BY <1>1 DEF Distinct
    <2>3. \A c \in served : \E i \in 1 .. k : turn[i] = c
      OBVIOUS
    <2>4. QED
      BY <2>1, <2>2, <2>3 DEF Bijection, Injection, Surjection, IsInjective
  <1>3. ExistsBijection(1 .. k, served)
    BY <1>2 DEF ExistsBijection
  <1>4. IsFiniteSet(served) /\ Cardinality(served) = k
    BY <1>1, <1>3, FS_NatBijection, FS_CountingElements
  <1>5. /\ rest \in Seq(Readers)
        /\ Len(rest) = n - k
        /\ \A i \in 1 .. n - k : rest[i] = q[k + i]
    <2>1. \A i \in k + 1 .. n : q[i] \in Readers
      BY <1>1
    <2>2. k + 1 \in Int /\ n \in Int
      BY <1>1
    <2>3. /\ rest \in Seq(Readers)
          /\ Len(rest) = IF k + 1 <= n THEN n - (k + 1) + 1 ELSE 0
          /\ \A i \in 1 .. n - (k + 1) + 1 : rest[i] = q[(k + 1) + i - 1]
      BY <2>1, <2>2, SubSeqProperties
    <2> HIDE DEF rest, n
    <2>4. QED
      BY <2>3, <1>1
  <1> HIDE DEF rest, n
  <1>6. DOMAIN rest = 1 .. n - k
    BY <1>5, LenProperties
  <1>7. Distinct(rest)
    <2> SUFFICES ASSUME NEW i \in 1 .. n - k, NEW j \in 1 .. n - k, rest[i] = rest[j]
                 PROVE  i = j
      BY <1>6 DEF Distinct
    <2>1. k + i \in 1 .. n /\ k + j \in 1 .. n /\ q[k + i] = q[k + j]
      BY <1>1, <1>5
    <2>2. k + i = k + j
      BY <2>1, <1>1 DEF Distinct
    <2>3. QED
      BY <2>2, <1>1
  <1>8. ASSUME NEW c \in Readers
        PROVE  InLine(rest, c) => InLine(q, c) /\ c \notin served
    <2> SUFFICES ASSUME NEW i \in 1 .. n - k, rest[i] = c
                 PROVE  InLine(q, c) /\ c \notin served
      BY <1>6 DEF InLine
    <2>1. k + i \in 1 .. n /\ q[k + i] = c
      BY <1>1, <1>5
    <2>2. \A j \in 1 .. k : q[j] # c
      BY <2>1, <1>1 DEF Distinct
    <2>3. QED
      BY <2>1, <2>2, <1>1 DEF InLine
  <1>9. ASSUME NEW c \in Readers
        PROVE  InLine(q, c) /\ c \notin served => InLine(rest, c)
    <2> SUFFICES ASSUME NEW i \in 1 .. n, q[i] = c, c \notin served
                 PROVE  InLine(rest, c)
      BY <1>1 DEF InLine
    <2>1. i > k
      BY <1>1
    <2>2. i - k \in 1 .. n - k /\ rest[i - k] = q[k + (i - k)] /\ k + (i - k) = i
      BY <2>1, <1>1, <1>5
    <2>3. QED
      BY <2>2, <1>6 DEF InLine
  <1>10. served \subseteq Readers /\ \A c \in served : InLine(q, c)
    BY <1>1 DEF InLine
  <1>11. QED
    BY <1>4, <1>5, <1>7, <1>8, <1>9, <1>10 DEF rest, n

\* Joining the queue puts the newcomer in it, and nobody else.
LEMMA Joined ==
    ASSUME NEW S, NEW q \in Seq(S), Distinct(q), NEW c \in S, ~InLine(q, c)
    PROVE  /\ Append(q, c) \in Seq(S)
           /\ Distinct(Append(q, c))
           /\ \A d \in S : InLine(Append(q, c), d) <=> InLine(q, d) \/ d = c
  <1> DEFINE r == Append(q, c)
  <1>1. /\ r \in Seq(S)
        /\ Len(q) \in Nat
        /\ DOMAIN q = 1 .. Len(q)
        /\ DOMAIN r = 1 .. Len(q) + 1
        /\ \A i \in 1 .. Len(q) : r[i] = q[i]
        /\ r[Len(q) + 1] = c
    OBVIOUS
  <1> HIDE DEF r
  <1>2. Distinct(r)
    BY <1>1 DEF Distinct, InLine
  <1>3. \A d \in S : InLine(r, d) <=> InLine(q, d) \/ d = c
    BY <1>1 DEF InLine
  <1>4. QED
    BY <1>1, <1>2, <1>3 DEF r

\* Who leaves a line is out of it, and nobody else is.
LEMMA WithoutOne ==
    ASSUME NEW S, NEW line \in Seq(S), Distinct(line), NEW c \in S, InLine(line, c)
    PROVE  /\ L!Without(line, c) \in Seq(S)
           /\ Distinct(L!Without(line, c))
           /\ \A d \in S : InLine(L!Without(line, c), d) <=> InLine(line, d) /\ d # c
  <1> DEFINE place == CHOOSE i \in DOMAIN line : line[i] = c
             n == Len(line)
             r == [i \in 1 .. n - 1 |-> IF i < place THEN line[i] ELSE line[i + 1]]
  <1>1. place \in DOMAIN line /\ line[place] = c
    BY DEF InLine
  <1>2. n \in Nat /\ DOMAIN line = 1 .. n /\ \A i \in 1 .. n : line[i] \in S
    BY LenProperties, ElementOfSeq
  <1> HIDE DEF place, n
  <1>3. n - 1 \in Nat /\ r \in [1 .. n - 1 -> S]
    BY <1>1, <1>2
  <1>4. r \in Seq(S) /\ DOMAIN r = 1 .. n - 1
    BY <1>3, SeqDef
  <1>5. \A i \in 1 .. n - 1 : \E k \in 1 .. n :
            /\ k # place /\ r[i] = line[k]
            /\ k = IF i < place THEN i ELSE i + 1
    BY <1>1, <1>2
  <1>6. \A k \in 1 .. n : k # place => \E i \in 1 .. n - 1 : r[i] = line[k]
    <2> SUFFICES ASSUME NEW k \in 1 .. n, k # place
                 PROVE  \E i \in 1 .. n - 1 : r[i] = line[k]
      OBVIOUS
    <2>1. CASE k < place
      <3>1. k \in 1 .. n - 1
        BY <2>1, <1>1, <1>2
      <3>2. r[k] = line[k]
        BY <2>1, <3>1
      <3>3. QED
        BY <3>1, <3>2
    <2>2. CASE k > place
      <3>1. k - 1 \in 1 .. n - 1 /\ ~(k - 1 < place) /\ (k - 1) + 1 = k
        BY <2>2, <1>1, <1>2
      <3>2. r[k - 1] = line[k]
        BY <3>1
      <3>3. QED
        BY <3>1, <3>2
    <2>3. QED
      BY <2>1, <2>2, <1>1, <1>2
  <1>7. L!Without(line, c) = r
    BY DEF L!Without, r, place, n
  <1> HIDE DEF r
  <1>8. Distinct(r)
    <2> SUFFICES ASSUME NEW i \in 1 .. n - 1, NEW j \in 1 .. n - 1, r[i] = r[j]
                 PROVE  i = j
      BY <1>4 DEF Distinct
    <2> DEFINE up(m) == IF m < place THEN m ELSE m + 1
    <2>1. up(i) \in 1 .. n /\ r[i] = line[up(i)]
      BY <1>5
    <2>2. up(j) \in 1 .. n /\ r[j] = line[up(j)]
      BY <1>5
    <2>3. up(i) = up(j)
      BY <2>1, <2>2, <1>2 DEF Distinct
    <2>4. QED
      BY <2>3, <1>1, <1>2
  <1>9. ASSUME NEW d \in S
        PROVE  InLine(r, d) <=> InLine(line, d) /\ d # c
    <2>1. InLine(r, d) => InLine(line, d) /\ d # c
      BY <1>1, <1>2, <1>4, <1>5 DEF InLine, Distinct
    <2>2. InLine(line, d) /\ d # c => InLine(r, d)
      BY <1>1, <1>2, <1>4, <1>6 DEF InLine
    <2>3. QED
      BY <2>1, <2>2
  <1>10. QED
    BY <1>4, <1>7, <1>8, <1>9

-----------------------------------------------------------------------------
(* Handing permits out.                                                    *)

\* Permits added to the semaphore end up free or with a caller, and none is
\* left free beside a waiter.
LEMMA PermitsHandedOut ==
    ASSUME L!LimiterTypeOK, L!NobodyWaitsForAFreePermit,
           NEW n \in Nat, NEW from \in [Readers -> Places], QueueMatches(queue, from),
           IsFiniteSet({c \in Readers : from[c] = "holding"}),
           L!AddPermits(n, from)
    PROVE  /\ available' \in Nat /\ queue' \in Seq(Readers) /\ at' \in [Readers -> Places]
           /\ QueueMatches(queue', at')
           /\ L!NobodyWaitsForAFreePermit'
           /\ IsFiniteSet(L!Holding')
           /\ available' + Cardinality(L!Holding')
                = available + Cardinality({c \in Readers : from[c] = "holding"}) + n
           /\ \A c \in Readers : MovesUp(from[c], at'[c])
  <1> DEFINE k == L!Smaller(n, Len(queue))
             served == {queue[i] : i \in 1 .. k}
             rest == SubSeq(queue, k + 1, Len(queue))
             H == {c \in Readers : from[c] = "holding"}
  <1>1. /\ queue \in Seq(Readers) /\ Len(queue) \in Nat /\ available \in Nat
        /\ k \in 0 .. Len(queue) /\ k \in Nat /\ k <= n
        /\ k = n \/ k = Len(queue)
    BY LenProperties DEF L!LimiterTypeOK, L!Smaller
  <1>2. /\ available' = available + (n - k)
        /\ queue' = rest
        /\ at' = [c \in Readers |-> IF c \in served THEN "holding" ELSE from[c]]
    BY DEF L!AddPermits
  <1> HIDE DEF k
  <1>3. Distinct(queue)
    BY DEF QueueMatches
  <1>4. /\ served \subseteq Readers
        /\ IsFiniteSet(served)
        /\ Cardinality(served) = k
        /\ \A c \in served : InLine(queue, c)
        /\ rest \in Seq(Readers)
        /\ Distinct(rest)
        /\ \A c \in Readers : InLine(rest, c) <=> InLine(queue, c) /\ c \notin served
        /\ Len(rest) = Len(queue) - k
    BY ONLY <1>1, <1>3, FirstServed
  <1> HIDE DEF served, rest
  <1>5. available' \in Nat /\ queue' \in Seq(Readers) /\ at' \in [Readers -> Places]
    BY <1>1, <1>2, <1>4 DEF Places
  <1>6. QueueMatches(queue', at')
    BY <1>2, <1>4 DEF QueueMatches
  <1>7. L!NobodyWaitsForAFreePermit'
    <2>1. ASSUME queue' # <<>> PROVE available' = 0
      <3>1. Len(queue) - k # 0
        BY <2>1, <1>2, <1>4, EmptySeq
      <3>2. k = n /\ queue # <<>>
        BY <3>1, <1>1, EmptySeq
      <3>3. QED
        BY <3>2, <1>1, <1>2 DEF L!NobodyWaitsForAFreePermit
    <2>2. QED
      BY <2>1 DEF L!NobodyWaitsForAFreePermit
  <1>8. L!Holding' = H \cup served /\ H \cap served = {}
    BY <1>2, <1>4 DEF L!Holding, QueueMatches
  <1> HIDE DEF H
  <1>9. /\ IsFiniteSet(H) /\ Cardinality(H) \in Nat
        /\ IsFiniteSet(L!Holding')
        /\ Cardinality(L!Holding') = Cardinality(H) + k
    <2>1. IsFiniteSet(H)
      BY DEF H
    <2>2. Cardinality(H) \in Nat
      BY <2>1, FS_CardinalityType
    <2>3. /\ IsFiniteSet(H \cup served)
          /\ Cardinality(H \cup served)
               = Cardinality(H) + Cardinality(served) - Cardinality(H \cap served)
      BY <2>1, <1>4, FS_Union
    <2>4. Cardinality(H \cap served) = 0
      BY <1>8, FS_EmptySet
    <2>5. QED
      BY <2>1, <2>2, <2>3, <2>4, <1>1, <1>4, <1>8
  <1>10. available' + Cardinality(L!Holding') = available + Cardinality(H) + n
    BY <1>1, <1>2, <1>9
  <1>11. \A c \in Readers : MovesUp(from[c], at'[c])
    BY <1>2, <1>4 DEF QueueMatches, MovesUp
  <1>12. QED
    BY <1>5, <1>6, <1>7, <1>9, <1>10, <1>11 DEF H

-----------------------------------------------------------------------------
(* The invariant is inductive.                                             *)

\* At the start nobody has or waits for a permit.
LEMMA LimiterInitInvariant == L!LimiterInit => LInv
  <1> SUFFICES ASSUME L!LimiterInit PROVE LInv
    OBVIOUS
  <1>1. L!LimiterTypeOK
    BY DEF L!Declared, L!LimiterInit, L!LimiterTypeOK, L!Clamp
  <1>2. QueueMatches(queue, at)
    BY DEF L!LimiterInit, QueueMatches, Distinct, InLine
  <1>3. L!Holding = {}
    BY DEF L!LimiterInit, L!Holding
  <1>4. QED
    BY <1>1, <1>2, <1>3, FS_EmptySet, SameCardinality
       DEF LInv, L!LimiterInit, L!LimiterTypeOK, L!NobodyWaitsForAFreePermit, L!PermitsConserved

\* A resize: a grow pays the debt and hands out the rest, a shrink takes what
\* is free and books the remainder.
LEMMA ResizeInvariant ==
    ASSUME LInv, NEW n \in L!Declared, L!Resize(n)
    PROVE  /\ LInv'
           /\ capacity' + debt' <= capacity + debt \/ capacity' + debt' = capacity'
           /\ \A c \in Readers : MovesUp(at[c], at'[c])
  <1> DEFINE target == L!Clamp(n)
  <1>1. target \in Nat \ {0}
    BY DEF L!Declared, L!Clamp
  <1>2. /\ capacity \in Nat \ {0} /\ debt \in Nat /\ available \in Nat
        /\ at \in [Readers -> Places]
        /\ IsFiniteSet(L!Holding) /\ Cardinality(L!Holding) \in Nat
        /\ available + Cardinality(L!Holding) = capacity + debt
    BY FS_CardinalityType, SameCardinality DEF LInv, L!LimiterTypeOK, L!PermitsConserved, Places
  <1>3. capacity' = target
    BY DEF L!Resize
  <1> HIDE DEF target
  <1>4. CASE target >= capacity
    <2> DEFINE cancelled == L!Smaller(target - capacity, debt)
               given == (target - capacity) - cancelled
    <2>1. debt' = debt - cancelled /\ L!AddPermits(given, at)
      BY <1>4 DEF L!Resize, target
    <2>2. /\ cancelled \in Nat /\ cancelled <= debt /\ given \in Nat
          /\ cancelled = debt \/ given = 0
          /\ given = (target - capacity) - cancelled
      BY <1>1, <1>2, <1>4 DEF L!Smaller
    <2> HIDE DEF cancelled, given
    <2>3. L!Holding = {c \in Readers : at[c] = "holding"}
      BY DEF L!Holding
    <2>4. /\ available' \in Nat /\ queue' \in Seq(Readers) /\ at' \in [Readers -> Places]
          /\ QueueMatches(queue', at')
          /\ L!NobodyWaitsForAFreePermit'
          /\ IsFiniteSet(L!Holding')
          /\ available' + Cardinality(L!Holding') = available + Cardinality(L!Holding) + given
          /\ \A c \in Readers : MovesUp(at[c], at'[c])
      BY <1>2, <2>1, <2>2, <2>3, PermitsHandedOut DEF LInv
    <2>5. L!LimiterTypeOK'
      BY <1>1, <1>2, <1>3, <2>1, <2>2, <2>4 DEF L!LimiterTypeOK, Places
    <2>6. L!PermitsConserved'
      BY <1>1, <1>2, <1>3, <2>1, <2>2, <2>4, SameCardinality DEF L!PermitsConserved
    <2>7. capacity' + debt' <= capacity + debt \/ capacity' + debt' = capacity'
      BY <1>1, <1>2, <1>3, <2>1, <2>2
    <2>8. QED
      BY <2>4, <2>5, <2>6, <2>7 DEF LInv
  <1>5. CASE ~(target >= capacity)
    <2> DEFINE shrink == capacity - target
               forgot == L!Smaller(shrink, available)
    <2>1. /\ debt' = debt + (shrink - forgot)
          /\ available' = available - forgot
          /\ queue' = queue /\ at' = at
      BY <1>5 DEF L!Resize, target
    <2>2. forgot \in Nat /\ forgot <= shrink /\ forgot <= available /\ shrink = capacity - target
      BY <1>1, <1>2, <1>5 DEF L!Smaller
    <2> HIDE DEF shrink, forgot
    <2>3. L!LimiterTypeOK'
      BY <1>1, <1>2, <1>3, <1>5, <2>1, <2>2 DEF LInv, L!LimiterTypeOK
    <2>4. L!Holding' = L!Holding
      BY <2>1 DEF L!Holding
    <2>5. L!PermitsConserved'
      BY <1>1, <1>2, <1>3, <2>1, <2>2, <2>4, SameCardinality DEF L!PermitsConserved
    <2>6. L!NobodyWaitsForAFreePermit'
      BY <1>2, <2>1, <2>2 DEF LInv, L!NobodyWaitsForAFreePermit
    <2>7. QueueMatches(queue', at')
      BY <2>1 DEF LInv, QueueMatches, InLine, Distinct
    <2>8. capacity' + debt' <= capacity + debt
      BY <1>1, <1>2, <1>3, <2>1, <2>2
    <2>9. QED
      BY <2>1, <2>3, <2>4, <2>5, <2>6, <2>7, <2>8 DEF LInv, MovesUp
  <1>6. QED
    BY <1>4, <1>5

\* Settling forgets as many free permits as it forgives debt.
LEMMA SettleInvariant ==
    ASSUME LInv, NEW c \in Readers, L!Settle(c)
    PROVE  LInv' /\ capacity' + debt' <= capacity + debt
  <1> DEFINE forgot == L!Smaller(debt, available)
  <1>1. /\ capacity \in Nat /\ debt \in Nat /\ available \in Nat
        /\ at \in [Readers -> Places]
        /\ Cardinality(L!Holding) \in Nat
        /\ available + Cardinality(L!Holding) = capacity + debt
    BY FS_CardinalityType, SameCardinality DEF LInv, L!LimiterTypeOK, L!PermitsConserved, Places
  <1>2. /\ debt' = debt - forgot /\ available' = available - forgot
        /\ capacity' = capacity /\ queue' = queue
        /\ at[c] = "away" /\ at' = [at EXCEPT ![c] = "settled"]
    BY DEF L!Settle
  <1>3. forgot \in Nat /\ forgot <= debt /\ forgot <= available
    BY <1>1 DEF L!Smaller
  <1> HIDE DEF forgot
  <1>4. L!Holding' = L!Holding
    BY <1>1, <1>2 DEF L!Holding
  <1>5. L!LimiterTypeOK'
    BY <1>1, <1>2, <1>3 DEF LInv, L!LimiterTypeOK, Places
  <1>6. L!PermitsConserved'
    BY <1>1, <1>2, <1>3, <1>4, SameCardinality DEF L!PermitsConserved
  <1>7. L!NobodyWaitsForAFreePermit'
    BY <1>1, <1>2, <1>3 DEF LInv, L!NobodyWaitsForAFreePermit
  <1>8. QueueMatches(queue', at')
    BY <1>1, <1>2 DEF LInv, QueueMatches, InLine, Distinct
  <1>9. QED
    BY <1>1, <1>2, <1>3, <1>4, <1>5, <1>6, <1>7, <1>8 DEF LInv

\* A caller that asks gets a permit or a place in the queue.
LEMMA AcquireInvariant ==
    ASSUME LInv, NEW c \in Readers, L!Acquire(c)
    PROVE  LInv' /\ UNCHANGED <<capacity, debt>>
  <1>1. /\ capacity \in Nat \ {0} /\ debt \in Nat /\ available \in Nat /\ queue \in Seq(Readers)
        /\ at \in [Readers -> Places]
        /\ IsFiniteSet(L!Holding) /\ Cardinality(L!Holding) \in Nat
        /\ available + Cardinality(L!Holding) = capacity + debt
        /\ Distinct(queue)
        /\ \A d \in Readers : at[d] = "waiting" <=> InLine(queue, d)
    BY FS_CardinalityType, SameCardinality
       DEF LInv, L!LimiterTypeOK, L!PermitsConserved, Places, QueueMatches
  <1>2. at[c] = "settled" /\ UNCHANGED <<capacity, debt>>
    BY DEF L!Acquire
  <1>3. CASE available > 0
    <2>1. /\ at' = [at EXCEPT ![c] = "holding"]
          /\ available' = available - 1 /\ queue' = queue
      BY <1>3 DEF L!Acquire
    <2>2. L!Holding' = L!Holding \cup {c} /\ c \notin L!Holding
      BY <1>1, <1>2, <2>1 DEF L!Holding
    <2>3. IsFiniteSet(L!Holding') /\ Cardinality(L!Holding') = Cardinality(L!Holding) + 1
      BY <1>1, <2>2, FS_AddElement
    <2>4. L!LimiterTypeOK'
      BY <1>1, <1>2, <1>3, <2>1 DEF L!LimiterTypeOK, Places
    <2>5. L!PermitsConserved'
      BY <1>1, <1>2, <1>3, <2>1, <2>3, SameCardinality DEF L!PermitsConserved
    <2>6. L!NobodyWaitsForAFreePermit'
      BY <1>1, <1>3, <2>1 DEF LInv, L!NobodyWaitsForAFreePermit
    <2>7. QueueMatches(queue', at')
      BY <1>1, <1>2, <2>1 DEF QueueMatches
    <2>8. QED
      BY <1>2, <2>3, <2>4, <2>5, <2>6, <2>7 DEF LInv
  <1>4. CASE ~(available > 0)
    <2>1. /\ at' = [at EXCEPT ![c] = "waiting"]
          /\ queue' = Append(queue, c) /\ available' = available
      BY <1>4 DEF L!Acquire
    <2>2. /\ queue' \in Seq(Readers) /\ Distinct(queue')
          /\ \A d \in Readers : InLine(queue', d) <=> InLine(queue, d) \/ d = c
      BY <1>1, <1>2, <2>1, Joined
    <2>3. L!Holding' = L!Holding
      BY <1>1, <1>2, <2>1 DEF L!Holding
    <2>4. L!LimiterTypeOK'
      BY <1>1, <1>2, <2>1, <2>2 DEF L!LimiterTypeOK, Places
    <2>5. L!PermitsConserved'
      BY <1>1, <1>2, <2>1, <2>3, SameCardinality DEF L!PermitsConserved
    <2>6. L!NobodyWaitsForAFreePermit'
      BY <1>1, <1>4, <2>1 DEF L!NobodyWaitsForAFreePermit
    <2>7. QueueMatches(queue', at')
      BY <1>1, <2>1, <2>2 DEF QueueMatches
    <2>8. QED
      BY <1>1, <1>2, <2>3, <2>4, <2>5, <2>6, <2>7 DEF LInv
  <1>5. QED
    BY <1>3, <1>4

\* A permit that comes free goes to the first in the queue.
LEMMA ReleaseInvariant ==
    ASSUME LInv, NEW c \in Readers, L!Release(c)
    PROVE  /\ LInv' /\ UNCHANGED <<capacity, debt>>
           /\ at'[c] = "away" /\ \A d \in Readers \ {c} : MovesUp(at[d], at'[d])
  <1> DEFINE from == [at EXCEPT ![c] = "away"]
             H == {d \in Readers : from[d] = "holding"}
  <1>1. /\ capacity \in Nat \ {0} /\ debt \in Nat /\ available \in Nat
        /\ at \in [Readers -> Places]
        /\ IsFiniteSet(L!Holding) /\ Cardinality(L!Holding) \in Nat
        /\ available + Cardinality(L!Holding) = capacity + debt
        /\ L!LimiterTypeOK /\ L!NobodyWaitsForAFreePermit
    BY FS_CardinalityType, SameCardinality DEF LInv, L!LimiterTypeOK, L!PermitsConserved, Places
  <1>2. at[c] = "holding" /\ L!AddPermits(1, from) /\ UNCHANGED <<capacity, debt>>
    BY DEF L!Release
  <1>3. from \in [Readers -> Places] /\ QueueMatches(queue, from)
    BY <1>1, <1>2 DEF LInv, QueueMatches, Places
  <1>4. H = L!Holding \ {c} /\ c \in L!Holding
    BY <1>1, <1>2 DEF L!Holding
  <1>5. IsFiniteSet(H) /\ Cardinality(H) = Cardinality(L!Holding) - 1
    BY <1>1, <1>4, FS_RemoveElement
  <1> HIDE DEF from
  <1>6. /\ available' \in Nat /\ queue' \in Seq(Readers) /\ at' \in [Readers -> Places]
        /\ QueueMatches(queue', at')
        /\ L!NobodyWaitsForAFreePermit'
        /\ IsFiniteSet(L!Holding')
        /\ available' + Cardinality(L!Holding') = available + Cardinality(H) + 1
        /\ \A d \in Readers : MovesUp(from[d], at'[d])
    BY <1>1, <1>2, <1>3, <1>5, PermitsHandedOut
  <1> HIDE DEF H
  <1>7. L!LimiterTypeOK'
    BY <1>1, <1>2, <1>6 DEF L!LimiterTypeOK, Places
  <1>8. L!PermitsConserved'
    BY <1>1, <1>2, <1>5, <1>6, SameCardinality DEF L!PermitsConserved
  <1>9. at'[c] = "away" /\ \A d \in Readers \ {c} : MovesUp(at[d], at'[d])
    BY <1>1, <1>6 DEF MovesUp, from
  <1>10. QED
    BY <1>2, <1>6, <1>7, <1>8, <1>9 DEF LInv

\* Who gives up waiting leaves the queue as it was for the others.
LEMMA AbandonInvariant ==
    ASSUME LInv, NEW c \in Readers, L!Abandon(c)
    PROVE  LInv' /\ UNCHANGED <<capacity, debt>>
  <1>1. /\ queue \in Seq(Readers) /\ Distinct(queue) /\ at \in [Readers -> Places]
        /\ \A d \in Readers : at[d] = "waiting" <=> InLine(queue, d)
    BY DEF LInv, L!LimiterTypeOK, QueueMatches, Places
  <1>2. /\ at[c] = "waiting" /\ at' = [at EXCEPT ![c] = "away"]
        /\ queue' = L!Without(queue, c)
        /\ UNCHANGED <<capacity, debt, available>>
    BY DEF L!Abandon
  <1>3. /\ queue' \in Seq(Readers) /\ Distinct(queue')
        /\ \A d \in Readers : InLine(queue', d) <=> InLine(queue, d) /\ d # c
    BY <1>1, <1>2, WithoutOne
  <1>4. L!Holding' = L!Holding
    BY <1>1, <1>2 DEF L!Holding
  <1>5. queue # <<>>
    BY <1>1, <1>2 DEF InLine
  <1>6. L!LimiterTypeOK' /\ QueueMatches(queue', at')
    BY <1>1, <1>2, <1>3 DEF LInv, L!LimiterTypeOK, QueueMatches, Places
  <1>7. L!NobodyWaitsForAFreePermit' /\ L!PermitsConserved'
    BY <1>2, <1>4, <1>5 DEF LInv, L!NobodyWaitsForAFreePermit, L!PermitsConserved
  <1>8. QED
    BY <1>2, <1>4, <1>6, <1>7 DEF LInv

\* Every step of the limiter keeps its invariant.
LEMMA LimiterStep ==
    LInv /\ [L!LimiterNext]_(L!limiterVars) =>
        /\ LInv'
        /\ [capacity' + debt' <= capacity + debt \/ capacity' + debt' = capacity']_(L!limiterVars)
  <1> SUFFICES ASSUME LInv, [L!LimiterNext]_(L!limiterVars)
               PROVE  /\ LInv'
                      /\ \/ capacity' + debt' <= capacity + debt
                         \/ capacity' + debt' = capacity'
    OBVIOUS
  <1>1. capacity + debt \in Nat
    BY DEF LInv, L!LimiterTypeOK
  <1>2. ASSUME NEW n \in L!Declared, L!Resize(n)
        PROVE  /\ LInv'
               /\ capacity' + debt' <= capacity + debt \/ capacity' + debt' = capacity'
    BY <1>2, ResizeInvariant
  <1>3. ASSUME NEW c \in Readers, L!Settle(c) \/ L!Acquire(c) \/ L!Release(c) \/ L!Abandon(c)
        PROVE  LInv' /\ capacity' + debt' <= capacity + debt
    BY <1>1, <1>3, SettleInvariant, AcquireInvariant, ReleaseInvariant, AbandonInvariant
  <1>4. CASE UNCHANGED L!limiterVars
    BY <1>1, <1>4 DEF L!limiterVars, LInv, L!LimiterTypeOK, QueueMatches, InLine, Distinct,
       L!NobodyWaitsForAFreePermit, L!PermitsConserved, L!Holding
  <1>5. QED
    BY <1>2, <1>3, <1>4 DEF L!LimiterNext

-----------------------------------------------------------------------------
(* Reads keep to the limiter.                                              *)

\* A read that ends gives back what it has of the limiter, as one that
\* returns its permit or leaves the queue.
LEMMA DepartLimiter ==
    ASSUME NEW r \in Readers, NEW how, NEW row, Depart(r, how, row)
    PROVE  [L!LimiterNext]_(L!limiterVars)
  <1>1. \/ L!Release(r) \/ L!Abandon(r) \/ UNCHANGED limiter
    BY DEF Depart
  <1>2. QED
    BY <1>1 DEF limiter, L!limiterVars, L!LimiterNext

\* Every step of a read, of a sync or of a reload is a step of the limiter, or
\* none of its business.
LEMMA StepKeepsToLimiter == [Next]_vars => [L!LimiterNext]_(L!limiterVars)
  <1> SUFFICES ASSUME [Next]_vars
               PROVE  [L!LimiterNext]_(L!limiterVars)
    OBVIOUS
  <1>1. UNCHANGED limiter => UNCHANGED L!limiterVars
    BY DEF limiter, L!limiterVars
  <1>2. ASSUME NEW r \in Readers, \E named \in HostLists : Ask(r, named)
        PROVE  [L!LimiterNext]_(L!limiterVars)
    BY <1>1, <1>2 DEF Ask
  <1>3. ASSUME NEW r \in Readers, Proceed(r)
        PROVE  [L!LimiterNext]_(L!limiterVars)
    <2>1. CASE NextLock(r) \/ BeginBudget(r) \/ StartGather(r)
      BY <1>1, <2>1 DEF NextLock, BeginBudget, StartGather
    <2>2. CASE Recheck(r)
      BY <2>2, DepartLimiter DEF Recheck, L!LimiterNext
    <2>3. CASE AcquirePermit(r)
      BY <2>3 DEF AcquirePermit, L!LimiterNext
    <2>4. CASE Refreshed(r)
      BY <2>4, DepartLimiter DEF Refreshed
    <2>5. QED
      BY <1>3, <2>1, <2>2, <2>3, <2>4 DEF Proceed
  <1>4. ASSUME NEW r \in Readers, \E came \in SUBSET Hosts : GatherLands(r, came)
        PROVE  [L!LimiterNext]_(L!limiterVars)
    BY <1>1, <1>4 DEF GatherLands
  <1>5. ASSUME NEW r \in Readers, GatherFails(r) \/ Timeout(r) \/ Drop(r)
        PROVE  [L!LimiterNext]_(L!limiterVars)
    BY <1>5, DepartLimiter DEF GatherFails, Timeout, Drop
  <1>6. ASSUME NEW o \in Others, OtherSync(o)
        PROVE  [L!LimiterNext]_(L!limiterVars)
    BY <1>1, <1>6 DEF OtherSync, OtherAsks, OtherEnds
  <1>7. ASSUME NEW n \in Sizes, Resize(n)
        PROVE  [L!LimiterNext]_(L!limiterVars)
    BY <1>7, OnDemandRefreshAssumption DEF Resize, L!LimiterNext, L!Declared
  <1>8. CASE Tick
    BY <1>1, <1>8 DEF Tick
  <1>9. CASE UNCHANGED vars
    BY <1>1, <1>9 DEF vars
  <1>10. QED
    BY <1>2, <1>3, <1>4, <1>5, <1>6, <1>7, <1>8, <1>9 DEF Next

-----------------------------------------------------------------------------
(* Locks.                                                                  *)

\* Joining a lock that is held leaves it held.
LEMMA JoinKeeps ==
    ASSUME NEW lock, NEW guard, lock.holder # <<>>
    PROVE  Join(lock, guard).holder = lock.holder
  BY DEF Join

\* Only a read's own guards leave with it.
LEMMA LeaveKeeps ==
    ASSUME NEW lock, NEW r, lock.holder # <<>>, lock.holder[1] # r
    PROVE  Leave(lock, r).holder = lock.holder
  BY DEF Leave

\* A lock is kept by whoever holds it.
KeepsHolder(s) == \A h \in Hosts : \A i \in Nat :
    hostLock[h].holder = Guard(s, i) => hostLock'[h].holder = Guard(s, i)

\* Whoever waits for one takes none.
LEMMA JoinKeepsHolders ==
    ASSUME hostLock = [h \in Hosts |-> hostLock[h]], NEW g \in Hosts, NEW guard,
           hostLock' = [hostLock EXCEPT ![g] = Join(hostLock[g], guard)], NEW s
    PROVE  KeepsHolder(s)
  <1> SUFFICES ASSUME NEW h \in Hosts, NEW i \in Nat, hostLock[h].holder = <<s, i>>
               PROVE  hostLock'[h].holder = <<s, i>>
    BY DEF KeepsHolder, Guard
  <1>1. CASE h = g
    <2>1. <<s, i>> # <<>>
      OBVIOUS
    <2>2. hostLock[g].holder # <<>>
      BY <1>1, <2>1, Zenon
    <2>3. hostLock'[g] = Join(hostLock[g], guard)
      OBVIOUS
    <2>4. QED
      BY <1>1, <2>2, <2>3, JoinKeeps
  <1>2. CASE h # g
    <2>1. hostLock'[h] = hostLock[h]
      BY <1>2
    <2>2. QED
      BY <2>1
  <1>3. QED
    BY <1>1, <1>2

\* One read at a time sets out for a host.
LEMMA OneReadPerHost ==
    ASSUME IInv, NEW r \in Readers, NEW s \in Readers, pc[r] \in Locked, pc[s] \in Locked,
           NEW h, h \in still[r], h \in still[s]
    PROVE  r = s
  <1>1. \A q \in Readers : (pc[q] \in Locked /\ h \in still[q]) =>
           \E i \in Nat : hostLock[h].holder = <<q, i>>
    <2> SUFFICES ASSUME NEW q \in Readers, pc[q] \in Locked, h \in still[q]
                 PROVE  \E i \in Nat : hostLock[h].holder = <<q, i>>
      OBVIOUS
    <2>1. order[q] \in Seq(Hosts) /\ taken[q] = Len(order[q]) /\ h \in Named(order[q])
      BY DEF IInv, Typed, ReadOK, GathersWhatItLocked
    <2>2. PICK i \in 1 .. taken[q] : h = order[q][i]
      BY <2>1, LenProperties DEF Named
    <2>3. i \in Nat
      BY <2>1, <2>2, LenProperties
    <2>4. hostLock[h].holder = <<q, i>>
      BY <2>2 DEF IInv, ReadOK, GuardsHold, Guard
    <2>5. QED
      BY <2>3, <2>4
  <1>2. PICK i \in Nat : hostLock[h].holder = <<r, i>>
    BY <1>1
  <1>3. PICK j \in Nat : hostLock[h].holder = <<s, j>>
    BY <1>1
  <1>4. QED
    BY <1>2, <1>3

\* A read that a step is not about stays as it is: its locks, its place with
\* the source and the limiter, and the age of what it has found stale.
LEMMA OtherReads ==
    ASSUME IInv, NEW s \in Readers,
           pc'[s] = pc[s], order'[s] = order[s], taken'[s] = taken[s], still'[s] = still[s],
           MovesUp(at[s], at'[s]), InLine(sourceLock, s)' <=> InLine(sourceLock, s),
           KeepsHolder(s), now' \in Nat, now <= now',
           pc[s] \in {"acquiring", "syncing"} =>
               \A h \in still[s] : refreshed'[h] = refreshed[h]
    PROVE  ReadOK(s)'
  <1>1. /\ order[s] \in Seq(Hosts) /\ taken[s] \in Nat /\ still[s] \subseteq Hosts
        /\ Len(order[s]) \in Nat /\ taken[s] <= Len(order[s])
        /\ \A i \in 1 .. Len(order[s]) : order[s][i] \in Hosts
    BY LenProperties, ElementOfSeq DEF IInv, Typed, ReadOK, PlacesMatch
  <1>2. PlacesMatch(s)'
    BY DEF IInv, ReadOK, PlacesMatch, MovesUp
  <1>3. GuardsHold(s)'
    <2> SUFFICES ASSUME NEW i \in 1 .. taken[s]
                 PROVE  hostLock'[order[s][i]].holder = Guard(s, i)
      BY DEF GuardsHold, Guard
    <2>1. hostLock[order[s][i]].holder = Guard(s, i) /\ order[s][i] \in Hosts /\ i \in Nat
      BY <1>1 DEF IInv, ReadOK, GuardsHold
    <2>2. QED
      BY <2>1 DEF KeepsHolder
  <1>4. GathersWhatItLocked(s)'
    BY DEF IInv, ReadOK, GathersWhatItLocked, Named
  <1>5. StaleTillGathered(s)'
    <2> SUFFICES ASSUME pc[s] \in {"acquiring", "syncing"}, NEW h \in still[s], refreshed[h] # Never
                 PROVE  now' - refreshed[h] >= Ttl
      BY DEF StaleTillGathered, LongAgo
    <2>1. now - refreshed[h] >= Ttl
      BY DEF IInv, ReadOK, StaleTillGathered, LongAgo
    <2>2. now \in Nat /\ refreshed[h] \in Nat /\ Ttl \in Nat
      BY <1>1, OnDemandRefreshAssumption DEF IInv, Typed, RefreshedAreStamped
    <2>3. QED
      BY <2>1, <2>2
  <1>6. QED
    BY <1>2, <1>3, <1>4, <1>5 DEF ReadOK

\* A step that touches nothing the invariant is about.
LEMMA NothingMoves ==
    ASSUME IInv, UNCHANGED <<limiter, pc, order, taken, still, hostLock, sourceLock>>,
           UNCHANGED <<stamps, refreshed, now>>
    PROVE  IInv'
  <1>1. UNCHANGED L!limiterVars
    BY DEF limiter, L!limiterVars
  <1>2. LInv'
    BY <1>1, LimiterStep DEF IInv
  <1>3. Typed' /\ RefreshedAreStamped'
    BY DEF IInv, Typed, RefreshedAreStamped, Distinct
  <1>4. ASSUME NEW s \in Readers PROVE ReadOK(s)'
    BY OtherReads DEF IInv, Typed, MovesUp, InLine, KeepsHolder, limiter
  <1>5. QED
    BY <1>2, <1>3, <1>4 DEF IInv

-----------------------------------------------------------------------------
(* What the steps of a read do to the invariant.                           *)

\* A step of one read that moves neither the clock nor any data, and nobody
\* else's place.
LEMMA ReadMoves ==
    ASSUME IInv, LInv', Typed', NEW r \in Readers, UNCHANGED <<now, stamps, refreshed>>,
           ReadOK(r)',
           \A s \in Readers \ {r} :
              /\ pc'[s] = pc[s] /\ order'[s] = order[s] /\ taken'[s] = taken[s]
              /\ still'[s] = still[s]
              /\ MovesUp(at[s], at'[s]) /\ KeepsHolder(s)
              /\ InLine(sourceLock', s) <=> InLine(sourceLock, s)
    PROVE  IInv'
  <1>1. RefreshedAreStamped'
    BY DEF IInv, RefreshedAreStamped
  <1>2. now \in Nat
    BY DEF IInv, Typed
  <1>3. ASSUME NEW s \in Readers, s # r PROVE ReadOK(s)'
    BY <1>2, <1>3, OtherReads DEF InLine
  <1>4. QED
    BY <1>1, <1>3 DEF IInv

\* Who ends has left the limiter.
LEMMA DepartLeavesTheLimiter ==
    ASSUME IInv, NEW r \in Readers, pc[r] # "idle", at[r] # "settled",
           NEW how, NEW row, Depart(r, how, row)
    PROVE  LInv' /\ at'[r] = "away" /\ \A s \in Readers \ {r} : MovesUp(at[s], at'[s])
  <1>1. LInv /\ at \in [Readers -> Places]
    BY DEF IInv, LInv, L!LimiterTypeOK, Places
  <1>2. CASE at[r] = "holding"
    <2>1. L!Release(r)
      BY <1>2 DEF Depart
    <2>2. QED
      BY <1>1, <2>1, ReleaseInvariant
  <1>3. CASE at[r] = "waiting"
    <2>1. L!Abandon(r)
      BY <1>3 DEF Depart
    <2>2. at' = [at EXCEPT ![r] = "away"]
      BY <2>1 DEF L!Abandon
    <2>3. QED
      BY <1>1, <2>1, <2>2, AbandonInvariant DEF MovesUp
  <1>4. CASE at[r] = "away"
    <2>1. UNCHANGED limiter
      BY <1>4 DEF Depart
    <2>2. QED
      BY <1>1, <1>4, <2>1, LimiterStep DEF limiter, L!limiterVars, MovesUp
  <1>5. QED
    BY <1>1, <1>2, <1>3, <1>4 DEF Places

\* Who leaves the source's lock leaves the others' places.
LEMMA DepartLeavesTheSource ==
    ASSUME IInv, NEW r \in Readers, NEW how, NEW row, Depart(r, how, row)
    PROVE  /\ sourceLock' \in Seq(Readers \cup Others) /\ Distinct(sourceLock')
           /\ \A s \in Readers : InLine(sourceLock', s) <=> InLine(sourceLock, s) /\ s # r
  <1> DEFINE S == Readers \cup Others
  <1>1. /\ sourceLock \in Seq(S) /\ Distinct(sourceLock) /\ r \in S
        /\ pc[r] \in Waiting <=> InLine(sourceLock, r)
    BY DEF IInv, Typed, ReadOK, PlacesMatch
  <1>2. sourceLock' = IF pc[r] \in Waiting THEN L!Without(sourceLock, r) ELSE sourceLock
    BY DEF Depart
  <1>3. CASE pc[r] \in Waiting
    <2>1. /\ L!Without(sourceLock, r) \in Seq(S) /\ Distinct(L!Without(sourceLock, r))
          /\ \A s \in S : InLine(L!Without(sourceLock, r), s) <=> InLine(sourceLock, s) /\ s # r
      BY ONLY <1>1, <1>3, WithoutOne
    <2>2. QED
      BY <1>2, <1>3, <2>1
  <1>4. CASE pc[r] \notin Waiting
    BY <1>1, <1>2, <1>4
  <1>5. QED
    BY <1>3, <1>4

\* A read ends.
LEMMA DepartInvariant ==
    ASSUME IInv, NEW r \in Readers, pc[r] # "idle", at[r] # "settled",
           NEW how, NEW row, Depart(r, how, row), UNCHANGED stamps
    PROVE  IInv'
  <1>1. /\ pc' = [pc EXCEPT ![r] = "idle"] /\ order' = [order EXCEPT ![r] = <<>>]
        /\ taken' = [taken EXCEPT ![r] = 0] /\ still' = [still EXCEPT ![r] = {}]
        /\ hostLock' = [h \in Hosts |-> Leave(hostLock[h], r)]
        /\ UNCHANGED <<now, refreshed>>
    BY DEF Depart
  <1>2. LInv' /\ at'[r] = "away" /\ \A s \in Readers \ {r} : MovesUp(at[s], at'[s])
    BY DepartLeavesTheLimiter
  <1>3. /\ sourceLock' \in Seq(Readers \cup Others) /\ Distinct(sourceLock')
        /\ \A s \in Readers : InLine(sourceLock', s) <=> InLine(sourceLock, s) /\ s # r
    BY DepartLeavesTheSource
  <1>4. <<>> \in Seq(Hosts) /\ Len(<<>>) = 0
    BY EmptySeq
  <1>5. Typed'
    BY <1>1, <1>3, <1>4 DEF IInv, Typed
  <1>6. /\ pc'[r] = "idle" /\ order'[r] = <<>> /\ taken'[r] = 0
        /\ \A s \in Readers \ {r} : /\ pc'[s] = pc[s] /\ order'[s] = order[s]
                                    /\ taken'[s] = taken[s] /\ still'[s] = still[s]
    BY <1>1 DEF IInv, Typed
  <1>7. ASSUME NEW s \in Readers, s # r
        PROVE  KeepsHolder(s)
    <2> SUFFICES ASSUME NEW h \in Hosts, NEW i \in Nat, hostLock[h].holder = <<s, i>>
                 PROVE  hostLock'[h].holder = <<s, i>>
      BY DEF KeepsHolder, Guard
    <2>1. hostLock[h].holder # <<>> /\ hostLock[h].holder[1] # r
      BY <1>7
    <2>2. Leave(hostLock[h], r).holder = <<s, i>>
      BY <2>1, LeaveKeeps
    <2>3. QED
      BY <1>1, <2>2
  <1>8. ReadOK(r)'
    <2>1. PlacesMatch(r)'
      BY <1>2, <1>3, <1>4, <1>6 DEF PlacesMatch, Waiting, InLine
    <2>2. GuardsHold(r)'
      BY <1>6 DEF GuardsHold
    <2>3. GathersWhatItLocked(r)' /\ StaleTillGathered(r)'
      BY <1>6 DEF GathersWhatItLocked, StaleTillGathered, Locked, Waiting
    <2>4. QED
      BY <2>1, <2>2, <2>3 DEF ReadOK
  <1>9. QED
    BY <1>1, <1>2, <1>3, <1>5, <1>6, <1>7, <1>8, ReadMoves

\* A read asks: it waits for its first lock, holding none.
LEMMA AskInvariant ==
    ASSUME IInv, LInv', NEW r \in Readers, NEW named \in HostLists, Ask(r, named)
    PROVE  IInv'
  <1>1. PICK stale \in ToLock(named) :
           IF stale = <<>>
           THEN UNCHANGED read
           ELSE /\ pc' = [pc EXCEPT ![r] = "locking"]
                /\ order' = [order EXCEPT ![r] = stale]
                /\ hostLock' = [hostLock EXCEPT ![stale[1]] = Join(@, Guard(r, 1))]
                /\ UNCHANGED <<taken, still, sourceLock, before>>
    BY DEF Ask
  <1>2. pc[r] = "idle" /\ UNCHANGED <<limiter, stamps, newest, now, gathered, refreshed, watch>>
    BY DEF Ask, data
  <1>3. CASE stale = <<>>
    BY <1>1, <1>2, <1>3, NothingMoves DEF read
  <1>4. CASE stale # <<>>
    <2>1. /\ pc' = [pc EXCEPT ![r] = "locking"]
          /\ order' = [order EXCEPT ![r] = stale]
          /\ hostLock' = [hostLock EXCEPT ![stale[1]] = Join(@, Guard(r, 1))]
          /\ UNCHANGED <<taken, still, sourceLock, at>>
      BY <1>1, <1>2, <1>4 DEF limiter
    <2>2. stale \in Seq(Hosts)
      <3>1. named \in Seq(Hosts)
        BY OnDemandRefreshAssumption
      <3>2. PICK n \in 0 .. Len(named) : stale \in [1 .. n -> Hosts]
        BY <1>1 DEF ToLock
      <3>3. n \in Nat
        BY <3>1, <3>2, LenProperties
      <3>4. QED
        BY <3>2, <3>3, SeqDef
    <2>3. stale[1] \in Hosts /\ Len(stale) \in Nat
      BY <1>4, <2>2, EmptySeq, LenProperties, ElementOfSeq
    <2>4. at[r] = "away" /\ taken[r] = 0 /\ ~InLine(sourceLock, r)
      BY <1>2, EmptySeq, LenProperties DEF IInv, Typed, ReadOK, PlacesMatch, Waiting
    <2>5. Typed'
      BY <1>2, <2>1, <2>2, <2>3 DEF IInv, Typed
    <2>6. /\ pc'[r] = "locking" /\ order'[r] = stale
          /\ \A s \in Readers \ {r} : /\ pc'[s] = pc[s] /\ order'[s] = order[s]
                                      /\ taken'[s] = taken[s] /\ still'[s] = still[s]
      BY <2>1 DEF IInv, Typed
    <2>7. \A s \in Readers : KeepsHolder(s)
      BY <2>1, <2>3, JoinKeepsHolders DEF IInv, Typed
    <2>8. ReadOK(r)'
      <3>1. PlacesMatch(r)'
        BY <2>1, <2>3, <2>4, <2>6 DEF PlacesMatch, Waiting, InLine
      <3>2. GuardsHold(r)'
        BY <2>1, <2>4 DEF GuardsHold
      <3>3. GathersWhatItLocked(r)' /\ StaleTillGathered(r)'
        BY <2>6 DEF GathersWhatItLocked, StaleTillGathered, Locked, Waiting
      <3>4. QED
        BY <3>1, <3>2, <3>3 DEF ReadOK
    <2>9. QED
      BY <1>2, <2>1, <2>5, <2>6, <2>7, <2>8, ReadMoves DEF MovesUp
  <1>5. QED
    BY <1>3, <1>4

\* A read has one more of its locks and waits for the next.
LEMMA NextLockInvariant ==
    ASSUME IInv, LInv', NEW r \in Readers, NextLock(r)
    PROVE  IInv'
  <1>1. /\ pc[r] = "locking"
        /\ hostLock[order[r][taken[r] + 1]].holder = Guard(r, taken[r] + 1)
        /\ taken[r] + 1 < Len(order[r])
        /\ taken' = [taken EXCEPT ![r] = taken[r] + 1]
        /\ hostLock' = [hostLock EXCEPT ![order[r][taken[r] + 2]] = Join(@, Guard(r, taken[r] + 2))]
        /\ UNCHANGED <<at, pc, order, still, sourceLock, stamps, now, refreshed>>
    BY DEF NextLock, HasLock, limiter, data, history
  <1>2. /\ taken[r] \in Nat /\ order[r] \in Seq(Hosts) /\ Len(order[r]) \in Nat
        /\ \A i \in 1 .. Len(order[r]) : order[r][i] \in Hosts
    BY LenProperties, ElementOfSeq DEF IInv, Typed
  <1>3. order[r][taken[r] + 2] \in Hosts
    BY <1>1, <1>2
  <1>4. Typed'
    <2>1. taken' \in [Readers -> Nat]
      BY <1>1, <1>2 DEF IInv, Typed
    <2>2. hostLock' = [h \in Hosts |-> hostLock'[h]]
      BY <1>1, <1>3 DEF IInv, Typed
    <2>3. QED
      BY <1>1, <2>1, <2>2 DEF IInv, Typed, Distinct
  <1>5. \A s \in Readers : KeepsHolder(s)
    BY <1>1, <1>3, JoinKeepsHolders DEF IInv, Typed
  <1>6. taken'[r] = taken[r] + 1 /\ \A s \in Readers \ {r} : taken'[s] = taken[s]
    BY <1>1 DEF IInv, Typed
  <1>7. ReadOK(r)'
    <2>1. PlacesMatch(r)'
      BY <1>1, <1>2, <1>6 DEF IInv, ReadOK, PlacesMatch, InLine
    <2>2. GuardsHold(r)'
      <3> SUFFICES ASSUME NEW i \in 1 .. taken[r] + 1
                   PROVE  hostLock'[order[r][i]].holder = Guard(r, i)
        BY <1>1, <1>6 DEF GuardsHold, Guard
      <3>1. i \in Nat /\ order[r][i] \in Hosts
        BY <1>1, <1>2
      <3>2. hostLock[order[r][i]].holder = Guard(r, i)
        <4>1. i \in 1 .. taken[r] \/ i = taken[r] + 1
          BY <1>2
        <4>2. QED
          BY <1>1, <4>1 DEF IInv, ReadOK, GuardsHold
      <3>3. QED
        BY <1>5, <3>1, <3>2 DEF KeepsHolder
    <2>3. GathersWhatItLocked(r)' /\ StaleTillGathered(r)'
      BY <1>1 DEF GathersWhatItLocked, StaleTillGathered, Locked, Waiting
    <2>4. QED
      BY <2>1, <2>2, <2>3 DEF ReadOK
  <1>8. QED
    BY <1>1, <1>4, <1>5, <1>6, <1>7, ReadMoves DEF MovesUp

\* Under all its locks a read looks again, and has nothing to do or knows
\* what no refresh has brought back for a TTL.
LEMMA RecheckInvariant ==
    ASSUME IInv, LInv', NEW r \in Readers, Recheck(r)
    PROVE  IInv'
  <1>1. /\ pc[r] = "locking" /\ taken[r] + 1 = Len(order[r])
        /\ hostLock[order[r][taken[r] + 1]].holder = Guard(r, taken[r] + 1)
    BY DEF Recheck, HasLock
  <1>2. at[r] = "away"
    BY <1>1 DEF IInv, ReadOK, PlacesMatch
  <1>3. CASE StaleUnderLocks(r) = {}
    <2>1. Depart(r, "coalesced", newest) /\ UNCHANGED stamps
      BY <1>3 DEF Recheck
    <2>2. QED
      BY <1>1, <1>2, <2>1, DepartInvariant
  <1>4. CASE StaleUnderLocks(r) # {}
    <2>1. /\ pc' = [pc EXCEPT ![r] = "acquiring"]
          /\ taken' = [taken EXCEPT ![r] = taken[r] + 1]
          /\ still' = [still EXCEPT ![r] = StaleUnderLocks(r)]
          /\ L!Settle(r)
          /\ UNCHANGED <<order, hostLock, sourceLock, stamps, now, refreshed>>
      BY <1>4 DEF Recheck, data, history
    <2>2. at' = [at EXCEPT ![r] = "settled"] /\ at \in [Readers -> Places]
      BY <2>1 DEF L!Settle, IInv, LInv, L!LimiterTypeOK, Places
    <2>3. /\ taken[r] \in Nat /\ order[r] \in Seq(Hosts) /\ Len(order[r]) \in Nat
          /\ DOMAIN order[r] = 1 .. Len(order[r])
          /\ \A i \in 1 .. Len(order[r]) : order[r][i] \in Hosts
      BY LenProperties, ElementOfSeq DEF IInv, Typed
    <2>4. StaleUnderLocks(r) \subseteq Named(order[r]) /\ Named(order[r]) \subseteq Hosts
      BY <2>3 DEF StaleUnderLocks, Named
    <2>5. Typed'
      BY <2>1, <2>3, <2>4 DEF IInv, Typed, Waiting
    <2>6. /\ pc'[r] = "acquiring" /\ taken'[r] = taken[r] + 1 /\ still'[r] = StaleUnderLocks(r)
          /\ \A s \in Readers \ {r} : /\ pc'[s] = pc[s] /\ taken'[s] = taken[s]
                                      /\ still'[s] = still[s] /\ at'[s] = at[s]
      BY <2>1, <2>2 DEF IInv, Typed
    <2>7. ReadOK(r)'
      <3>1. PlacesMatch(r)'
        BY <1>1, <2>1, <2>3, <2>6 DEF IInv, ReadOK, PlacesMatch, InLine, Waiting
      <3>2. GuardsHold(r)'
        <4> SUFFICES ASSUME NEW i \in 1 .. taken[r] + 1
                     PROVE  hostLock[order[r][i]].holder = Guard(r, i)
          BY <2>1, <2>6 DEF GuardsHold, Guard
        <4>1. i \in 1 .. taken[r] \/ i = taken[r] + 1
          BY <2>3
        <4>2. QED
          BY <1>1, <4>1 DEF IInv, ReadOK, GuardsHold
      <3>3. GathersWhatItLocked(r)'
        BY <1>1, <2>1, <2>4, <2>6 DEF GathersWhatItLocked, Named
      <3>4. StaleTillGathered(r)'
        <4> SUFFICES ASSUME NEW h \in StaleUnderLocks(r), refreshed[h] # Never
                     PROVE  now - refreshed[h] >= Ttl
          BY <2>1, <2>6 DEF StaleTillGathered, LongAgo
        <4>1. h \in Hosts /\ Stale(h)
          BY <2>4 DEF StaleUnderLocks
        <4>2. /\ refreshed[h] \in Nat /\ stamps[h] \in Nat /\ refreshed[h] <= stamps[h]
              /\ stamps[h] # Never /\ now \in Nat /\ Ttl \in Nat
          BY <4>1, OnDemandRefreshAssumption DEF IInv, Typed, RefreshedAreStamped
        <4>3. QED
          BY <4>1, <4>2 DEF Stale
      <3>5. QED
        BY <3>1, <3>2, <3>3, <3>4 DEF ReadOK
    <2>8. \A s \in Readers : KeepsHolder(s)
      BY <2>1 DEF KeepsHolder
    <2>9. QED
      BY <2>1, <2>5, <2>6, <2>7, <2>8, ReadMoves DEF MovesUp
  <1>5. QED
    BY <1>3, <1>4

-----------------------------------------------------------------------------
(* From the permit to the data.                                            *)

\* A permit taken, or a place in the queue for one.
LEMMA AcquirePermitInvariant ==
    ASSUME IInv, LInv', NEW r \in Readers, AcquirePermit(r)
    PROVE  IInv'
  <1>1. /\ pc[r] = "acquiring"
        /\ UNCHANGED <<pc, order, taken, still, hostLock, sourceLock, stamps, now, refreshed>>
    BY DEF AcquirePermit, read, data, history
  <1>2. at \in [Readers -> Places] /\ \E p \in Places : at' = [at EXCEPT ![r] = p]
    BY DEF AcquirePermit, L!Acquire, IInv, LInv, L!LimiterTypeOK, Places
  <1>3. Typed'
    BY <1>1 DEF IInv, Typed, Distinct
  <1>4. ReadOK(r)'
    BY <1>1 DEF IInv, ReadOK, PlacesMatch, GuardsHold, GathersWhatItLocked, StaleTillGathered,
                LongAgo, InLine, Waiting
  <1>5. \A s \in Readers : KeepsHolder(s)
    BY <1>1 DEF KeepsHolder
  <1>6. QED
    BY <1>1, <1>2, <1>3, <1>4, <1>5, ReadMoves DEF MovesUp

\* With its permit a read joins the line for the source.
LEMMA BeginBudgetInvariant ==
    ASSUME IInv, LInv', NEW r \in Readers, BeginBudget(r)
    PROVE  IInv'
  <1> DEFINE S == Readers \cup Others
  <1>1. /\ pc[r] = "acquiring" /\ at[r] = "holding"
        /\ pc' = [pc EXCEPT ![r] = "syncing"]
        /\ sourceLock' = Append(sourceLock, r)
        /\ UNCHANGED <<at, order, taken, still, hostLock, stamps, now, refreshed>>
    BY DEF BeginBudget, limiter, data
  <1>2. sourceLock \in Seq(S) /\ Distinct(sourceLock) /\ r \in S /\ ~InLine(sourceLock, r)
    BY <1>1 DEF IInv, Typed, ReadOK, PlacesMatch, Waiting
  <1>3. /\ sourceLock' \in Seq(S) /\ Distinct(sourceLock')
        /\ \A s \in S : InLine(sourceLock', s) <=> InLine(sourceLock, s) \/ s = r
    BY ONLY <1>1, <1>2, Joined
  <1>4. pc'[r] = "syncing" /\ \A s \in Readers \ {r} : pc'[s] = pc[s]
    BY <1>1 DEF IInv, Typed
  <1>5. Typed'
    BY <1>1, <1>3 DEF IInv, Typed, Waiting
  <1>6. ReadOK(r)'
    <2>1. PlacesMatch(r)'
      BY <1>1, <1>3, <1>4 DEF IInv, ReadOK, PlacesMatch, InLine, Waiting
    <2>2. GuardsHold(r)' /\ GathersWhatItLocked(r)'
      BY <1>1, <1>4 DEF IInv, ReadOK, GuardsHold, GathersWhatItLocked, Locked, Waiting
    <2>3. StaleTillGathered(r)'
      BY <1>1, <1>4 DEF IInv, ReadOK, StaleTillGathered, LongAgo
    <2>4. QED
      BY <2>1, <2>2, <2>3 DEF ReadOK
  <1>7. \A s \in Readers : KeepsHolder(s)
    BY <1>1 DEF KeepsHolder
  <1>8. QED
    BY <1>1, <1>3, <1>4, <1>5, <1>6, <1>7, ReadMoves DEF MovesUp, InLine

\* Its turn with the source.
LEMMA StartGatherInvariant ==
    ASSUME IInv, LInv', NEW r \in Readers, StartGather(r)
    PROVE  IInv'
  <1>1. /\ pc[r] = "syncing" /\ pc' = [pc EXCEPT ![r] = "gathering"]
        /\ UNCHANGED <<at, order, taken, still, hostLock, sourceLock, stamps, now, refreshed>>
    BY DEF StartGather, limiter, data
  <1>2. pc'[r] = "gathering" /\ \A s \in Readers \ {r} : pc'[s] = pc[s]
    BY <1>1 DEF IInv, Typed
  <1>3. Typed'
    BY <1>1 DEF IInv, Typed, Distinct, Waiting
  <1>4. ReadOK(r)'
    BY <1>1, <1>2 DEF IInv, ReadOK, PlacesMatch, GuardsHold, GathersWhatItLocked, StaleTillGathered,
                InLine, Waiting, Locked
  <1>5. \A s \in Readers : KeepsHolder(s)
    BY <1>1 DEF KeepsHolder
  <1>6. QED
    BY <1>1, <1>2, <1>3, <1>4, <1>5, ReadMoves DEF MovesUp, InLine

\* What comes back is of hosts that no other read is about to gather.
LEMMA GatherLandsInvariant ==
    ASSUME IInv, LInv', NEW r \in Readers, NEW came \in SUBSET Hosts, GatherLands(r, came)
    PROVE  IInv'
  <1>1. /\ pc[r] = "gathering" /\ came \subseteq still[r]
        /\ pc' = [pc EXCEPT ![r] = "landed"]
        /\ stamps' = [h \in Hosts |-> IF h \in came THEN now ELSE stamps[h]]
        /\ refreshed' = [h \in Hosts |-> IF h \in came THEN now ELSE refreshed[h]]
        /\ UNCHANGED <<at, order, taken, still, hostLock, sourceLock, now>>
    BY DEF GatherLands, limiter
  <1>2. pc'[r] = "landed" /\ \A s \in Readers \ {r} : pc'[s] = pc[s]
    BY <1>1 DEF IInv, Typed
  <1>3. now \in Nat /\ Never \notin Nat
    BY OnDemandRefreshAssumption DEF IInv, Typed
  <1>4. Typed'
    BY <1>1, <1>3 DEF IInv, Typed, Distinct, Waiting
  <1>5. RefreshedAreStamped'
    <2>1. refreshed' \in [Hosts -> Nat \cup {Never}]
      BY <1>1, <1>3 DEF IInv, RefreshedAreStamped
    <2>2. ASSUME NEW h \in Hosts, refreshed'[h] # Never
          PROVE  refreshed'[h] <= now /\ stamps'[h] # Never /\ refreshed'[h] <= stamps'[h]
      <3>1. CASE h \in came
        BY <1>1, <1>3, <3>1
      <3>2. CASE h \notin came
        BY <1>1, <2>2, <3>2 DEF IInv, RefreshedAreStamped
      <3>3. QED
        BY <3>1, <3>2
    <2>3. QED
      BY <1>1, <2>1, <2>2 DEF RefreshedAreStamped
  <1>6. ASSUME NEW s \in Readers, s # r
        PROVE  ReadOK(s)'
    <2>1. ASSUME pc[s] \in {"acquiring", "syncing"}, NEW h \in still[s]
          PROVE  refreshed'[h] = refreshed[h]
      <3>1. pc[s] \in Locked /\ pc[r] \in Locked
        BY <1>1, <2>1 DEF Locked, Waiting
      <3>2. h \notin came
        BY <1>1, <1>6, <3>1, OneReadPerHost
      <3>3. h \in Hosts
        BY DEF IInv, Typed
      <3>4. QED
        BY <1>1, <3>2, <3>3
    <2>2. KeepsHolder(s) /\ now <= now' /\ now' \in Nat
      BY <1>1, <1>3 DEF KeepsHolder
    <2>3. QED
      BY <1>1, <1>2, <1>6, <2>1, <2>2, OtherReads DEF MovesUp, InLine
  <1>7. ReadOK(r)'
    BY <1>1, <1>2 DEF IInv, ReadOK, PlacesMatch, GuardsHold, GathersWhatItLocked, StaleTillGathered,
                InLine, Waiting, Locked
  <1>8. QED
    BY <1>4, <1>5, <1>6, <1>7 DEF IInv

\* A read that was answered, failed, ran out of its budget or was dropped.
LEMMA EndingInvariant ==
    ASSUME IInv, NEW r \in Readers, Refreshed(r) \/ GatherFails(r) \/ Timeout(r) \/ Drop(r)
    PROVE  IInv'
  <1>1. pc[r] \in Waiting => at[r] = "holding" /\ pc[r] # "idle"
    BY DEF IInv, ReadOK, PlacesMatch, Waiting
  <1>2. CASE Refreshed(r)
    BY <1>1, <1>2, DepartInvariant DEF Refreshed, Waiting
  <1>3. CASE GatherFails(r)
    BY <1>1, <1>3, DepartInvariant DEF GatherFails, Waiting
  <1>4. CASE Timeout(r)
    BY <1>1, <1>4, DepartInvariant DEF Timeout
  <1>5. CASE Drop(r)
    BY <1>5, DepartInvariant DEF Drop
  <1>6. QED
    BY <1>2, <1>3, <1>4, <1>5

-----------------------------------------------------------------------------
(* What others do to it.                                                   *)

\* A step of somebody else, who may stamp hosts anew and move the reads up.
LEMMA OthersMove ==
    ASSUME IInv, LInv', UNCHANGED <<pc, order, taken, still, hostLock, refreshed>>,
           now' \in Nat, now <= now',
           sourceLock' \in Seq(Readers \cup Others), Distinct(sourceLock'),
           \A s \in Readers : InLine(sourceLock', s) <=> InLine(sourceLock, s),
           \A s \in Readers : MovesUp(at[s], at'[s]),
           stamps' \in [Hosts -> 0 .. now' \cup {Never}],
           \A h \in Hosts : stamps'[h] = stamps[h] \/ stamps'[h] = now
    PROVE  IInv'
  <1>1. Typed'
    BY DEF IInv, Typed
  <1>2. RefreshedAreStamped'
    <2> SUFFICES ASSUME NEW h \in Hosts, refreshed[h] # Never
                 PROVE  /\ refreshed[h] <= now' /\ stamps'[h] # Never
                        /\ refreshed[h] <= stamps'[h]
      BY DEF IInv, RefreshedAreStamped
    <2>1. /\ refreshed[h] \in Nat /\ now \in Nat /\ Never \notin Nat
          /\ refreshed[h] <= now /\ stamps[h] # Never /\ refreshed[h] <= stamps[h]
      BY OnDemandRefreshAssumption DEF IInv, Typed, RefreshedAreStamped
    <2>2. QED
      BY <2>1
  <1>3. ASSUME NEW s \in Readers PROVE ReadOK(s)'
    <2>1. KeepsHolder(s)
      BY DEF KeepsHolder
    <2>2. QED
      BY <2>1, OtherReads DEF InLine
  <1>4. QED
    BY <1>1, <1>2, <1>3 DEF IInv

\* A sync of another origin joins the line for the source.
LEMMA OtherAsksInvariant ==
    ASSUME IInv, LInv', NEW o \in Others, OtherAsks(o)
    PROVE  IInv'
  <1> DEFINE S == Readers \cup Others
  <1>1. /\ sourceLock' = Append(sourceLock, o)
        /\ \A i \in DOMAIN sourceLock : sourceLock[i] # o
        /\ UNCHANGED <<at, pc, order, taken, still, hostLock, stamps, now, refreshed>>
    BY DEF OtherAsks, limiter, data, history
  <1>2. /\ sourceLock \in Seq(S) /\ Distinct(sourceLock) /\ o \in S /\ ~InLine(sourceLock, o)
        /\ o \notin Readers
    BY <1>1, OnDemandRefreshAssumption DEF IInv, Typed, InLine
  <1>3. /\ sourceLock' \in Seq(S) /\ Distinct(sourceLock')
        /\ \A s \in S : InLine(sourceLock', s) <=> InLine(sourceLock, s) \/ s = o
    BY ONLY <1>1, <1>2, Joined
  <1>4. now \in Nat /\ stamps \in [Hosts -> 0 .. now \cup {Never}]
    BY DEF IInv, Typed
  <1>5. QED
    BY <1>1, <1>2, <1>3, <1>4, OthersMove DEF MovesUp

\* It ends, and stamps what it brought.
LEMMA OtherEndsInvariant ==
    ASSUME IInv, LInv', NEW o \in Others, NEW hosts, NEW came, OtherEnds(o, hosts, came)
    PROVE  IInv'
  <1> DEFINE S == Readers \cup Others
  <1>1. /\ sourceLock # <<>> /\ Head(sourceLock) = o
        /\ sourceLock' = L!Without(sourceLock, o)
        /\ stamps' = [h \in Hosts |-> IF h \in came THEN now ELSE stamps[h]]
        /\ UNCHANGED <<at, pc, order, taken, still, hostLock, now, refreshed>>
    BY DEF OtherEnds, AtFront, limiter, history
  <1>2. sourceLock \in Seq(S) /\ Distinct(sourceLock) /\ o \in S /\ o \notin Readers
    BY OnDemandRefreshAssumption DEF IInv, Typed
  <1>3. InLine(sourceLock, o)
    <2>1. 1 \in DOMAIN sourceLock /\ sourceLock[1] = o
      BY <1>1, <1>2, EmptySeq, LenProperties, HeadTailProperties
    <2>2. QED
      BY <2>1 DEF InLine
  <1>4. /\ sourceLock' \in Seq(S) /\ Distinct(sourceLock')
        /\ \A s \in S : InLine(sourceLock', s) <=> InLine(sourceLock, s) /\ s # o
    BY ONLY <1>1, <1>2, <1>3, WithoutOne
  <1>5. now \in Nat /\ stamps' \in [Hosts -> 0 .. now \cup {Never}]
    BY <1>1 DEF IInv, Typed
  <1>6. QED
    BY <1>1, <1>2, <1>4, <1>5, OthersMove DEF MovesUp

\* A reload, which may give permits to those who wait, and the clock.
LEMMA ResizeTickInvariant ==
    ASSUME IInv, LInv', (\E n \in Sizes : Resize(n)) \/ Tick
    PROVE  IInv'
  <1>1. UNCHANGED <<pc, order, taken, still, hostLock, sourceLock, stamps, refreshed>>
    BY DEF Resize, Tick, read, data, history
  <1>2. /\ now \in Nat /\ stamps \in [Hosts -> 0 .. now \cup {Never}]
        /\ sourceLock \in Seq(Readers \cup Others) /\ Distinct(sourceLock)
    BY DEF IInv, Typed
  <1>3. ASSUME NEW n \in Sizes, Resize(n)
        PROVE  now' = now /\ \A s \in Readers : MovesUp(at[s], at'[s])
    <2>1. n \in L!Declared /\ L!Resize(n) /\ now' = now
      BY <1>3, OnDemandRefreshAssumption DEF Resize, L!Declared
    <2>2. QED
      BY <2>1, ResizeInvariant DEF IInv
  <1>4. CASE Tick
    BY <1>1, <1>2, <1>4, OthersMove DEF Tick, limiter, MovesUp
  <1>5. CASE \E n \in Sizes : Resize(n)
    BY <1>1, <1>2, <1>3, <1>5, OthersMove
  <1>6. QED
    BY <1>4, <1>5

-----------------------------------------------------------------------------
(* The invariant of the reads is inductive.                                *)

\* No read has begun: nothing is locked.
LEMMA InitInvariant == Init => IInv
  <1> SUFFICES ASSUME Init PROVE IInv
    OBVIOUS
  <1>1. LInv
    BY LimiterInitInvariant DEF Init
  <1>2. /\ <<>> \in Seq(Hosts) /\ <<>> \in Seq(Readers \cup Others)
        /\ Len(<<>>) = 0 /\ DOMAIN <<>> = {}
    BY EmptySeq, LenProperties
  <1>3. Typed
    BY <1>2 DEF Init, Typed, Distinct
  <1>4. RefreshedAreStamped
    BY DEF Init, RefreshedAreStamped
  <1>5. ASSUME NEW r \in Readers PROVE ReadOK(r)
    <2>1. at[r] = "away" /\ pc[r] = "idle" /\ order[r] = <<>> /\ taken[r] = 0
      BY DEF Init, L!LimiterInit
    <2>2. PlacesMatch(r)
      BY <1>2, <2>1 DEF Init, PlacesMatch, InLine, Waiting
    <2>3. GuardsHold(r) /\ GathersWhatItLocked(r) /\ StaleTillGathered(r)
      BY <2>1 DEF GuardsHold, GathersWhatItLocked, StaleTillGathered, Locked, Waiting
    <2>4. QED
      BY <2>2, <2>3 DEF ReadOK
  <1>6. QED
    BY <1>1, <1>3, <1>4, <1>5 DEF IInv

\* Every step keeps the invariant of the reads.
LEMMA NextInvariant == IInv /\ [Next]_vars => IInv'
  <1> SUFFICES ASSUME IInv, [Next]_vars PROVE IInv'
    OBVIOUS
  <1>1. LInv'
    BY StepKeepsToLimiter, LimiterStep DEF IInv
  <1>2. ASSUME NEW r \in Readers, NEW named \in HostLists, Ask(r, named)
        PROVE  IInv'
    BY <1>1, <1>2, AskInvariant
  <1>3. ASSUME NEW r \in Readers, Proceed(r)
        PROVE  IInv'
    BY <1>1, <1>3, NextLockInvariant, RecheckInvariant, AcquirePermitInvariant,
       BeginBudgetInvariant, StartGatherInvariant, EndingInvariant DEF Proceed
  <1>4. ASSUME NEW r \in Readers, NEW came \in SUBSET Hosts, GatherLands(r, came)
        PROVE  IInv'
    BY <1>1, <1>4, GatherLandsInvariant
  <1>5. ASSUME NEW r \in Readers, GatherFails(r) \/ Timeout(r) \/ Drop(r)
        PROVE  IInv'
    BY <1>5, EndingInvariant
  <1>6. ASSUME NEW o \in Others, OtherSync(o)
        PROVE  IInv'
    BY <1>1, <1>6, OtherAsksInvariant, OtherEndsInvariant DEF OtherSync
  <1>7. CASE (\E n \in Sizes : Resize(n)) \/ Tick
    BY <1>1, <1>7, ResizeTickInvariant
  <1>8. CASE UNCHANGED vars
    <2>1. UNCHANGED <<limiter, pc, order, taken, still, hostLock, sourceLock>>
      BY <1>8 DEF vars, read
    <2>2. UNCHANGED <<stamps, refreshed, now>>
      BY <1>8 DEF vars, data, history
    <2>3. QED
      BY <2>1, <2>2, NothingMoves
  <1>9. QED
    BY <1>2, <1>3, <1>4, <1>5, <1>6, <1>7, <1>8 DEF Next

\* The types of the program's state are part of it.
LEMMA InvariantTypes == IInv => TypeOK
  BY DEF IInv, LInv, Typed, ReadOK, PlacesMatch, InLine, TypeOK

\* What a read is about to set out for was stale when it had its locks, and no
\* other read could bring it back since.
LEMMA WhatIsGatheredIsStale ==
    ASSUME IInv, NEW r \in Readers, pc[r] = "syncing", NEW h \in still[r], refreshed[h] # Never
    PROVE  now - refreshed[h] >= Ttl
  BY DEF IInv, ReadOK, StaleTillGathered, LongAgo

-----------------------------------------------------------------------------
(* The theorems.                                                           *)

\* The invariant of the limiter holds in every behaviour.
THEOREM LimiterInvariant == L!LimiterSpec => []LInv
  BY LimiterInitInvariant, LimiterStep, PTL DEF L!LimiterSpec

\* Type correctness: the capacity is never zero and nothing goes negative,
\* whatever a reload declares.
THEOREM LimiterTyping == L!LimiterSpec => []L!LimiterTypeOK
  BY LimiterInvariant, PTL DEF LInv

\* Resizes, hand-overs and requests dropped while they wait neither lose nor
\* mint a permit.
THEOREM PermitsAreConserved == L!LimiterSpec => []L!PermitsConserved
  BY LimiterInvariant, PTL DEF LInv

\* No request waits beside a free permit.
THEOREM NobodyWaitsBesideAPermit == L!LimiterSpec => []L!NobodyWaitsForAFreePermit
  BY LimiterInvariant, PTL DEF LInv

\* A resize alone makes the pool larger, and only to what it declares.
THEOREM PoolGrowsAsDeclared == L!LimiterSpec => L!PoolOnlyGrowsAsDeclared
  BY LimiterInvariant, LimiterStep, PTL DEF L!LimiterSpec, L!PoolOnlyGrowsAsDeclared

\* The reads' way through locks, permit, budget, failure, timeout and hang-up
\* (refresh_hosts) implements the limiter: whatever a read does, the permits
\* move as acquire(), resize() and a dropped permit move them.
THEOREM ReadsImplementTheLimiter == Spec => ImplementsLimiter
  <1>1. Init => L!LimiterInit
    BY DEF Init
  <1>2. QED
    BY <1>1, StepKeepsToLimiter, PTL DEF Spec, ImplementsLimiter, L!LimiterSpec

\* So however reads end, time out or are dropped, what is free and what they
\* hold is the declared capacity and the debt, and none waits beside a permit.
THEOREM ReadsConservePermits == Spec => [](L!PermitsConserved /\ L!NobodyWaitsForAFreePermit)
  BY ReadsImplementTheLimiter, PermitsAreConserved, NobodyWaitsBesideAPermit, PTL
     DEF ImplementsLimiter

\* The locks of the hosts, the source's lock and the permits agree in every
\* state of any number of reads.
THEOREM ReadsInvariant == Spec => []IInv
  BY InitInvariant, NextInvariant, PTL DEF Spec

\* Two reads past their locks have no host in common: the per-host locks of
\* refresh_hosts keep a host to one of them, whatever lists they name.
THEOREM HostsAreGatheredByOne ==
    Spec => [](\A r, s \in Readers : (pc[r] \in Locked /\ pc[s] \in Locked /\ r # s)
                  => still[r] \cap still[s] = {})
  <1>1. IInv => \A r, s \in Readers : (pc[r] \in Locked /\ pc[s] \in Locked /\ r # s)
                  => still[r] \cap still[s] = {}
    BY OneReadPerHost
  <1>2. QED
    BY <1>1, ReadsInvariant, PTL

\* A read sets out for no host that a refresh brought back within the TTL: the
\* second look of refresh_hosts, under the locks, sees to it, and the state
\* has its types throughout.
THEOREM ReadsShareRefreshes == Spec => RefreshesAreShared
  <1>1. IInv => \A r \in Readers : pc[r] = "syncing" =>
                  \A h \in still[r] : refreshed[h] # Never => now - refreshed[h] >= Ttl
    BY WhatIsGatheredIsStale
  <1>2. IInv => [\A r \in Readers : (pc[r] = "syncing" /\ pc'[r] = "gathering") =>
                   \A h \in still[r] : refreshed[h] # Never => now - refreshed[h] >= Ttl]_vars
    BY <1>1
  <1>3. QED
    BY <1>2, ReadsInvariant, InvariantTypes, PTL DEF RefreshesAreShared, RefreshedOncePerTtl

-----------------------------------------------------------------------------
(* Paths into variables.                                                   *)

\* A set of naturals that is not empty has a least element.
LEMMA LeastNatural ==
  ASSUME NEW T \in SUBSET Nat, T # {}
  PROVE  \E m \in T : \A k \in T : m <= k
  <1> DEFINE R == OpToRel(<, Nat)
  <1>1. \E m \in T : \A k \in T : ~(<<k, m>> \in R)
    <2>1. IsWellFoundedOn(R, Nat)
      BY NatLessThanWellFounded
    <2> HIDE DEF R
    <2>2. QED
      BY <2>1, WFMin
  <1>2. \A k, m \in Nat : k < m => <<k, m>> \in R
    BY DEF OpToRel
  <1> HIDE DEF R
  <1>3. PICK m \in T : \A k \in T : ~(<<k, m>> \in R)
    BY <1>1
  <1>4. \A k \in T : m <= k
    <2>1. TAKE k \in T
    <2>2. k \in Nat /\ m \in Nat /\ ~(k < m)
      BY <1>2, <1>3
    <2>3. QED
      BY <2>2
  <1>5. QED
    BY <1>4

\* f is what Walk meets on the first n segments of a path below v.
Meets(f, v, path, n) ==
    f = [i \in 0..n |-> IF i = 0 THEN v ELSE Below(f[i - 1], path[i])]

\* There is one, for every value and path.
LEMMA WalksExist ==
    ASSUME NEW v, NEW path, NEW n \in Nat
    PROVE  \E f : Meets(f, v, path, n)
  <1> DEFINE Bad == {m \in Nat : ~\E f : Meets(f, v, path, m)}
  <1>1. SUFFICES ASSUME Bad # {} PROVE FALSE
    OBVIOUS
  <1>2. PICK m \in Bad : \A k \in Bad : m <= k
    <2>1. Bad \in SUBSET Nat
      OBVIOUS
    <2> HIDE DEF Bad
    <2>2. QED
      BY <1>1, <2>1, LeastNatural
  <1>3. m # 0
    <2>1. Meets([i \in 0..0 |-> v], v, path, 0)
      BY DEF Meets
    <2>2. QED
      BY <2>1
  <1>4. PICK f : Meets(f, v, path, m - 1)
    BY <1>2, <1>3
  <1> DEFINE g == [i \in 0..m |-> IF i = m THEN Below(f[m - 1], path[m]) ELSE f[i]]
  <1>5. \A i \in 0..(m - 1) : f[i] = IF i = 0 THEN v ELSE Below(f[i - 1], path[i])
    BY <1>4 DEF Meets
  <1>6. ASSUME NEW i \in 0..m
        PROVE  g[i] = IF i = 0 THEN v ELSE Below(g[i - 1], path[i])
    <2>1. CASE i = m
      <3>1. g[m - 1] = f[m - 1] /\ g[i] = Below(f[m - 1], path[m])
        BY <1>2, <1>3, <2>1
      <3>2. QED
        BY <3>1, <1>3, <2>1
    <2>2. CASE i # m
      <3>1. i \in 0..(m - 1) /\ g[i] = f[i] /\ (i # 0 => g[i - 1] = f[i - 1])
        BY <1>2, <2>2
      <3>2. QED
        BY <3>1, <1>5
    <2>3. QED
      BY <2>1, <2>2
  <1>7. g = [i \in 0..m |-> IF i = 0 THEN v ELSE Below(g[i - 1], path[i])]
    <2>1. DOMAIN g = 0..m /\ g = [i \in 0..m |-> g[i]]
      OBVIOUS
    <2> HIDE DEF g
    <2>2. QED
      BY <1>6, <2>1
  <1> HIDE DEF g
  <1>8. Meets(g, v, path, m)
    BY <1>7 DEF Meets
  <1>9. QED
    BY <1>2, <1>8

\* Two paths with a common beginning meet the same values on it.
LEMMA WalksAgree ==
    ASSUME NEW v, NEW p, NEW r, NEW m \in Nat, NEW n \in Nat, m <= n,
           \A i \in 1..m : p[i] = r[i],
           NEW f, NEW g, Meets(f, v, p, m), Meets(g, v, r, n)
    PROVE  \A i \in 0..m : f[i] = g[i]
  <1> DEFINE Bad == {i \in 0..m : f[i] # g[i]}
  <1>1. SUFFICES ASSUME Bad # {} PROVE FALSE
    OBVIOUS
  <1>2. PICK i \in Bad : \A j \in Bad : i <= j
    <2>1. Bad \in SUBSET Nat
      OBVIOUS
    <2> HIDE DEF Bad
    <2>2. QED
      BY <1>1, <2>1, LeastNatural
  <1>3. i # 0 => f[i - 1] = g[i - 1]
    BY <1>2
  <1>4. /\ f[i] = IF i = 0 THEN v ELSE Below(f[i - 1], p[i])
        /\ g[i] = IF i = 0 THEN v ELSE Below(g[i - 1], r[i])
    BY <1>2 DEF Meets
  <1>5. i # 0 => p[i] = r[i]
    BY <1>2
  <1>6. QED
    BY <1>2, <1>3, <1>4, <1>5

\* Walk is the last value met.
LEMMA WalkUnfolds ==
    ASSUME NEW v, NEW path, Len(path) \in Nat
    PROVE  \E f : Meets(f, v, path, Len(path)) /\ Walk(v, path) = f[Len(path)]
  <1> DEFINE F == CHOOSE f : Meets(f, v, path, Len(path))
  <1>1. Meets(F, v, path, Len(path))
    BY WalksExist
  <1>2. Walk(v, path) = F[Len(path)]
    BY DEF Walk, Meets
  <1>3. QED
    BY <1>1, <1>2

\* What the first segments of a path lead to.
Reached(v, path, n) == Walk(v, SubSeq(path, 1, n))

\* It is what Walk meets there.
LEMMA WalkMeets ==
    ASSUME NEW S, NEW top, NEW p \in Seq(S)
    PROVE  \E g : Meets(g, top, p, Len(p)) /\ \A i \in 0..Len(p) : Reached(top, p, i) = g[i]
  <1>1. Len(p) \in Nat
    BY LenProperties
  <1>2. PICK g : Meets(g, top, p, Len(p))
    BY <1>1, WalksExist
  <1>3. ASSUME NEW i \in 0..Len(p)
        PROVE  Reached(top, p, i) = g[i]
    <2> DEFINE start == SubSeq(p, 1, i)
    <2>1. Len(start) = i /\ \A k \in 1..i : start[k] = p[k]
      OBVIOUS
    <2> HIDE DEF start
    <2>2. PICK f : Meets(f, top, start, i) /\ Walk(top, start) = f[i]
      BY <2>1, WalkUnfolds
    <2>3. i \in Nat /\ i <= Len(p)
      BY <1>1
    <2>4. \A k \in 0..i : f[k] = g[k]
      BY <1>1, <1>2, <2>1, <2>2, <2>3, WalksAgree
    <2>5. f[i] = g[i]
      BY <2>3, <2>4
    <2>6. QED
      BY <2>2, <2>5 DEF start, Reached
  <1>4. QED
    BY <1>2, <1>3

\* Walk, segment by segment: where it starts and ends ...
LEMMA WalkStarts ==
    ASSUME NEW S, NEW top, NEW p \in Seq(S)
    PROVE  Reached(top, p, 0) = top /\ Reached(top, p, Len(p)) = Walk(top, p)
  <1>1. Len(p) \in Nat
    BY LenProperties
  <1>2. PICK g : Meets(g, top, p, Len(p)) /\ \A i \in 0..Len(p) : Reached(top, p, i) = g[i]
    BY WalkMeets
  <1>3. g[0] = top /\ Reached(top, p, 0) = g[0]
    BY <1>1, <1>2 DEF Meets
  <1>4. SubSeq(p, 1, Len(p)) = p
    OBVIOUS
  <1>5. QED
    BY <1>3, <1>4 DEF Reached

\* ... and how it goes on.
LEMMA WalkStep ==
    ASSUME NEW S, NEW top, NEW p \in Seq(S), NEW i \in 1..Len(p)
    PROVE  Reached(top, p, i) = Below(Reached(top, p, i - 1), p[i])
  <1>1. Len(p) \in Nat
    BY LenProperties
  <1>2. PICK g : Meets(g, top, p, Len(p)) /\ \A k \in 0..Len(p) : Reached(top, p, k) = g[k]
    BY WalkMeets
  <1>3. i \in 0..Len(p) /\ i - 1 \in 0..Len(p) /\ i # 0
    BY <1>1
  <1>4. g[i] = Below(g[i - 1], p[i])
    BY <1>2, <1>3 DEF Meets
  <1>5. QED
    BY <1>2, <1>3, <1>4

\* The keys of the object a path reaches with its first k - 1 segments.
KeysAt(v, path, k) == Reached(v, path, k - 1).keys

\* What is left at the end of the path, and f: what is left of the objects from
\* one place of the path on.
LeftAtEnd(v, path) ==
    LET keys == KeysAt(v, path, Len(path))
    IN Restrict(keys, DOMAIN keys \ {path[Len(path)]})

Leaves(f, v, path, from) ==
    f = [k \in from..Len(path) |->
            ObjectOf(IF k = Len(path) THEN LeftAtEnd(v, path)
                     ELSE Put(KeysAt(v, path, k), path[k], f[k + 1]))]

\* There is one, from every place on.
LEMMA LeavesExist ==
    ASSUME NEW v, NEW path, Len(path) \in Nat, NEW m \in Nat, m <= Len(path)
    PROVE  \E f : Leaves(f, v, path, Len(path) - m)
  <1> DEFINE n == Len(path)
             last == ObjectOf(LeftAtEnd(v, path))
             more(k, x) == ObjectOf(Put(KeysAt(v, path, k), path[k], x))
             Bad == {i \in 0..n : ~\E f : Leaves(f, v, path, n - i)}
  <1> HIDE DEF last
  <1>0. \A f, j : Leaves(f, v, path, j)
                   <=> f = [k \in j..n |-> IF k = n THEN last ELSE more(k, f[k + 1])]
    <2>1. ASSUME NEW f, NEW k
          PROVE  ObjectOf(IF k = n THEN LeftAtEnd(v, path)
                          ELSE Put(KeysAt(v, path, k), path[k], f[k + 1]))
                 = IF k = n THEN last ELSE more(k, f[k + 1])
      BY DEF last
    <2>2. QED
      BY <2>1 DEF Leaves
  <1> HIDE DEF more
  <1>1. SUFFICES ASSUME Bad # {} PROVE FALSE
    OBVIOUS
  <1>2. PICK i \in Bad : \A k \in Bad : i <= k
    <2>1. Bad \in SUBSET Nat
      OBVIOUS
    <2> HIDE DEF Bad
    <2>2. QED
      BY <1>1, <2>1, LeastNatural
  <1>3. i # 0
    <2> DEFINE g == [k \in n..n |-> last]
    <2>1. g = [k \in (n - 0)..n |-> IF k = n THEN last ELSE more(k, g[k + 1])]
      OBVIOUS
    <2> HIDE DEF g
    <2>2. Leaves(g, v, path, n - 0)
      BY <1>0, <2>1
    <2>3. QED
      BY <2>2
  <1>4. PICK f : Leaves(f, v, path, n - (i - 1))
    BY <1>2, <1>3
  <1> DEFINE j == n - i
             g == [k \in j..n |-> IF k = j THEN more(j, f[j + 1]) ELSE f[k]]
  <1>5. \A k \in (j + 1)..n : f[k] = IF k = n THEN last ELSE more(k, f[k + 1])
    <2>1. n - (i - 1) = j + 1
      BY <1>2
    <2>2. f = [k \in (j + 1)..n |-> IF k = n THEN last ELSE more(k, f[k + 1])]
      BY <1>0, <1>4, <2>1
    <2>3. QED
      BY <2>2
  <1>6. j \in Int /\ n \in Nat /\ j # n /\ j < n
    BY <1>2, <1>3
  <1>7. ASSUME NEW k \in j..n
        PROVE  g[k] = IF k = n THEN last ELSE more(k, g[k + 1])
    <2>1. CASE k = j
      BY <1>6, <2>1
    <2>2. CASE k # j
      <3>1. k \in (j + 1)..n /\ g[k] = f[k] /\ (k # n => g[k + 1] = f[k + 1])
        BY <1>6, <2>2
      <3>2. QED
        BY <3>1, <1>5
    <2>3. QED
      BY <2>1, <2>2
  <1>8. g = [k \in j..n |-> IF k = n THEN last ELSE more(k, g[k + 1])]
    <2>1. g = [k \in j..n |-> g[k]]
      OBVIOUS
    <2> HIDE DEF g
    <2>2. QED
      BY <1>7, <2>1
  <1> HIDE DEF g
  <1>9. Leaves(g, v, path, j)
    BY <1>0, <1>8
  <1>10. QED
    BY <1>2, <1>9

\* What RemovePath leaves, where the path leads somewhere.
LEMMA RemoveUnfolds ==
    ASSUME NEW v, NEW path, Len(path) \in Nat, Len(path) # 0, Walk(v, path) # None
    PROVE  \E f : Leaves(f, v, path, 1) /\ RemovePath(v, path) = f[1]
  <1> DEFINE F == CHOOSE f : Leaves(f, v, path, 1)
  <1>1. Leaves(F, v, path, 1)
    <2>1. \E f : Leaves(f, v, path, Len(path) - (Len(path) - 1))
      <3>1. Len(path) - 1 \in Nat /\ Len(path) - 1 <= Len(path)
        OBVIOUS
      <3>2. QED
        BY <3>1, LeavesExist
    <2>2. Len(path) - (Len(path) - 1) = 1
      OBVIOUS
    <2>3. QED
      BY <2>1, <2>2
  <1>2. RemovePath(v, path) = F[1]
    BY DEF RemovePath, Leaves, LeftAtEnd, KeysAt, Reached
  <1>3. QED
    BY <1>1, <1>2

\* The keys that are left at each place.
LEMMA LeavesKeys ==
    ASSUME NEW v, NEW path, NEW f, Leaves(f, v, path, 1), NEW k \in 1..Len(path)
    PROVE  /\ IsObject(f[k])
           /\ f[k].keys = IF k = Len(path) THEN LeftAtEnd(v, path)
                          ELSE Put(KeysAt(v, path, k), path[k], f[k + 1])
  <1> DEFINE left == IF k = Len(path) THEN LeftAtEnd(v, path)
                     ELSE Put(KeysAt(v, path, k), path[k], f[k + 1])
  <1>1. f[k] = ObjectOf(left)
    BY DEF Leaves
  <1> HIDE DEF left
  <1>2. IsObject(f[k]) /\ f[k].keys = left
    BY <1>1 DEF ObjectOf, IsObject
  <1>3. QED
    BY <1>2 DEF left

\* There is nothing below nothing.
LEMMA BelowNothing ==
    ASSUME NEW c
    PROVE  Below(None, c) = None
  BY DEF Below

\* A path that leads somewhere leads through what is there.
LEMMA WalkThrough ==
    ASSUME NEW S, NEW v, NEW path \in Seq(S), Walk(v, path) # None, NEW i \in 0..Len(path)
    PROVE  Reached(v, path, i) # None
  <1> DEFINE n == Len(path)
             P(k) == Reached(v, path, k)
             Bad == {j \in 0..n : P(n - j) = None}
  <1>1. n \in Nat
    BY LenProperties
  <1>2. P(n) # None /\ \A k \in 1..n : P(k) = Below(P(k - 1), path[k])
    BY WalkStarts, WalkStep
  <1> HIDE DEF P
  <1>3. SUFFICES ASSUME P(i) = None PROVE FALSE
    BY DEF P
  <1>4. n - i \in Bad
    <2>1. n - i \in 0..n /\ n - (n - i) = i
      BY <1>1
    <2>2. QED
      BY <1>3, <2>1
  <1>5. PICK j \in Bad : \A k \in Bad : j <= k
    <2>1. Bad \in SUBSET Nat /\ Bad # {}
      <3>1. \A k \in Bad : k \in Nat
        OBVIOUS
      <3> HIDE DEF Bad
      <3>2. QED
        BY <1>4, <3>1
    <2> HIDE DEF Bad
    <2>2. QED
      BY <2>1, LeastNatural
  <1>6. j # 0
    BY <1>1, <1>2, <1>5
  <1>7. n - j + 1 \in 1..n /\ (n - j + 1) - 1 = n - j /\ n - (j - 1) = n - j + 1
    BY <1>1, <1>5, <1>6
  <1>8. P(n - j + 1) = None
    BY <1>2, <1>5, <1>7, BelowNothing
  <1>9. j - 1 \in Bad
    BY <1>1, <1>5, <1>6, <1>7, <1>8
  <1>10. QED
    BY <1>5, <1>9

\* Removing a path takes it away and brings nothing back (remove_path).
LEMMA KeepsAway ==
    ASSUME NEW S, NEW v, NEW path \in Seq(S), path # <<>>,
           NEW T, NEW away \in Seq(T), Walk(v, away) = None \/ away = path
    PROVE  Walk(RemovePath(v, path), away) = None
  <1> DEFINE n == Len(path)
             m == Len(away)
             w == RemovePath(v, path)
             A(i) == Reached(v, away, i)
             B(i) == Reached(w, away, i)
             P(i) == Reached(v, path, i)
  <1>1. n \in Nat /\ m \in Nat /\ n # 0
    BY LenProperties
  <1> HIDE DEF w
  <1>2. /\ A(0) = v /\ A(m) = Walk(v, away)
        /\ \A i \in 1..m : A(i) = Below(A(i - 1), away[i])
    BY WalkStarts, WalkStep
  <1>3. /\ B(0) = w /\ B(m) = Walk(w, away)
        /\ \A i \in 1..m : B(i) = Below(B(i - 1), away[i])
    BY WalkStarts, WalkStep
  <1>4. /\ P(0) = v /\ P(n) = Walk(v, path)
        /\ \A i \in 1..n : P(i) = Below(P(i - 1), path[i])
    BY WalkStarts, WalkStep
  <1>5. CASE Walk(v, path) = None
    <2>1. w = v
      BY <1>5 DEF RemovePath, w
    <2>2. Walk(v, away) = None
      BY <1>5
    <2>3. QED
      BY <2>1, <2>2 DEF w
  <1>6. CASE Walk(v, path) # None
    <2>1. PICK f : Leaves(f, v, path, 1) /\ w = f[1]
      BY <1>1, <1>6, RemoveUnfolds DEF w
    <2>2. \A k \in 1..n : P(k - 1) # None /\ IsObject(P(k - 1)) /\ path[k] \in DOMAIN P(k - 1).keys
      <3>1. \A k \in 0..n : P(k) # None
        BY <1>6, WalkThrough
      <3> HIDE DEF P
      <3>2. \A k \in 1..n : k \in 0..n /\ k - 1 \in 0..n
        BY <1>1
      <3>3. \A k \in 1..n : P(k) # None /\ P(k - 1) # None /\ P(k) = Below(P(k - 1), path[k])
        BY <1>4, <3>1, <3>2
      <3>4. QED
        BY <3>3 DEF Below
    <2> DEFINE Same(i) == \A k \in 1..i : away[k] = path[k]
               OK(i) == \/ B(i) = None
                        \/ B(i) = A(i) /\ A(m) = None
                        \/ i < n /\ Same(i) /\ B(i) = f[i + 1]
               Bad == {i \in 0..m : ~OK(i)}
    <2>3. ASSUME NEW k \in 1..n
          PROVE  /\ IsObject(f[k])
                 /\ f[k].keys = IF k = n THEN LeftAtEnd(v, path)
                                ELSE Put(KeysAt(v, path, k), path[k], f[k + 1])
      BY <2>1, LeavesKeys
    <2>4. ASSUME NEW i \in 0..m, i <= n, Same(i)
          PROVE  A(i) = P(i)
      <3>1. SubSeq(away, 1, i) = SubSeq(path, 1, i)
        BY <1>1, <2>4
      <3>2. QED
        BY <3>1 DEF Reached
    <2>5. A(m) = None \/ away = path
      BY <1>2
    <2> HIDE DEF A, B, P
    <2>6. \A i \in 0..m : OK(i)
      <3>1. SUFFICES ASSUME Bad # {} PROVE FALSE
        OBVIOUS
      <3>2. PICK i \in Bad : \A k \in Bad : i <= k
        <4>1. Bad \in SUBSET Nat
          OBVIOUS
        <4> HIDE DEF Bad
        <4>2. QED
          BY <3>1, <4>1, LeastNatural
      <3>3. OK(0)
        BY <1>1, <1>3, <2>1
      <3>4. i # 0 /\ i \in 1..m /\ i - 1 \in 0..m /\ OK(i - 1)
        BY <1>1, <3>2, <3>3
      <3> DEFINE c == away[i]
      <3>5. B(i) = Below(B(i - 1), c) /\ A(i) = Below(A(i - 1), c)
        BY <1>2, <1>3, <3>4
      <3>6. B(i - 1) # None
        BY <3>2, <3>5, BelowNothing
      <3>7. ~(B(i - 1) = A(i - 1) /\ A(m) = None)
        BY <3>2, <3>5
      <3>8. i \in 1..n /\ Same(i - 1) /\ B(i - 1) = f[i]
        BY <1>1, <3>4, <3>6, <3>7
      <3>9. A(i - 1) = P(i - 1)
        BY <1>1, <2>4, <3>4, <3>8
      <3> DEFINE old == KeysAt(v, path, i)
                 new == f[i].keys
      <3>10. /\ P(i - 1) # None /\ IsObject(P(i - 1)) /\ path[i] \in DOMAIN old
             /\ old = P(i - 1).keys
        BY <2>2, <3>8 DEF P, KeysAt
      <3>11. new = IF i = n THEN Restrict(old, DOMAIN old \ {path[i]})
                   ELSE Put(old, path[i], f[i + 1])
        BY <2>3, <3>8 DEF LeftAtEnd
      <3>12. B(i) = IF c \in DOMAIN new THEN new[c] ELSE None
        BY <2>3, <3>5, <3>6, <3>8 DEF Below
      <3> HIDE DEF old, new
      <3>13. A(i) = IF c \in DOMAIN old THEN old[c] ELSE None
        BY <3>5, <3>9, <3>10 DEF Below
      <3>14. CASE c # path[i]
        <4>1. away # path
          BY <3>14
        <4>2. /\ c \in DOMAIN new <=> c \in DOMAIN old
              /\ c \in DOMAIN old => new[c] = old[c]
          BY <3>11, <3>14 DEF Restrict, Put
        <4>3. B(i) = A(i)
          BY <3>12, <3>13, <4>2
        <4>4. QED
          BY <2>5, <3>2, <4>1, <4>3
      <3>15. CASE c = path[i]
        <4>1. CASE i = n
          <5>1. c \notin DOMAIN new
            BY <3>11, <3>15, <4>1 DEF Restrict
          <5>2. QED
            BY <3>2, <3>12, <5>1
        <4>2. CASE i # n
          <5>1. B(i) = f[i + 1]
            BY <3>11, <3>12, <3>15, <4>2 DEF Put
          <5>2. Same(i)
            BY <3>8, <3>15
          <5>3. i < n
            BY <1>1, <3>8, <4>2
          <5>4. QED
            BY <3>2, <5>1, <5>2, <5>3
        <4>3. QED
          BY <4>1, <4>2
      <3>16. QED
        BY <3>14, <3>15
    <2>7. OK(m)
      BY <1>1, <2>6
    <2>8. ~(m < n /\ Same(m))
      <3>1. SUFFICES ASSUME m < n, Same(m) PROVE FALSE
        OBVIOUS
      <3>2. A(m) = P(m)
        BY <1>1, <2>4, <3>1
      <3>3. P(m) # None
        <4>1. m + 1 \in 1..n /\ (m + 1) - 1 = m
          BY <1>1, <3>1
        <4>2. QED
          BY <2>2, <4>1
      <3>4. away # path
        BY <3>1
      <3>5. QED
        BY <2>5, <3>2, <3>3, <3>4
    <2>9. B(m) = None
      BY <2>7, <2>8
    <2>10. QED
      BY <1>3, <2>9 DEF w
  <1>7. QED
    BY <1>5, <1>6

\* What is not there leads nowhere.
LEMMA NothingBelowNothing ==
    ASSUME NEW S, NEW path \in Seq(S)
    PROVE  Walk(None, path) = None
  <1>1. SUFFICES ASSUME Walk(None, path) # None PROVE FALSE
    OBVIOUS
  <1>2. Len(path) \in Nat
    BY LenProperties
  <1>3. 0 \in 0..Len(path)
    BY <1>2
  <1>4. Reached(None, path, 0) # None
    BY <1>1, <1>3, WalkThrough
  <1>5. QED
    BY <1>4, WalkStarts

\* A name's first segment, and the name of that segment alone.
LEMMA NamesRoot ==
    ASSUME NEW name, IsName(name)
    PROVE  /\ IsName(<<name[1]>>) /\ Len(<<name[1]>>) = 1
           /\ Len(name) = 1 => name = <<name[1]>>
           /\ Len(name) \in Nat /\ Len(name) # 0
           /\ Tail(name) \in Seq(Range(name))
           /\ Len(name) # 1 => Tail(name) # <<>>
  <1> DEFINE S == Range(name)
  <1>1. name \in Seq(S) /\ name # <<>>
    BY DEF IsName
  <1> HIDE DEF S
  <1>2. /\ Len(name) \in Nat /\ Len(name) # 0 /\ Tail(name) \in Seq(S)
        /\ Len(Tail(name)) = Len(name) - 1
    BY <1>1
  <1>3. Len(name) = 1 => name = <<name[1]>>
    BY <1>1
  <1> DEFINE root == <<name[1]>>
  <1>4. root # <<>> /\ Len(root) = 1 /\ DOMAIN root = {1} /\ root[1] = name[1]
    OBVIOUS
  <1>5. Range(root) = {name[1]}
    BY <1>4 DEF Range
  <1>6. root \in Seq({name[1]})
    OBVIOUS
  <1>7. IsName(root)
    BY <1>4, <1>5, <1>6 DEF IsName
  <1>8. Len(name) # 1 => Tail(name) # <<>>
    <2> DEFINE rest == Tail(name)
    <2>1. Len(rest) = Len(name) - 1
      BY <1>2
    <2> HIDE DEF rest
    <2> DEFINE k == Len(name)
               r == Len(rest)
    <2>2. rest = <<>> => r = 0
      OBVIOUS
    <2>3. k \in Nat /\ r = k - 1
      BY <1>2, <2>1
    <2> HIDE DEF k, r
    <2>4. rest = <<>> => k = 1
      BY <2>2, <2>3
    <2>5. QED
      BY <2>4 DEF k, rest
  <1>9. QED
    BY <1>2, <1>3, <1>4, <1>7, <1>8 DEF S

\* Looking a name up among plain names.
LEMMA PlainLookup ==
    ASSUME NEW held, Plain(held), NEW name, IsName(name)
    PROVE  LET root == <<name[1]>>
           IN Lookup(held, name) =
                IF Len(name) = 1 THEN IF name \in DOMAIN held THEN held[name] ELSE None
                ELSE IF root \in DOMAIN held THEN Walk(held[root], Tail(name)) ELSE None
  <1>1. name \in DOMAIN held => Len(name) = 1
    BY DEF Plain
  <1>2. Len(name) = 1 => name = <<name[1]>>
    BY NamesRoot
  <1>3. QED
    BY <1>1, <1>2 DEF Lookup

\* Dropping makes no name.
LEMMA DropKeepsPlain ==
    ASSUME NEW held, Plain(held), NEW drop
    PROVE  Plain(DropPath(held, drop))
  <1>1. DOMAIN DropPath(held, drop) \subseteq DOMAIN held
    BY DEF DropPath, Restrict
  <1>2. QED
    BY <1>1 DEF Plain

\* What was not found, and what is dropped, is not found afterwards.
LEMMA DropGone ==
    ASSUME NEW held, Plain(held), NEW drop, IsName(drop), NEW name, IsName(name),
           Lookup(held, name) = None \/ name = drop
    PROVE  Lookup(DropPath(held, drop), name) = None
  <1> DEFINE new == DropPath(held, drop)
             root == <<drop[1]>>
             own == <<name[1]>>
  <1>0. SUFFICES Lookup(new, name) = None
    OBVIOUS
  <1>1. Plain(new)
    BY DropKeepsPlain
  <1>2. /\ Len(drop) = 1 => drop = root
        /\ Len(drop) # 1 => Len(drop) > 1 /\ Tail(drop) # <<>> /\ drop \notin DOMAIN held
        /\ Tail(drop) \in Seq(Range(drop))
    <2>1. Len(drop) \in Nat /\ Len(drop) # 0
      BY NamesRoot
    <2>2. drop \in DOMAIN held => Len(drop) = 1
      BY DEF Plain
    <2>3. Len(drop) = 1 => drop = root
      BY NamesRoot
    <2>4. Len(drop) # 1 => Len(drop) > 1 /\ drop \notin DOMAIN held
      <3> DEFINE n == Len(drop)
      <3>1. n # 1 => drop \notin DOMAIN held
        BY <2>2
      <3>2. n # 1 => n > 1
        <4>1. n \in Nat /\ n # 0
          BY <2>1
        <4> HIDE DEF n
        <4>2. QED
          BY <4>1
      <3>3. QED
        BY <3>1, <3>2
    <2>5. Len(drop) # 1 => Tail(drop) # <<>>
      BY NamesRoot
    <2>6. Tail(drop) \in Seq(Range(drop))
      BY NamesRoot
    <2>7. QED
      BY <2>3, <2>4, <2>5, <2>6
  <1>3. Tail(name) \in Seq(Range(name)) /\ (Len(name) = 1 => name = own)
    BY NamesRoot
  <1> HIDE DEF new
  <1>4. Lookup(new, name) =
          IF Len(name) = 1 THEN IF name \in DOMAIN new THEN new[name] ELSE None
          ELSE IF own \in DOMAIN new THEN Walk(new[own], Tail(name)) ELSE None
    BY <1>1, PlainLookup
  <1>5. Lookup(held, name) =
          IF Len(name) = 1 THEN IF name \in DOMAIN held THEN held[name] ELSE None
          ELSE IF own \in DOMAIN held THEN Walk(held[own], Tail(name)) ELSE None
    BY PlainLookup
  <1>6. CASE drop \in DOMAIN held
    <2>1. DOMAIN new = DOMAIN held \ {drop} /\ \A n \in DOMAIN new : new[n] = held[n]
      BY <1>6 DEF new, DropPath, Restrict
    <2>2. CASE name = drop
      BY <1>2, <1>4, <1>6, <2>1, <2>2
    <2>3. CASE name # drop
      BY <1>4, <1>5, <2>1, <2>3
    <2>4. QED
      BY <2>2, <2>3
  <1>7. CASE Len(drop) # 1 /\ root \in DOMAIN held
    <2> DEFINE w == RemovePath(held[root], Tail(drop))
    <2>1. new = [held EXCEPT ![root] = w]
      BY <1>2, <1>7 DEF new, DropPath
    <2>2. \A away \in Seq(Range(name)) :
             Walk(held[root], away) = None \/ away = Tail(drop) => Walk(w, away) = None
      BY <1>2, <1>7, KeepsAway
    <2> HIDE DEF w
    <2>3. /\ DOMAIN new = DOMAIN held
          /\ \A n \in DOMAIN held : new[n] = IF n = root THEN w ELSE held[n]
      BY <2>1
    <2>4. CASE Len(name) = 1
      <3>1. CASE name \in DOMAIN held /\ name = root
        <4>1. held[root] = None
          BY <1>5, <1>7, <2>4, <3>1
        <4>2. w = None
          BY <1>2, <4>1, NothingBelowNothing DEF w, RemovePath
        <4>3. QED
          BY <1>4, <2>3, <2>4, <3>1, <4>2
      <3>2. CASE ~(name \in DOMAIN held /\ name = root)
        BY <1>4, <1>5, <1>7, <2>3, <2>4, <3>2
      <3>3. QED
        BY <3>1, <3>2
    <2>5. CASE Len(name) # 1
      <3>1. CASE own \in DOMAIN held /\ own = root
        <4>1. Walk(held[root], Tail(name)) = None \/ Tail(name) = Tail(drop)
          BY <1>5, <2>5, <3>1
        <4>2. Walk(w, Tail(name)) = None
          BY <1>3, <2>2, <4>1
        <4>3. QED
          BY <1>4, <2>3, <2>5, <3>1, <4>2
      <3>2. CASE ~(own \in DOMAIN held /\ own = root)
        <4>1. own \in DOMAIN held => name # drop
          BY <3>2
        <4>2. own \in DOMAIN held => Walk(held[own], Tail(name)) = None
          BY <1>5, <2>5, <4>1
        <4>3. QED
          BY <1>4, <2>3, <2>5, <3>2, <4>2
      <3>3. QED
        BY <3>1, <3>2
    <2>6. QED
      BY <2>4, <2>5
  <1>8. CASE drop \notin DOMAIN held /\ ~(Len(drop) # 1 /\ root \in DOMAIN held)
    <2>1. new = held
      BY <1>2, <1>8 DEF new, DropPath
    <2>2. CASE name = drop
      BY <1>2, <1>4, <1>8, <2>1, <2>2
    <2>3. CASE name # drop
      BY <1>4, <1>5, <2>1, <2>3
    <2>4. QED
      BY <2>2, <2>3
  <1>9. QED
    BY <1>6, <1>7, <1>8 DEF new

\* f is what is left without the first n names.
Drops(f, held, paths, n) ==
    f = [i \in 0..n |-> IF i = 0 THEN held ELSE DropPath(f[i - 1], paths[i])]

\* There is one, for every list of names.
LEMMA DropsExist ==
    ASSUME NEW held, NEW paths, NEW n \in Nat
    PROVE  \E f : Drops(f, held, paths, n)
  <1> DEFINE Bad == {m \in Nat : ~\E f : Drops(f, held, paths, m)}
             zero == held
             more(i, x) == DropPath(x, paths[i])
  <1> HIDE DEF zero, more
  <1>0. \A f, m : Drops(f, held, paths, m)
                   <=> f = [i \in 0..m |-> IF i = 0 THEN zero ELSE more(i, f[i - 1])]
    BY DEF Drops, zero, more
  <1>1. SUFFICES ASSUME Bad # {} PROVE FALSE
    OBVIOUS
  <1>2. PICK m \in Bad : \A k \in Bad : m <= k
    <2>1. Bad \in SUBSET Nat
      OBVIOUS
    <2> HIDE DEF Bad
    <2>2. QED
      BY <1>1, <2>1, LeastNatural
  <1>3. m # 0
    <2> DEFINE g == [i \in 0..0 |-> zero]
    <2>1. g = [i \in 0..0 |-> IF i = 0 THEN zero ELSE more(i, g[i - 1])]
      OBVIOUS
    <2> HIDE DEF g
    <2>2. Drops(g, held, paths, 0)
      BY <1>0, <2>1
    <2>3. QED
      BY <2>2
  <1>4. PICK f : Drops(f, held, paths, m - 1)
    BY <1>2, <1>3
  <1> DEFINE g == [i \in 0..m |-> IF i = m THEN more(m, f[m - 1]) ELSE f[i]]
  <1>5. \A i \in 0..(m - 1) : f[i] = IF i = 0 THEN zero ELSE more(i, f[i - 1])
    <2>1. f = [i \in 0..(m - 1) |-> IF i = 0 THEN zero ELSE more(i, f[i - 1])]
      BY <1>0, <1>4
    <2>2. QED
      BY <2>1
  <1>6. ASSUME NEW i \in 0..m
        PROVE  g[i] = IF i = 0 THEN zero ELSE more(i, g[i - 1])
    <2>1. CASE i = m
      <3>1. g[m - 1] = f[m - 1] /\ g[i] = more(m, f[m - 1])
        BY <1>2, <1>3, <2>1
      <3>2. QED
        BY <3>1, <1>3, <2>1
    <2>2. CASE i # m
      <3>1. i \in 0..(m - 1) /\ g[i] = f[i] /\ (i # 0 => g[i - 1] = f[i - 1])
        BY <1>2, <2>2
      <3>2. QED
        BY <3>1, <1>5
    <2>3. QED
      BY <2>1, <2>2
  <1>7. g = [i \in 0..m |-> IF i = 0 THEN zero ELSE more(i, g[i - 1])]
    <2>1. g = [i \in 0..m |-> g[i]]
      OBVIOUS
    <2> HIDE DEF g
    <2>2. QED
      BY <1>6, <2>1
  <1> HIDE DEF g
  <1>8. Drops(g, held, paths, m)
    BY <1>0, <1>7
  <1>9. QED
    BY <1>2, <1>8

\* DropPaths, name by name.
LEMMA DropsUnfold ==
    ASSUME NEW held, NEW paths, Len(paths) \in Nat
    PROVE  \E f : /\ DropPaths(held, paths) = f[Len(paths)]
                 /\ f[0] = held
                 /\ \A i \in 1..Len(paths) : f[i] = DropPath(f[i - 1], paths[i])
  <1> DEFINE F == CHOOSE f : Drops(f, held, paths, Len(paths))
  <1>1. Drops(F, held, paths, Len(paths))
    BY DropsExist
  <1>2. DropPaths(held, paths) = F[Len(paths)]
    BY DEF DropPaths, Drops
  <1> HIDE DEF F
  <1>3. /\ F[0] = held
        /\ \A i \in 1..Len(paths) : F[i] = DropPath(F[i - 1], paths[i])
    BY <1>1 DEF Drops
  <1>4. QED
    BY <1>2, <1>3


\* f is what is kept of the first n names.
Keeps(f, held, paths, n) ==
    f = [i \in 0..n |-> IF i = 0 THEN <<>> ELSE KeepPath(held, f[i - 1], paths[i])]

\* There is one, for every list of names.
LEMMA KeepsExist ==
    ASSUME NEW held, NEW paths, NEW n \in Nat
    PROVE  \E f : Keeps(f, held, paths, n)
  <1> DEFINE Bad == {m \in Nat : ~\E f : Keeps(f, held, paths, m)}
             zero == <<>>
             more(i, x) == KeepPath(held, x, paths[i])
  <1> HIDE DEF zero, more
  <1>0. \A f, m : Keeps(f, held, paths, m)
                   <=> f = [i \in 0..m |-> IF i = 0 THEN zero ELSE more(i, f[i - 1])]
    BY DEF Keeps, zero, more
  <1>1. SUFFICES ASSUME Bad # {} PROVE FALSE
    OBVIOUS
  <1>2. PICK m \in Bad : \A k \in Bad : m <= k
    <2>1. Bad \in SUBSET Nat
      OBVIOUS
    <2> HIDE DEF Bad
    <2>2. QED
      BY <1>1, <2>1, LeastNatural
  <1>3. m # 0
    <2> DEFINE g == [i \in 0..0 |-> zero]
    <2>1. g = [i \in 0..0 |-> IF i = 0 THEN zero ELSE more(i, g[i - 1])]
      OBVIOUS
    <2> HIDE DEF g
    <2>2. Keeps(g, held, paths, 0)
      BY <1>0, <2>1
    <2>3. QED
      BY <2>2
  <1>4. PICK f : Keeps(f, held, paths, m - 1)
    BY <1>2, <1>3
  <1> DEFINE g == [i \in 0..m |-> IF i = m THEN more(m, f[m - 1]) ELSE f[i]]
  <1>5. \A i \in 0..(m - 1) : f[i] = IF i = 0 THEN zero ELSE more(i, f[i - 1])
    <2>1. f = [i \in 0..(m - 1) |-> IF i = 0 THEN zero ELSE more(i, f[i - 1])]
      BY <1>0, <1>4
    <2>2. QED
      BY <2>1
  <1>6. ASSUME NEW i \in 0..m
        PROVE  g[i] = IF i = 0 THEN zero ELSE more(i, g[i - 1])
    <2>1. CASE i = m
      <3>1. g[m - 1] = f[m - 1] /\ g[i] = more(m, f[m - 1])
        BY <1>2, <1>3, <2>1
      <3>2. QED
        BY <3>1, <1>3, <2>1
    <2>2. CASE i # m
      <3>1. i \in 0..(m - 1) /\ g[i] = f[i] /\ (i # 0 => g[i - 1] = f[i - 1])
        BY <1>2, <2>2
      <3>2. QED
        BY <3>1, <1>5
    <2>3. QED
      BY <2>1, <2>2
  <1>7. g = [i \in 0..m |-> IF i = 0 THEN zero ELSE more(i, g[i - 1])]
    <2>1. g = [i \in 0..m |-> g[i]]
      OBVIOUS
    <2> HIDE DEF g
    <2>2. QED
      BY <1>6, <2>1
  <1> HIDE DEF g
  <1>8. Keeps(g, held, paths, m)
    BY <1>0, <1>7
  <1>9. QED
    BY <1>2, <1>8

\* KeepPaths, name by name.
LEMMA KeepsUnfold ==
    ASSUME NEW held, NEW paths, Len(paths) \in Nat
    PROVE  \E f : /\ KeepPaths(held, paths) = f[Len(paths)]
                 /\ f[0] = <<>>
                 /\ \A i \in 1..Len(paths) : f[i] = KeepPath(held, f[i - 1], paths[i])
  <1> DEFINE F == CHOOSE f : Keeps(f, held, paths, Len(paths))
  <1>1. Keeps(F, held, paths, Len(paths))
    BY KeepsExist
  <1>2. KeepPaths(held, paths) = F[Len(paths)]
    BY DEF KeepPaths, Keeps
  <1> HIDE DEF F
  <1>3. /\ F[0] = <<>>
        /\ \A i \in 1..Len(paths) : F[i] = KeepPath(held, F[i - 1], paths[i])
    BY <1>1 DEF Keeps
  <1>4. QED
    BY <1>2, <1>3

\* What exclude_fields names is gone, and the names left are still plain.
LEMMA DropsAreGone ==
    ASSUME NEW held, Plain(held), NEW paths, IsNameList(paths)
    PROVE  /\ Plain(DropPaths(held, paths))
           /\ \A i \in DOMAIN paths : Lookup(DropPaths(held, paths), paths[i]) = None
  <1> DEFINE n == Len(paths)
             S == Range(paths)
  <1>1. paths \in Seq(S) /\ \A i \in DOMAIN paths : IsName(paths[i])
    BY DEF IsNameList
  <1> HIDE DEF S
  <1>2. n \in Nat /\ DOMAIN paths = 1..n
    BY <1>1, LenProperties
  <1>3. PICK f : /\ DropPaths(held, paths) = f[n]
                 /\ f[0] = held
                 /\ \A i \in 1..n : f[i] = DropPath(f[i - 1], paths[i])
    BY <1>2, DropsUnfold
  <1> HIDE DEF n
  <1> DEFINE OK(m) == Plain(f[m]) /\ \A i \in 1..m : Lookup(f[m], paths[i]) = None
             Bad == {m \in 0..n : ~OK(m)}
  <1>4. OK(n)
    <2>1. SUFFICES ASSUME Bad # {} PROVE FALSE
      BY <1>2
    <2>2. PICK m \in Bad : \A k \in Bad : m <= k
      <3>1. Bad \in SUBSET Nat
        OBVIOUS
      <3> HIDE DEF Bad
      <3>2. QED
        BY <2>1, <3>1, LeastNatural
    <2>3. OK(0)
      BY <1>3
    <2>4. m \in 1..n /\ m - 1 \in 0..n /\ m \in Nat /\ OK(m - 1)
      BY <1>2, <2>2, <2>3
    <2>5. f[m] = DropPath(f[m - 1], paths[m]) /\ IsName(paths[m])
      BY <1>1, <1>2, <1>3, <2>4
    <2>6. Plain(f[m])
      BY <2>4, <2>5, DropKeepsPlain
    <2>7. ASSUME NEW i \in 1..m
          PROVE  Lookup(f[m], paths[i]) = None
      <3>1. i \in 1..n /\ IsName(paths[i])
        BY <1>1, <1>2, <2>4
      <3>2. Lookup(f[m - 1], paths[i]) = None \/ i = m
        BY <2>4
      <3>3. QED
        BY <2>4, <2>5, <3>1, <3>2, DropGone
    <2>8. QED
      BY <2>2, <2>6, <2>7
  <1>5. QED
    BY <1>2, <1>3, <1>4

\* What `fields` keeps stands under one segment.
LEMMA KeepsArePlain ==
    ASSUME NEW held, Plain(held), NEW paths, IsNameList(paths)
    PROVE  Plain(KeepPaths(held, paths))
  <1> DEFINE n == Len(paths)
             S == Range(paths)
  <1>1. paths \in Seq(S) /\ \A i \in DOMAIN paths : IsName(paths[i])
    BY DEF IsNameList
  <1> HIDE DEF S
  <1>2. n \in Nat /\ DOMAIN paths = 1..n
    BY <1>1, LenProperties
  <1>3. PICK f : /\ KeepPaths(held, paths) = f[n]
                 /\ f[0] = <<>>
                 /\ \A i \in 1..n : f[i] = KeepPath(held, f[i - 1], paths[i])
    BY <1>2, KeepsUnfold
  <1> HIDE DEF n
  <1> DEFINE Bad == {m \in 0..n : ~Plain(f[m])}
  <1>4. Plain(f[n])
    <2>1. SUFFICES ASSUME Bad # {} PROVE FALSE
      BY <1>2
    <2>2. PICK m \in Bad : \A k \in Bad : m <= k
      <3>1. Bad \in SUBSET Nat
        OBVIOUS
      <3> HIDE DEF Bad
      <3>2. QED
        BY <2>1, <3>1, LeastNatural
    <2>3. Plain(f[0])
      BY <1>3 DEF Plain
    <2>4. m \in 1..n /\ m - 1 \in 0..n /\ Plain(f[m - 1])
      BY <1>2, <2>2, <2>3
    <2>5. f[m] = KeepPath(held, f[m - 1], paths[m]) /\ IsName(paths[m])
      BY <1>1, <1>2, <1>3, <2>4
    <2> DEFINE out == f[m - 1]
               path == paths[m]
               root == <<path[1]>>
    <2>6. DOMAIN KeepPath(held, out, path)
             \subseteq DOMAIN out \cup {root} \cup (DOMAIN held \cap {path})
      BY DEF KeepPath, Put
    <2>7. IsName(root) /\ Len(root) = 1
      BY <2>5, NamesRoot
    <2>8. Plain(KeepPath(held, out, path))
      BY <2>4, <2>6, <2>7 DEF Plain
    <2>9. QED
      BY <2>2, <2>5, <2>8
  <1>5. QED
    BY <1>3, <1>4 DEF n

\* A host's variables come out without what is excluded ...
LEMMA ShapedHostsAreClean ==
    ASSUME NEW q, NEW held, Plain(held),
           q.fields # None => IsNameList(q.fields), IsNameList(q.exclude)
    PROVE  /\ Plain(ShapeHost(q, held))
           /\ \A i \in DOMAIN q.exclude : Lookup(ShapeHost(q, held), q.exclude[i]) = None
  <1> DEFINE kept == IF q.fields = None THEN held ELSE KeepPaths(held, q.fields)
  <1>1. Plain(kept)
    BY KeepsArePlain
  <1>2. ShapeHost(q, held) = DropPaths(kept, q.exclude)
    BY DEF ShapeHost
  <1> HIDE DEF kept
  <1>3. QED
    BY <1>1, <1>2, DropsAreGone

\* ... and so do a group's.
LEMMA ShapedGroupsAreClean ==
    ASSUME NEW q, NEW held, held # None => Plain(held), IsNameList(q.exclude),
           ShapeGroupVars(q, held) # None
    PROVE  \A i \in DOMAIN q.exclude : Lookup(ShapeGroupVars(q, held), q.exclude[i]) = None
  <1>1. held # None /\ ShapeGroupVars(q, held) = DropPaths(held, q.exclude)
    BY DEF ShapeGroupVars
  <1>2. QED
    BY <1>1, DropsAreGone

-----------------------------------------------------------------------------
(* Values, and what is left of them.                                       *)

\* A path's first segment, and then the others.
LEMMA WalkBelow ==
    ASSUME NEW S, NEW v, NEW path \in Seq(S), NEW c
    PROVE  Walk(v, <<c>> \o path) = Walk(Below(v, c), path)
  <1> DEFINE n == Len(path)
             T == S \cup {c}
             longer == <<c>> \o path
             OK(i) == Reached(v, longer, i + 1) = Reached(Below(v, c), path, i)
             Bad == {i \in 0..n : ~OK(i)}
  <1>1. n \in Nat
    BY LenProperties
  <1>2. /\ longer \in Seq(T) /\ Len(longer) = n + 1
        /\ longer[1] = c /\ \A i \in 1..n : longer[i + 1] = path[i]
    <2>1. path \in Seq(T) /\ <<c>> \in Seq(T)
      <3>1. path \in [1..n -> S]
        OBVIOUS
      <3>2. path \in [1..n -> T]
        BY <3>1
      <3>3. path \in Seq(T)
        BY <1>1, <3>2, SeqDef
      <3>4. QED
        BY <3>3
    <2>2. longer \in Seq(T) /\ Len(longer) = n + 1
      BY <2>1
    <2>3. longer[1] = c /\ \A i \in 1..n : longer[i + 1] = path[i]
      BY <2>1
    <2>4. QED
      BY <2>2, <2>3
  <1> HIDE DEF longer, T
  <1>3. OK(0)
    <2>1. Reached(v, longer, 1) = Below(Reached(v, longer, 0), c)
      <3>1. 1 \in 1..Len(longer) /\ 1 - 1 = 0
        BY <1>1, <1>2
      <3>2. \A k \in 1..Len(longer) :
               Reached(v, longer, k) = Below(Reached(v, longer, k - 1), longer[k])
        BY <1>2, WalkStep
      <3>3. QED
        BY <1>2, <3>1, <3>2
    <2>2. Reached(v, longer, 0) = v /\ Reached(Below(v, c), path, 0) = Below(v, c)
      BY <1>2, WalkStarts
    <2>3. QED
      BY <2>1, <2>2
  <1>4. OK(n)
    <2>1. SUFFICES ASSUME Bad # {} PROVE FALSE
      BY <1>1
    <2>2. PICK i \in Bad : \A k \in Bad : i <= k
      <3>1. Bad \in SUBSET Nat
        OBVIOUS
      <3> HIDE DEF Bad
      <3>2. QED
        BY <2>1, <3>1, LeastNatural
    <2>3. i \in 1..n /\ i - 1 \in 0..n /\ OK(i - 1)
      BY <1>1, <1>3, <2>2
    <2>4. Reached(v, longer, i + 1) = Below(Reached(v, longer, i), path[i])
      <3>1. i + 1 \in 1..Len(longer) /\ (i + 1) - 1 = i
        BY <1>1, <1>2, <2>3
      <3>2. Reached(v, longer, i + 1) = Below(Reached(v, longer, (i + 1) - 1), longer[i + 1])
        BY <1>2, <3>1, WalkStep
      <3>3. QED
        BY <1>2, <2>3, <3>1, <3>2
    <2>5. Reached(Below(v, c), path, i) = Below(Reached(Below(v, c), path, i - 1), path[i])
      BY <2>3, WalkStep
    <2>6. (i - 1) + 1 = i
      BY <2>3
    <2>7. QED
      BY <2>2, <2>3, <2>4, <2>5, <2>6
  <1>5. /\ Reached(v, longer, n + 1) = Walk(v, longer)
        /\ Reached(Below(v, c), path, n) = Walk(Below(v, c), path)
    BY <1>2, WalkStarts
  <1>6. QED
    BY <1>4, <1>5 DEF longer

\* w is v, or what is left of it when keys are taken out, at any depth.
LeftOf(w, v) ==
    \A path : (path \in Seq(Range(path)) /\ Walk(w, path) # None) =>
                 Walk(v, path) # None /\ Within(Walk(w, path), Walk(v, path))

\* A path of no segments leads nowhere else.
LEMMA WalkNowhere ==
    ASSUME NEW v
    PROVE  Walk(v, <<>>) = v
  <1> DEFINE path == <<>>
  <1>1. path \in Seq({}) /\ Len(path) = 0
    OBVIOUS
  <1> HIDE DEF path
  <1>2. Reached(v, path, 0) = v /\ Reached(v, path, Len(path)) = Walk(v, path)
    BY <1>1, WalkStarts
  <1>3. QED
    BY <1>1, <1>2 DEF path

LEMMA LeftOfSelf ==
    ASSUME NEW v
    PROVE  LeftOf(v, v)
  BY DEF LeftOf, Within

LEMMA LeftOfFits ==
    ASSUME NEW w, NEW v, LeftOf(w, v), w # None
    PROVE  v # None /\ Within(w, v)
  <1> DEFINE path == <<>>
  <1>1. path \in Seq(Range(path))
    OBVIOUS
  <1>2. Walk(w, path) = w /\ Walk(v, path) = v
    BY WalkNowhere
  <1> HIDE DEF path
  <1>3. QED
    BY <1>1, <1>2 DEF LeftOf

\* What is left below is left of what was below ...
LEMMA LeftOfBelow ==
    ASSUME NEW w, NEW v, LeftOf(w, v), NEW c
    PROVE  LeftOf(Below(w, c), Below(v, c))
  <1>1. SUFFICES ASSUME NEW path, path \in Seq(Range(path)), Walk(Below(w, c), path) # None
                 PROVE  /\ Walk(Below(v, c), path) # None
                        /\ Within(Walk(Below(w, c), path), Walk(Below(v, c), path))
    BY DEF LeftOf
  <1> DEFINE longer == <<c>> \o path
  <1>2. Walk(w, longer) = Walk(Below(w, c), path) /\ Walk(v, longer) = Walk(Below(v, c), path)
    BY <1>1, WalkBelow
  <1>3. longer \in Seq(Range(longer))
    <2> DEFINE T == Range(path) \cup {c}
    <2>1. <<c>> \in Seq(T)
      OBVIOUS
    <2>2. path \in Seq(T)
      <3>1. path \in [1..Len(path) -> Range(path)] /\ Len(path) \in Nat
        BY <1>1
      <3>2. path \in [1..Len(path) -> T]
        BY <3>1
      <3>3. QED
        BY <3>1, <3>2, SeqDef
    <2> HIDE DEF T
    <2>3. longer \in Seq(T)
      BY <2>1, <2>2
    <2>4. QED
      BY <2>3, SeqOfRange
  <1> HIDE DEF longer
  <1>4. QED
    BY <1>1, <1>2, <1>3 DEF LeftOf

\* ... and an object of what is left is left of the object.
LEMMA LeftOfObject ==
    ASSUME NEW f, NEW v, v # None, IsObject(v), DOMAIN f \subseteq DOMAIN v.keys,
           \A k \in DOMAIN f : LeftOf(f[k], v.keys[k])
    PROVE  LeftOf(ObjectOf(f), v)
  <1> DEFINE w == ObjectOf(f)
  <1>1. IsObject(w) /\ w.keys = f
    BY DEF ObjectOf, IsObject
  <1> HIDE DEF w
  <1>2. SUFFICES ASSUME NEW path, path \in Seq(Range(path)), Walk(w, path) # None
                 PROVE  Walk(v, path) # None /\ Within(Walk(w, path), Walk(v, path))
    BY DEF LeftOf, w
  <1>3. CASE path = <<>>
    <2>1. Walk(w, path) = w /\ Walk(v, path) = v
      BY <1>3, WalkNowhere
    <2>2. QED
      BY <1>1, <2>1 DEF Within
  <1>4. CASE path # <<>>
    <2> DEFINE c == Head(path)
               rest == Tail(path)
               S == Range(path)
    <2>1. path = <<c>> \o rest /\ rest \in Seq(S)
      BY <1>2, <1>4
    <2> HIDE DEF c, rest, S
    <2>2. Walk(w, path) = Walk(Below(w, c), rest) /\ Walk(v, path) = Walk(Below(v, c), rest)
      BY <2>1, WalkBelow
    <2>3. Below(w, c) # None
      BY <1>2, <2>1, <2>2, NothingBelowNothing
    <2>4. c \in DOMAIN f /\ Below(w, c) = f[c]
      BY <1>1, <2>3 DEF Below
    <2>5. Below(v, c) = v.keys[c]
      BY <2>4 DEF Below
    <2>6. LeftOf(f[c], v.keys[c])
      BY <2>4
    <2>7. rest \in Seq(Range(rest))
      BY <2>1, SeqOfRange
    <2>8. QED
      BY <1>2, <2>2, <2>4, <2>5, <2>6, <2>7 DEF LeftOf
  <1>5. QED
    BY <1>3, <1>4

\* What an object is, and that it is still one without some of its keys.
LEMMA Objects ==
    ASSUME NEW v \in VarValues
    PROVE  /\ v # None
           /\ IsObject(v) =>
                 /\ v = ObjectOf([k \in DOMAIN v.keys |-> v.keys[k]])
                 /\ \A k \in DOMAIN v.keys : v.keys[k] \in VarValues
                 /\ \A K \in SUBSET DOMAIN v.keys : \A f \in [K -> VarValues] :
                       (\A k \in K : Within(f[k], v.keys[k])) => ObjectOf(f) \in VarValues
  BY VarValuesAssumption

\* Below a value is a value, or nothing.
LEMMA BelowIsValue ==
    ASSUME NEW v \in VarValues \cup {None}, NEW c
    PROVE  Below(v, c) \in VarValues \cup {None}
  <1>1. CASE v # None /\ IsObject(v) /\ c \in DOMAIN v.keys
    BY <1>1, Objects DEF Below
  <1>2. CASE ~(v # None /\ IsObject(v) /\ c \in DOMAIN v.keys)
    BY <1>2 DEF Below
  <1>3. QED
    BY <1>1, <1>2

LEMMA ReachedIsValue ==
    ASSUME NEW S, NEW v \in VarValues \cup {None}, NEW path \in Seq(S), NEW i \in 0..Len(path)
    PROVE  Reached(v, path, i) \in VarValues \cup {None}
  <1> DEFINE n == Len(path)
             X == VarValues \cup {None}
             Bad == {k \in 0..n : Reached(v, path, k) \notin X}
  <1>1. n \in Nat
    BY LenProperties
  <1>2. SUFFICES ASSUME Bad # {} PROVE FALSE
    OBVIOUS
  <1>3. PICK k \in Bad : \A j \in Bad : k <= j
    <2>1. Bad \in SUBSET Nat
      OBVIOUS
    <2> HIDE DEF Bad
    <2>2. QED
      BY <1>2, <2>1, LeastNatural
  <1>4. Reached(v, path, 0) \in X
    <2>1. Reached(v, path, 0) = v
      BY WalkStarts
    <2>2. QED
      BY <2>1
  <1>5. k \in 1..n /\ k - 1 \in 0..n /\ Reached(v, path, k - 1) \in X
    BY <1>1, <1>3, <1>4
  <1>6. Reached(v, path, k) = Below(Reached(v, path, k - 1), path[k])
    BY <1>5, WalkStep
  <1>7. QED
    BY <1>3, <1>5, <1>6, BelowIsValue

\* The objects along a path that leads somewhere.
LEMMA ObjectsOnTheWay ==
    ASSUME NEW S, NEW v \in VarValues, NEW path \in Seq(S), Walk(v, path) # None,
           NEW k \in 1..Len(path)
    PROVE  LET p == Reached(v, path, k - 1)
           IN /\ p \in VarValues /\ IsObject(p) /\ path[k] \in DOMAIN p.keys
              /\ Reached(v, path, k) = p.keys[path[k]]
  <1> DEFINE p == Reached(v, path, k - 1)
  <1>1. k \in 0..Len(path) /\ k - 1 \in 0..Len(path)
    BY LenProperties
  <1>2. Reached(v, path, k) # None /\ p # None
    BY <1>1, WalkThrough
  <1>3. p \in VarValues \cup {None}
    BY <1>1, ReachedIsValue
  <1>4. Reached(v, path, k) = Below(p, path[k])
    BY WalkStep
  <1> HIDE DEF p
  <1>5. p \in VarValues /\ IsObject(p) /\ path[k] \in DOMAIN p.keys
        /\ Reached(v, path, k) = p.keys[path[k]]
    BY <1>2, <1>3, <1>4 DEF Below
  <1>6. QED
    BY <1>5 DEF p

\* What remove_path leaves of each object on its way is a value.
LEMMA LeavesValues ==
    ASSUME NEW S, NEW v \in VarValues, NEW path \in Seq(S), Walk(v, path) # None,
           NEW f, Leaves(f, v, path, 1), NEW k \in 1..Len(path)
    PROVE  f[k] \in VarValues
  <1> DEFINE n == Len(path)
             P(i) == Reached(v, path, i)
             OK(i) == f[i] \in VarValues
             Bad == {i \in 0..(n - 1) : ~OK(n - i)}
  <1>1. n \in Nat
    BY LenProperties
  <1>2. SUFFICES Bad = {}
    <2>1. n - k \in 0..(n - 1) /\ n - (n - k) = k
      BY <1>1
    <2>2. QED
      BY <2>1
  <1>3. SUFFICES ASSUME Bad # {} PROVE FALSE
    OBVIOUS
  <1>4. PICK b \in Bad : \A j \in Bad : b <= j
    <2>1. Bad \in SUBSET Nat
      OBVIOUS
    <2> HIDE DEF Bad
    <2>2. QED
      BY <1>3, <2>1, LeastNatural
  <1> DEFINE i == n - b
  <1>5. i \in 1..n /\ ~OK(i) /\ (i # n => i + 1 \in 1..n /\ OK(i + 1))
    <2>1. b \in 0..(n - 1) /\ ~OK(n - b)
      BY <1>4
    <2>2. b # 0 => b - 1 \in 0..(n - 1) /\ n - (b - 1) = (n - b) + 1
      BY <1>1, <2>1
    <2>3. b # 0 => b - 1 \notin Bad
      BY <1>1, <1>4, <2>1
    <2>4. b # 0 => OK((n - b) + 1)
      BY <2>2, <2>3
    <2>5. n - b \in 1..n /\ (n - b # n => b # 0 /\ (n - b) + 1 \in 1..n)
      BY <1>1, <2>1
    <2>6. QED
      BY <2>1, <2>4, <2>5
  <1> HIDE DEF i, Bad
  <1> DEFINE p == P(i - 1)
             new == f[i].keys
  <1>6. p \in VarValues /\ IsObject(p) /\ path[i] \in DOMAIN p.keys /\ P(i) = p.keys[path[i]]
    BY <1>5, ObjectsOnTheWay
  <1>7. /\ IsObject(f[i]) /\ f[i] = ObjectOf(new)
        /\ new = IF i = n THEN Restrict(p.keys, DOMAIN p.keys \ {path[i]})
                 ELSE Put(p.keys, path[i], f[i + 1])
    <2>1. f[i] = ObjectOf(IF i = n THEN LeftAtEnd(v, path)
                          ELSE Put(KeysAt(v, path, i), path[i], f[i + 1]))
      BY <1>5 DEF Leaves
    <2>2. f[i] = ObjectOf(f[i].keys)
      BY <2>1 DEF ObjectOf
    <2>3. /\ IsObject(f[i])
          /\ f[i].keys = IF i = n THEN LeftAtEnd(v, path)
                         ELSE Put(KeysAt(v, path, i), path[i], f[i + 1])
      BY <1>5, LeavesKeys
    <2>4. QED
      BY <2>2, <2>3 DEF LeftAtEnd, KeysAt
  <1>8. i # n => Within(f[i + 1], P(i))
    <2>1. SUFFICES ASSUME i # n PROVE Within(f[i + 1], P(i))
      OBVIOUS
    <2> DEFINE j == i + 1
               o == P(i)
    <2>2. j \in 1..n /\ j - 1 = i
      BY <1>5, <2>1
    <2> HIDE DEF j
    <2>3. o \in VarValues /\ IsObject(o) /\ path[j] \in DOMAIN o.keys
      BY <2>2, ObjectsOnTheWay
    <2>4. /\ IsObject(f[j])
          /\ f[j].keys = IF j = n THEN Restrict(o.keys, DOMAIN o.keys \ {path[j]})
                         ELSE Put(o.keys, path[j], f[j + 1])
      <3>1. /\ IsObject(f[j])
            /\ f[j].keys = IF j = n THEN LeftAtEnd(v, path)
                           ELSE Put(KeysAt(v, path, j), path[j], f[j + 1])
        BY <2>2, LeavesKeys
      <3>2. KeysAt(v, path, j) = o.keys
        BY <2>2 DEF KeysAt
      <3>3. j = n => LeftAtEnd(v, path) = Restrict(o.keys, DOMAIN o.keys \ {path[j]})
        BY <3>2 DEF LeftAtEnd
      <3>4. QED
        BY <3>1, <3>2, <3>3
    <2> HIDE DEF o
    <2>5. DOMAIN f[j].keys \subseteq DOMAIN o.keys
      BY <2>3, <2>4 DEF Restrict, Put
    <2>6. QED
      BY <2>3, <2>4, <2>5 DEF Within, j, o
  <1> HIDE DEF p, P, n, new
  <1> DEFINE K == DOMAIN new
  <1>9. new \in [K -> VarValues] /\ K \subseteq DOMAIN p.keys
        /\ \A x \in K : Within(new[x], p.keys[x])
    <2>1. CASE i = n
      BY <1>6, <1>7, <2>1, Objects DEF Restrict, Within
    <2>2. CASE i # n
      BY <1>5, <1>6, <1>7, <1>8, <2>2, Objects DEF Put, Within
    <2>3. QED
      BY <2>1, <2>2
  <1>10. ObjectOf(new) \in VarValues
    BY <1>6, <1>9, Objects
  <1>11. QED
    BY <1>5, <1>7, <1>10

\* One path begins with another, segment by segment.
LEMMA PrefixIs ==
    ASSUME NEW S, NEW T, NEW s \in Seq(S), NEW t \in Seq(T)
    PROVE  IsPrefix(s, t) <=> Len(s) <= Len(t) /\ \A i \in 1..Len(s) : s[i] = t[i]
  <1>1. Len(s) \in Nat /\ Len(t) \in Nat
    BY LenProperties
  <1>2. SubSeq(s, 1, Len(s)) = s
    OBVIOUS
  <1>3. CASE Len(s) <= Len(t)
    <2> DEFINE u == SubSeq(t, 1, Len(s))
    <2>1. /\ u = [i \in 1..Len(s) |-> t[i]]
          /\ s = [i \in 1..Len(s) |-> s[i]]
      BY <1>1, <1>3
    <2> HIDE DEF u
    <2>2. s = u <=> \A i \in 1..Len(s) : s[i] = t[i]
      BY <2>1
    <2>3. QED
      BY <1>2, <1>3, <2>2 DEF IsPrefix, u
  <1>4. CASE ~(Len(s) <= Len(t))
    BY <1>4 DEF IsPrefix
  <1>5. QED
    BY <1>3, <1>4

\* A path that leads nowhere leads nowhere from there on.
LEMMA NowhereFromThere ==
    ASSUME NEW v, NEW S, NEW path \in Seq(S), NEW T, NEW on \in Seq(T), IsPrefix(path, on),
           Walk(v, path) = None
    PROVE  Walk(v, on) = None
  <1>1. SUFFICES ASSUME Walk(v, on) # None PROVE FALSE
    OBVIOUS
  <1>2. Len(path) \in Nat /\ Len(on) \in Nat /\ Len(path) <= Len(on)
        /\ \A i \in 1..Len(path) : path[i] = on[i]
    BY PrefixIs, LenProperties
  <1>3. Len(path) \in 0..Len(on)
    BY <1>2
  <1>4. Reached(v, on, Len(path)) # None
    BY <1>1, <1>3, WalkThrough
  <1>5. SubSeq(on, 1, Len(path)) = path
    <2>1. SubSeq(path, 1, Len(path)) = path
      OBVIOUS
    <2>2. QED
      BY <2>1 DEF IsPrefix
  <1>6. QED
    BY <1>4, <1>5 DEF Reached

\* What remove_path leaves of a value is one.
LEMMA RemoveIsValue ==
    ASSUME NEW S, NEW v \in VarValues, NEW path \in Seq(S), path # <<>>
    PROVE  RemovePath(v, path) \in VarValues
  <1>1. CASE Walk(v, path) = None
    BY <1>1 DEF RemovePath
  <1>2. CASE Walk(v, path) # None
    <2>1. Len(path) \in Nat /\ Len(path) # 0 /\ 1 \in 1..Len(path)
      BY LenProperties
    <2>2. PICK f : Leaves(f, v, path, 1) /\ RemovePath(v, path) = f[1]
      BY <1>2, <2>1, RemoveUnfolds
    <2>3. f[1] \in VarValues
      BY <1>2, <2>1, <2>2, LeavesValues
    <2>4. QED
      BY <2>2, <2>3
  <1>3. QED
    BY <1>1, <1>2

\* Removing a path changes nothing elsewhere (remove_path).
LEMMA RemoveSpares ==
    ASSUME NEW S, NEW v \in VarValues, NEW path \in Seq(S), path # <<>>,
           NEW T, NEW away \in Seq(T), ~IsPrefix(path, away), ~IsPrefix(away, path)
    PROVE  Walk(RemovePath(v, path), away) = Walk(v, away)
  <1> DEFINE n == Len(path)
             m == Len(away)
             w == RemovePath(v, path)
             A(i) == Reached(v, away, i)
             B(i) == Reached(w, away, i)
             P(i) == Reached(v, path, i)
  <1>1. n \in Nat /\ m \in Nat /\ n # 0
    BY LenProperties
  <1>2. CASE Walk(v, path) = None
    BY <1>2 DEF RemovePath
  <1>3. CASE Walk(v, path) # None
    <2>1. PICK f : Leaves(f, v, path, 1) /\ w = f[1]
      BY <1>1, <1>3, RemoveUnfolds
    <2>2. \A k \in 1..n : f[k] \in VarValues
      BY <1>3, <2>1, LeavesValues
    <2> HIDE DEF w
    <2>3. /\ A(0) = v /\ A(m) = Walk(v, away)
          /\ \A i \in 1..m : A(i) = Below(A(i - 1), away[i])
      BY WalkStarts, WalkStep
    <2>4. /\ B(0) = w /\ B(m) = Walk(w, away)
          /\ \A i \in 1..m : B(i) = Below(B(i - 1), away[i])
      BY WalkStarts, WalkStep
    <2> DEFINE Same(i) == \A k \in 1..i : away[k] = path[k]
               OK(i) == B(i) = A(i) \/ (i < n /\ Same(i) /\ B(i) = f[i + 1])
               Bad == {i \in 0..m : ~OK(i)}
    <2>5. ASSUME NEW k \in 1..n
          PROVE  /\ IsObject(f[k])
                 /\ f[k].keys = IF k = n THEN LeftAtEnd(v, path)
                                ELSE Put(KeysAt(v, path, k), path[k], f[k + 1])
      BY <2>1, LeavesKeys
    <2>6. \A k \in 1..n :
             /\ P(k - 1) \in VarValues /\ IsObject(P(k - 1)) /\ path[k] \in DOMAIN P(k - 1).keys
             /\ P(k) = P(k - 1).keys[path[k]]
      BY <1>3, ObjectsOnTheWay
    <2>7. ASSUME NEW i \in 0..m, i <= n, Same(i)
          PROVE  A(i) = P(i)
      <3>1. SubSeq(away, 1, i) = SubSeq(path, 1, i)
        BY <1>1, <2>7
      <3>2. QED
        BY <3>1 DEF Reached
    <2>8. \A i \in 0..m : ~(n <= i /\ Same(n)) /\ ~(m <= n /\ Same(m))
      BY <1>1, PrefixIs
    <2> HIDE DEF A, B, P
    <2>9. \A i \in 0..m : OK(i)
      <3>1. SUFFICES ASSUME Bad # {} PROVE FALSE
        OBVIOUS
      <3>2. PICK i \in Bad : \A k \in Bad : i <= k
        <4>1. Bad \in SUBSET Nat
          OBVIOUS
        <4> HIDE DEF Bad
        <4>2. QED
          BY <3>1, <4>1, LeastNatural
      <3>3. OK(0)
        BY <1>1, <2>1, <2>4
      <3>4. i # 0 /\ i \in 1..m /\ i - 1 \in 0..m /\ OK(i - 1)
        BY <1>1, <3>2, <3>3
      <3> DEFINE c == away[i]
      <3>5. B(i) = Below(B(i - 1), c) /\ A(i) = Below(A(i - 1), c)
        BY <2>3, <2>4, <3>4
      <3>6. i \in 1..n /\ Same(i - 1) /\ B(i - 1) = f[i]
        <4>1. B(i - 1) # A(i - 1)
          BY <3>2, <3>5
        <4>2. QED
          BY <1>1, <3>4, <4>1
      <3>7. A(i - 1) = P(i - 1)
        BY <1>1, <2>7, <3>4, <3>6
      <3> DEFINE old == KeysAt(v, path, i)
                 new == f[i].keys
      <3>8. /\ P(i - 1) # None /\ IsObject(P(i - 1)) /\ path[i] \in DOMAIN old
            /\ old = P(i - 1).keys
        <4>1. P(i - 1) \in VarValues
          BY <2>6, <3>6
        <4>2. P(i - 1) # None
          BY <4>1, Objects
        <4>3. QED
          BY <2>6, <3>6, <4>2 DEF P, KeysAt
      <3>9. new = IF i = n THEN Restrict(old, DOMAIN old \ {path[i]})
                  ELSE Put(old, path[i], f[i + 1])
        BY <2>5, <3>6 DEF LeftAtEnd
      <3>10. f[i] # None
        <4>1. f[i] \in VarValues
          BY <2>2, <3>6
        <4>2. QED
          BY <4>1, Objects
      <3>11. B(i) = IF c \in DOMAIN new THEN new[c] ELSE None
        BY <2>5, <3>5, <3>6, <3>10 DEF Below
      <3> HIDE DEF old, new
      <3>12. A(i) = IF c \in DOMAIN old THEN old[c] ELSE None
        BY <3>5, <3>7, <3>8 DEF Below
      <3>13. CASE c # path[i]
        <4>1. /\ c \in DOMAIN new <=> c \in DOMAIN old
              /\ c \in DOMAIN old => new[c] = old[c]
          BY <3>9, <3>13 DEF Restrict, Put
        <4>2. B(i) = A(i)
          BY <3>11, <3>12, <4>1
        <4>3. QED
          BY <3>2, <4>2
      <3>14. CASE c = path[i]
        <4>1. Same(i)
          BY <3>6, <3>14
        <4>2. i # n
          BY <1>1, <2>8, <3>4, <4>1
        <4>3. B(i) = f[i + 1]
          BY <3>9, <3>11, <3>14, <4>2 DEF Put
        <4>4. i < n
          BY <1>1, <3>6, <4>2
        <4>5. QED
          BY <3>2, <4>1, <4>3, <4>4
      <3>15. QED
        BY <3>13, <3>14
    <2>10. B(m) = A(m)
      <3>1. OK(m) /\ ~(m < n /\ Same(m))
        BY <1>1, <2>8, <2>9
      <3>2. QED
        BY <3>1
    <2>11. QED
      BY <2>3, <2>4, <2>10 DEF w
  <1>4. QED
    BY <1>2, <1>3

-----------------------------------------------------------------------------
(* Names that go.                                                          *)

\* Variables: values under names; and no dotted one of them on p's way.
HoldsValues(held) == \A k \in DOMAIN held : IsName(k) /\ held[k] \in VarValues

Clear(held, p) == \A k \in DOMAIN held : Len(k) > 1 => ~IsPrefix(k, p) /\ ~IsPrefix(p, k)

\* A name begins with another when their first segments are one and the rest of
\* it begins with the other's.
LEMMA PrefixOfNames ==
    ASSUME NEW e, IsName(e), NEW p, IsName(p)
    PROVE  /\ IsPrefix(e, p) <=> e[1] = p[1] /\ IsPrefix(Tail(e), Tail(p))
           /\ Len(e) = 1 => (IsPrefix(e, p) <=> e[1] = p[1])
           /\ IsPrefix(p, p)
  <1> DEFINE n == Len(e)
             m == Len(p)
             d == Tail(e)
             q == Tail(p)
             S == Range(e)
             T == Range(p)
  <1>1. e \in Seq(S) /\ e # <<>> /\ p \in Seq(T) /\ p # <<>>
    BY DEF IsName
  <1> HIDE DEF S, T
  <1>2. /\ n \in Nat /\ n # 0 /\ m \in Nat /\ m # 0
        /\ d \in Seq(S) /\ Len(d) = n - 1 /\ \A i \in 1..(n - 1) : d[i] = e[i + 1]
        /\ q \in Seq(T) /\ Len(q) = m - 1 /\ \A i \in 1..(m - 1) : q[i] = p[i + 1]
    BY <1>1
  <1> HIDE DEF d, q
  <1>3. IsPrefix(e, p) <=> n <= m /\ \A i \in 1..n : e[i] = p[i]
    BY <1>1, PrefixIs
  <1>4. IsPrefix(d, q) <=> n - 1 <= m - 1 /\ \A i \in 1..(n - 1) : d[i] = q[i]
    BY <1>2, PrefixIs
  <1>5. IsPrefix(p, p)
    BY <1>1, <1>2, PrefixIs
  <1> HIDE DEF n, m
  <1>6. ASSUME n <= m
        PROVE  (\A i \in 1..n : e[i] = p[i])
                 <=> e[1] = p[1] /\ \A i \in 1..(n - 1) : d[i] = q[i]
    <2>1. ASSUME \A i \in 1..n : e[i] = p[i], NEW i \in 1..(n - 1)
          PROVE  d[i] = q[i]
      <3>1. i + 1 \in 1..n /\ i \in 1..(m - 1)
        BY <1>2, <1>6
      <3>2. QED
        BY <1>2, <2>1, <3>1
    <2>2. ASSUME e[1] = p[1], \A i \in 1..(n - 1) : d[i] = q[i], NEW i \in 1..n
          PROVE  e[i] = p[i]
      <3>1. CASE i = 1
        BY <2>2, <3>1
      <3>2. CASE i # 1
        <4>1. i - 1 \in 1..(n - 1) /\ i - 1 \in 1..(m - 1) /\ (i - 1) + 1 = i
          BY <1>2, <1>6, <3>2
        <4>2. d[i - 1] = e[(i - 1) + 1] /\ q[i - 1] = p[(i - 1) + 1] /\ d[i - 1] = q[i - 1]
          BY <1>2, <2>2, <4>1
        <4>3. QED
          BY <4>1, <4>2
      <3>3. QED
        BY <3>1, <3>2
    <2>3. 1 \in 1..n
      BY <1>2
    <2>4. QED
      BY <2>1, <2>2, <2>3
  <1>7. IsPrefix(e, p) <=> e[1] = p[1] /\ IsPrefix(d, q)
    BY <1>2, <1>3, <1>4, <1>6
  <1>8. n = 1 => (IsPrefix(e, p) <=> e[1] = p[1])
    BY <1>2, <1>3
  <1>9. QED
    BY <1>5, <1>7, <1>8 DEF n, d, q

\* Looking up a name that no dotted name is in the way of.
LEMMA ClearLookup ==
    ASSUME NEW held, NEW p, IsName(p), Clear(held, p)
    PROVE  Lookup(held, p) =
              IF <<p[1]>> \in DOMAIN held THEN Walk(held[<<p[1]>>], Tail(p)) ELSE None
  <1> DEFINE root == <<p[1]>>
  <1>1. p \in DOMAIN held => ~(Len(p) > 1)
    BY PrefixOfNames DEF Clear
  <1>2. Len(p) \in Nat /\ Len(p) # 0 /\ (Len(p) = 1 => p = root)
    BY NamesRoot
  <1>3. p \in DOMAIN held => p = root /\ Len(p) = 1
    <2>1. \A n \in Nat : n # 0 /\ ~(n > 1) => n = 1
      OBVIOUS
    <2>2. QED
      BY <1>1, <1>2, <2>1
  <1>4. p = root => Tail(p) = <<>>
    <2>1. \A x : Tail(<<x>>) = <<>>
      OBVIOUS
    <2>2. QED
      BY <2>1
  <1> HIDE DEF root
  <1>5. CASE p \in DOMAIN held
    <2>1. Lookup(held, p) = held[p]
      BY <1>5 DEF Lookup
    <2>2. p = root /\ Tail(p) = <<>>
      BY <1>3, <1>4, <1>5
    <2>3. Walk(held[root], Tail(p)) = held[root]
      BY <2>2, WalkNowhere
    <2>4. QED
      BY <1>5, <2>1, <2>2, <2>3 DEF root
  <1>6. CASE p \notin DOMAIN held
    BY <1>6 DEF Lookup
  <1>7. QED
    BY <1>5, <1>6

\* One name that goes takes what it begins, and nothing else (remove_path).
LEMMA DropOnce ==
    ASSUME NEW held, HoldsValues(held), NEW p, IsName(p), Clear(held, p), NEW e, IsName(e)
    PROVE  LET new == DropPath(held, e)
           IN /\ HoldsValues(new) /\ Clear(new, p)
              /\ IsPrefix(e, p) \/ Lookup(held, p) = None => Lookup(new, p) = None
              /\ ~IsPrefix(e, p) /\ ~IsPrefix(p, e) => Lookup(new, p) = Lookup(held, p)
  <1> DEFINE new == DropPath(held, e)
             root == <<p[1]>>
             own == <<e[1]>>
             d == Tail(e)
             q == Tail(p)
  <1>1. /\ Len(e) \in Nat /\ Len(e) # 0 /\ (Len(e) = 1 => e = own) /\ Len(own) = 1
        /\ d \in Seq(Range(e)) /\ (Len(e) # 1 => d # <<>>)
        /\ q \in Seq(Range(p))
    BY NamesRoot
  <1>2. /\ IsPrefix(e, p) <=> e[1] = p[1] /\ IsPrefix(d, q)
        /\ IsPrefix(p, e) <=> p[1] = e[1] /\ IsPrefix(q, d)
        /\ Len(e) = 1 => (IsPrefix(e, p) <=> e[1] = p[1])
    BY PrefixOfNames
  <1>3. own = root <=> e[1] = p[1]
    OBVIOUS
  <1>4. Len(e) # 1 => Len(e) > 1
    <2>1. \A n \in Nat : n # 0 /\ n # 1 => n > 1
      OBVIOUS
    <2>2. QED
      BY <1>1, <2>1
  <1>5. Lookup(held, p) = IF root \in DOMAIN held THEN Walk(held[root], q) ELSE None
    BY ClearLookup
  <1>6. DOMAIN new \subseteq DOMAIN held
    BY DEF DropPath, Restrict
  <1>7. Clear(new, p)
    BY <1>6 DEF Clear
  <1> HIDE DEF new
  <1>8. Lookup(new, p) = IF root \in DOMAIN new THEN Walk(new[root], q) ELSE None
    BY <1>7, ClearLookup
  <1> HIDE DEF d, q, own, root
  <1>10. CASE e \in DOMAIN held
    <2>1. DOMAIN new = DOMAIN held \ {e} /\ \A k \in DOMAIN new : new[k] = held[k]
      BY <1>10 DEF new, DropPath, Restrict
    <2>2. HoldsValues(new)
      BY <2>1 DEF HoldsValues
    <2>3. CASE root = e
      <3>1. Lookup(new, p) = None
        BY <1>8, <2>1, <2>3
      <3>2. IsPrefix(e, p)
        <4>1. Len(e) = 1 /\ e[1] = p[1]
          BY <2>3 DEF root
        <4>2. QED
          BY <1>2, <4>1
      <3>3. QED
        BY <1>7, <2>2, <3>1, <3>2 DEF new
    <2>4. CASE root # e
      <3>1. Lookup(new, p) = Lookup(held, p)
        BY <1>5, <1>8, <2>1, <2>4
      <3>2. ~IsPrefix(e, p)
        <4>1. CASE Len(e) = 1
          BY <1>1, <1>2, <1>3, <2>4, <4>1
        <4>2. CASE Len(e) # 1
          BY <1>4, <1>10, <4>2 DEF Clear
        <4>3. QED
          BY <4>1, <4>2
      <3>3. QED
        BY <1>7, <2>2, <3>1, <3>2 DEF new
    <2>5. QED
      BY <2>3, <2>4
  <1>11. CASE e \notin DOMAIN held /\ Len(e) # 1 /\ own \in DOMAIN held
    <2> DEFINE v == held[own]
               w == RemovePath(v, d)
    <2>1. new = [held EXCEPT ![own] = w]
      BY <1>4, <1>11 DEF new, DropPath, own, d
    <2>2. v \in VarValues /\ d # <<>>
      BY <1>1, <1>11 DEF HoldsValues
    <2>3. w \in VarValues
      BY <1>1, <2>2, RemoveIsValue
    <2>4. /\ Walk(w, d) = None
          /\ Walk(v, q) = None => Walk(w, q) = None
      BY <1>1, <2>2, KeepsAway
    <2>5. IsPrefix(d, q) => Walk(w, q) = None
      BY <1>1, <2>4, NowhereFromThere
    <2>6. ~IsPrefix(d, q) /\ ~IsPrefix(q, d) => Walk(w, q) = Walk(v, q)
      BY <1>1, <2>2, RemoveSpares
    <2> HIDE DEF w
    <2>7. DOMAIN new = DOMAIN held /\ \A k \in DOMAIN held : new[k] = IF k = own THEN w ELSE held[k]
      BY <2>1
    <2>8. HoldsValues(new)
      BY <2>3, <2>7 DEF HoldsValues
    <2>9. CASE root = own
      <3>1. Lookup(held, p) = Walk(v, q) /\ Lookup(new, p) = Walk(w, q)
        BY <1>5, <1>8, <1>11, <2>7, <2>9
      <3>2. /\ IsPrefix(e, p) <=> IsPrefix(d, q)
            /\ IsPrefix(p, e) <=> IsPrefix(q, d)
        BY <1>2, <1>3, <2>9
      <3>3. QED
        BY <1>7, <2>4, <2>5, <2>6, <2>8, <3>1, <3>2 DEF new
    <2>10. CASE root # own
      <3>1. Lookup(new, p) = Lookup(held, p) /\ ~IsPrefix(e, p)
        BY <1>2, <1>3, <1>5, <1>8, <2>7, <2>10
      <3>2. QED
        BY <1>7, <2>8, <3>1 DEF new
    <2>11. QED
      BY <2>9, <2>10
  <1>12. CASE e \notin DOMAIN held /\ ~(Len(e) # 1 /\ own \in DOMAIN held)
    <2>1. new = held
      BY <1>1, <1>12 DEF new, DropPath, own
    <2>2. own \notin DOMAIN held
      BY <1>1, <1>12
    <2>3. IsPrefix(e, p) => Lookup(held, p) = None
      BY <1>2, <1>3, <1>5, <2>2
    <2>4. QED
      BY <1>7, <2>1, <2>3 DEF new
  <1>13. QED
    BY <1>10, <1>11, <1>12

\* So do many: what a list of names begins is gone, what it does not touch is
\* as it was.
LEMMA DropsAway ==
    ASSUME NEW held, HoldsValues(held), NEW p, IsName(p), Clear(held, p),
           NEW paths, IsNameList(paths)
    PROVE  LET new == DropPaths(held, paths)
           IN /\ (\E i \in DOMAIN paths : IsPrefix(paths[i], p)) \/ Lookup(held, p) = None
                    => Lookup(new, p) = None
              /\ (\A i \in DOMAIN paths : ~IsPrefix(paths[i], p) /\ ~IsPrefix(p, paths[i]))
                    => Lookup(new, p) = Lookup(held, p)
  <1> DEFINE n == Len(paths)
             S == Range(paths)
             took(i) == IsPrefix(paths[i], p)
             near(i) == IsPrefix(paths[i], p) \/ IsPrefix(p, paths[i])
  <1>1. paths \in Seq(S) /\ \A i \in DOMAIN paths : IsName(paths[i])
    BY DEF IsNameList
  <1> HIDE DEF S
  <1>2. n \in Nat /\ DOMAIN paths = 1..n
    BY <1>1, LenProperties
  <1>3. PICK f : /\ DropPaths(held, paths) = f[n]
                 /\ f[0] = held
                 /\ \A i \in 1..n : f[i] = DropPath(f[i - 1], paths[i])
    <2>1. Len(paths) \in Nat
      BY <1>2
    <2>2. \E f : /\ DropPaths(held, paths) = f[Len(paths)]
                 /\ f[0] = held
                 /\ \A i \in 1..Len(paths) : f[i] = DropPath(f[i - 1], paths[i])
      BY <2>1, DropsUnfold
    <2>3. QED
      BY <2>2
  <1> HIDE DEF n
  <1> DEFINE found(m) == Lookup(f[m], p)
             gone(m) == found(0) = None \/ \E i \in 1..m : took(i)
             away(m) == \A i \in 1..m : ~near(i)
             OK(m) == /\ HoldsValues(f[m]) /\ Clear(f[m], p)
                      /\ gone(m) => found(m) = None
                      /\ away(m) => found(m) = found(0)
             Bad == {m \in 0..n : ~OK(m)}
  <1>4. OK(n)
    <2>1. SUFFICES ASSUME Bad # {} PROVE FALSE
      BY <1>2
    <2>2. PICK m \in Bad : \A k \in Bad : m <= k
      <3>1. Bad \in SUBSET Nat
        OBVIOUS
      <3> HIDE DEF Bad
      <3>2. QED
        BY <2>1, <3>1, LeastNatural
    <2>3. OK(0)
      BY <1>3
    <2>4. m \in 1..n /\ m - 1 \in 0..n /\ m \in Nat /\ OK(m - 1)
      BY <1>2, <2>2, <2>3
    <2>5. f[m] = DropPath(f[m - 1], paths[m]) /\ IsName(paths[m])
      BY <1>1, <1>2, <1>3, <2>4
    <2>6. HoldsValues(f[m - 1]) /\ Clear(f[m - 1], p)
      BY <2>4
    <2>7. /\ HoldsValues(f[m]) /\ Clear(f[m], p)
          /\ took(m) \/ found(m - 1) = None => found(m) = None
          /\ ~near(m) => found(m) = found(m - 1)
      BY <2>5, <2>6, DropOnce
    <2> HIDE DEF found, took, near
    <2>8. gone(m) => gone(m - 1) \/ took(m)
      <3>1. \A i \in 1..m : i = m \/ i \in 1..(m - 1)
        BY <2>4
      <3>2. QED
        BY <3>1
    <2>9. away(m) => away(m - 1) /\ ~near(m)
      <3>1. m \in 1..m /\ \A i \in 1..(m - 1) : i \in 1..m
        BY <2>4
      <3>2. QED
        BY <3>1
    <2>10. OK(m)
      BY <2>4, <2>7, <2>8, <2>9
    <2>11. QED
      BY <2>2, <2>10
  <1>5. found(0) = Lookup(held, p) /\ found(n) = Lookup(DropPaths(held, paths), p)
    BY <1>3
  <1> HIDE DEF found
  <1>6. QED
    BY <1>2, <1>4, <1>5

-----------------------------------------------------------------------------
(* Names that are kept.                                                    *)

\* What stands at a place of insert_path's way: an object is made where nothing is.
Place(v, path, k) == IF Reached(v, path, k) = None THEN EmptyObject ELSE Reached(v, path, k)

\* f: what is put at each place of the path, from one place on.
Grows(f, v, path, value, from) ==
    f = [k \in from..Len(path) |->
            IF k = Len(path) THEN value
            ELSE IF IsObject(Place(v, path, k))
                 THEN ObjectOf(Put(Place(v, path, k).keys, path[k + 1], f[k + 1]))
            ELSE Place(v, path, k)]

\* There is one, from every place on.
LEMMA GrowsExist ==
    ASSUME NEW v, NEW path, NEW value, Len(path) \in Nat, NEW m \in Nat, m <= Len(path)
    PROVE  \E f : Grows(f, v, path, value, Len(path) - m)
  <1> DEFINE n == Len(path)
             more(k, x) == IF IsObject(Place(v, path, k))
                           THEN ObjectOf(Put(Place(v, path, k).keys, path[k + 1], x))
                           ELSE Place(v, path, k)
             Bad == {i \in 0..n : ~\E f : Grows(f, v, path, value, n - i)}
  <1>0. \A f, j : Grows(f, v, path, value, j)
                   <=> f = [k \in j..n |-> IF k = n THEN value ELSE more(k, f[k + 1])]
    BY DEF Grows
  <1> HIDE DEF more
  <1>1. SUFFICES ASSUME Bad # {} PROVE FALSE
    OBVIOUS
  <1>2. PICK i \in Bad : \A k \in Bad : i <= k
    <2>1. Bad \in SUBSET Nat
      OBVIOUS
    <2> HIDE DEF Bad
    <2>2. QED
      BY <1>1, <2>1, LeastNatural
  <1>3. i # 0
    <2> DEFINE g == [k \in n..n |-> value]
    <2>1. g = [k \in (n - 0)..n |-> IF k = n THEN value ELSE more(k, g[k + 1])]
      OBVIOUS
    <2> HIDE DEF g
    <2>2. Grows(g, v, path, value, n - 0)
      BY <1>0, <2>1
    <2>3. QED
      BY <2>2
  <1>4. PICK f : Grows(f, v, path, value, n - (i - 1))
    <2>1. i - 1 \in 0..n /\ ~(i <= i - 1)
      BY <1>2, <1>3
    <2>2. i - 1 \notin Bad
      BY <1>2, <2>1
    <2>3. QED
      BY <2>1, <2>2
  <1> DEFINE j == n - i
             g == [k \in j..n |-> IF k = j THEN more(j, f[j + 1]) ELSE f[k]]
  <1>5. \A k \in (j + 1)..n : f[k] = IF k = n THEN value ELSE more(k, f[k + 1])
    <2>1. n - (i - 1) = j + 1
      BY <1>2
    <2>2. f = [k \in (j + 1)..n |-> IF k = n THEN value ELSE more(k, f[k + 1])]
      BY <1>0, <1>4, <2>1
    <2>3. QED
      BY <2>2
  <1>6. j \in Int /\ n \in Nat /\ j # n /\ j < n
    BY <1>2, <1>3
  <1>7. ASSUME NEW k \in j..n
        PROVE  g[k] = IF k = n THEN value ELSE more(k, g[k + 1])
    <2>1. CASE k = j
      BY <1>6, <2>1
    <2>2. CASE k # j
      <3>1. k \in (j + 1)..n /\ g[k] = f[k] /\ (k # n => g[k + 1] = f[k + 1])
        BY <1>6, <2>2
      <3>2. QED
        BY <3>1, <1>5
    <2>3. QED
      BY <2>1, <2>2
  <1>8. g = [k \in j..n |-> IF k = n THEN value ELSE more(k, g[k + 1])]
    <2>1. g = [k \in j..n |-> g[k]]
      OBVIOUS
    <2> HIDE DEF g
    <2>2. QED
      BY <1>7, <2>1
  <1> HIDE DEF g
  <1>9. Grows(g, v, path, value, j)
    BY <1>0, <1>8
  <1>10. QED
    BY <1>2, <1>9

\* InsertPath, place by place.
LEMMA InsertUnfolds ==
    ASSUME NEW v, NEW path, NEW value, Len(path) \in Nat, Len(path) # 0
    PROVE  \E f : Grows(f, v, path, value, 0) /\ InsertPath(v, path, value) = f[0]
  <1> DEFINE F == CHOOSE f : Grows(f, v, path, value, 0)
  <1>1. Grows(F, v, path, value, 0)
    <2>1. \E f : Grows(f, v, path, value, Len(path) - Len(path))
      <3>1. Len(path) <= Len(path)
        OBVIOUS
      <3>2. QED
        BY <3>1, GrowsExist
    <2>2. Len(path) - Len(path) = 0
      OBVIOUS
    <2>3. QED
      BY <2>1, <2>2
  <1>2. InsertPath(v, path, value) = F[0]
    BY DEF InsertPath, Grows, Place, Reached
  <1>3. QED
    BY <1>1, <1>2

\* What is left leads to what is left.
LEMMA ReachedLeft ==
    ASSUME NEW S, NEW w, NEW v, LeftOf(w, v), NEW path \in Seq(S), NEW i \in 0..Len(path)
    PROVE  LeftOf(Reached(w, path, i), Reached(v, path, i))
  <1> DEFINE n == Len(path)
             OK(k) == LeftOf(Reached(w, path, k), Reached(v, path, k))
             Bad == {k \in 0..n : ~OK(k)}
  <1>1. n \in Nat
    BY LenProperties
  <1>2. SUFFICES ASSUME Bad # {} PROVE FALSE
    OBVIOUS
  <1>3. PICK k \in Bad : \A j \in Bad : k <= j
    <2>1. Bad \in SUBSET Nat
      OBVIOUS
    <2> HIDE DEF Bad
    <2>2. QED
      BY <1>2, <2>1, LeastNatural
  <1>4. OK(0)
    <2>1. Reached(w, path, 0) = w /\ Reached(v, path, 0) = v
      BY WalkStarts
    <2>2. QED
      BY <2>1
  <1>5. k \in 1..n /\ k - 1 \in 0..n /\ OK(k - 1)
    BY <1>1, <1>3, <1>4
  <1>6. /\ Reached(w, path, k) = Below(Reached(w, path, k - 1), path[k])
        /\ Reached(v, path, k) = Below(Reached(v, path, k - 1), path[k])
    BY <1>5, WalkStep
  <1>7. OK(k)
    BY <1>5, <1>6, LeftOfBelow
  <1>8. QED
    BY <1>3, <1>7

\* An object with nothing in it is left of any.
LEMMA EmptyIsLeft ==
    ASSUME NEW v \in VarValues, IsObject(v)
    PROVE  /\ EmptyObject \in VarValues /\ IsObject(EmptyObject) /\ LeftOf(EmptyObject, v)
           /\ DOMAIN EmptyObject.keys = {} /\ EmptyObject = ObjectOf(EmptyObject.keys)
  <1> DEFINE f == <<>>
  <1>1. DOMAIN f = {} /\ f \in [{} -> VarValues]
    OBVIOUS
  <1> HIDE DEF f
  <1>2. /\ EmptyObject = ObjectOf(f) /\ IsObject(EmptyObject) /\ EmptyObject.keys = f
        /\ ObjectOf(EmptyObject.keys) = ObjectOf(f)
    BY DEF EmptyObject, ObjectOf, IsObject, f
  <1>3. ObjectOf(f) \in VarValues
    BY <1>1, Objects
  <1>4. LeftOf(ObjectOf(f), v)
    BY <1>1, Objects, LeftOfObject
  <1>5. QED
    BY <1>1, <1>2, <1>3, <1>4

\* What stands at a place on the way, before and after.
LEMMA GrowStep ==
    ASSUME NEW S, NEW u \in VarValues, NEW v \in VarValues, LeftOf(v, u),
           NEW path \in Seq(S), Walk(u, path) # None,
           NEW f, Grows(f, v, path, Walk(u, path), 0),
           NEW k \in 0..(Len(path) - 1)
    PROVE  LET o == Reached(u, path, k)
               h == Place(v, path, k)
               c == path[k + 1]
           IN /\ o \in VarValues /\ IsObject(o) /\ c \in DOMAIN o.keys
              /\ Reached(u, path, k + 1) = o.keys[c]
              /\ h \in VarValues /\ IsObject(h) /\ LeftOf(h, o)
              /\ DOMAIN h.keys \subseteq DOMAIN o.keys
              /\ IsObject(f[k]) /\ f[k].keys = Put(h.keys, c, f[k + 1])
              /\ f[k] = ObjectOf(f[k].keys)
  <1> DEFINE n == Len(path)
             o == Reached(u, path, k)
             h == Place(v, path, k)
             c == path[k + 1]
             r == Reached(v, path, k)
  <1>1. n \in Nat /\ k + 1 \in 1..n /\ (k + 1) - 1 = k /\ k \in 0..n /\ k # n
    BY LenProperties
  <1>2. o \in VarValues /\ IsObject(o) /\ c \in DOMAIN o.keys
        /\ Reached(u, path, k + 1) = o.keys[c]
    <2>1. \A i \in 1..n : LET p == Reached(u, path, i - 1)
             IN /\ p \in VarValues /\ IsObject(p) /\ path[i] \in DOMAIN p.keys
                /\ Reached(u, path, i) = p.keys[path[i]]
      BY ObjectsOnTheWay
    <2>2. QED
      BY <1>1, <2>1
  <1>3. r \in VarValues \cup {None} /\ LeftOf(r, o)
    BY <1>1, ReachedIsValue, ReachedLeft
  <1>4. h = IF r = None THEN EmptyObject ELSE r
    BY DEF Place
  <1>5. f[k] = IF k = n THEN Walk(u, path)
               ELSE IF IsObject(h) THEN ObjectOf(Put(h.keys, c, f[k + 1])) ELSE h
    <2>1. \A i \in 0..n :
             f[i] = IF i = n THEN Walk(u, path)
                    ELSE IF IsObject(Place(v, path, i))
                         THEN ObjectOf(Put(Place(v, path, i).keys, path[i + 1], f[i + 1]))
                    ELSE Place(v, path, i)
      BY DEF Grows
    <2>2. QED
      BY <1>1, <2>1
  <1> HIDE DEF o, h, c, r, n
  <1>6. h \in VarValues /\ IsObject(h) /\ LeftOf(h, o) /\ DOMAIN h.keys \subseteq DOMAIN o.keys
    <2>1. CASE r = None
      <3>1. h = EmptyObject
        BY <1>4, <2>1
      <3>2. /\ EmptyObject \in VarValues /\ IsObject(EmptyObject) /\ LeftOf(EmptyObject, o)
            /\ DOMAIN EmptyObject.keys = {}
        BY <1>2, EmptyIsLeft
      <3>3. QED
        BY <3>1, <3>2
    <2>2. CASE r # None
      <3>1. h = r /\ h \in VarValues
        BY <1>3, <1>4, <2>2
      <3>2. Within(r, o)
        BY <1>3, <2>2, LeftOfFits
      <3>3. QED
        BY <1>2, <1>3, <3>1, <3>2 DEF Within
    <2>3. QED
      BY <2>1, <2>2
  <1>7. f[k] = ObjectOf(Put(h.keys, c, f[k + 1]))
    BY <1>1, <1>5, <1>6
  <1>8. IsObject(f[k]) /\ f[k].keys = Put(h.keys, c, f[k + 1]) /\ f[k] = ObjectOf(f[k].keys)
    BY <1>7 DEF ObjectOf, IsObject
  <1>9. QED
    BY <1>2, <1>6, <1>8 DEF o, h, c

\* What is put back at each place is a value, and left of what was there.
LEMMA GrowsLeft ==
    ASSUME NEW S, NEW u \in VarValues, NEW v \in VarValues, LeftOf(v, u),
           NEW path \in Seq(S), Walk(u, path) # None,
           NEW f, Grows(f, v, path, Walk(u, path), 0),
           NEW k \in 0..Len(path)
    PROVE  f[k] \in VarValues /\ LeftOf(f[k], Reached(u, path, k))
  <1> DEFINE n == Len(path)
             OK(i) == f[i] \in VarValues /\ LeftOf(f[i], Reached(u, path, i))
             Bad == {i \in 0..n : ~OK(n - i)}
  <1>1. n \in Nat
    BY LenProperties
  <1>2. SUFFICES Bad = {}
    <2>1. n - k \in 0..n /\ n - (n - k) = k
      BY <1>1
    <2>2. QED
      BY <2>1
  <1>3. SUFFICES ASSUME Bad # {} PROVE FALSE
    OBVIOUS
  <1>4. PICK b \in Bad : \A j \in Bad : b <= j
    <2>1. Bad \in SUBSET Nat
      OBVIOUS
    <2> HIDE DEF Bad
    <2>2. QED
      BY <1>3, <2>1, LeastNatural
  <1>5. OK(n)
    <2>1. n \in 0..n
      BY <1>1
    <2>2. f[n] = Walk(u, path)
      BY <2>1 DEF Grows
    <2>3. Reached(u, path, n) = Walk(u, path)
      BY WalkStarts
    <2>4. Reached(u, path, n) \in VarValues \cup {None}
      BY <2>1, ReachedIsValue
    <2>5. QED
      BY <2>2, <2>3, <2>4, LeftOfSelf
  <1> DEFINE i == n - b
  <1>6. i \in 0..(n - 1) /\ i + 1 \in 0..n /\ ~OK(i) /\ OK(i + 1)
    <2>1. b \in 0..n /\ ~OK(n - b)
      BY <1>4
    <2>2. b # 0
      BY <1>1, <1>5, <2>1
    <2>3. b - 1 \in 0..n /\ n - (b - 1) = (n - b) + 1
      BY <1>1, <2>1, <2>2
    <2>4. b - 1 \notin Bad
      BY <1>1, <1>4, <2>1
    <2>5. OK((n - b) + 1)
      BY <2>3, <2>4
    <2>6. n - b \in 0..(n - 1) /\ (n - b) + 1 \in 0..n
      BY <1>1, <2>1, <2>2
    <2>7. QED
      BY <2>1, <2>5, <2>6
  <1> HIDE DEF i, Bad
  <1> DEFINE o == Reached(u, path, i)
             h == Place(v, path, i)
             c == path[i + 1]
             g == f[i].keys
  <1>7. /\ o \in VarValues /\ IsObject(o) /\ c \in DOMAIN o.keys
        /\ Reached(u, path, i + 1) = o.keys[c]
        /\ h \in VarValues /\ IsObject(h) /\ LeftOf(h, o)
        /\ DOMAIN h.keys \subseteq DOMAIN o.keys
        /\ IsObject(f[i]) /\ g = Put(h.keys, c, f[i + 1])
        /\ f[i] = ObjectOf(g)
    BY <1>6, GrowStep
  <1>8. f[i + 1] \in VarValues /\ LeftOf(f[i + 1], o.keys[c])
    BY <1>6, <1>7
  <1> HIDE DEF o, h, c, g
  <1>9. /\ DOMAIN g = DOMAIN h.keys \cup {c}
        /\ \A x \in DOMAIN g : g[x] = IF x = c THEN f[i + 1] ELSE h.keys[x]
    BY <1>7 DEF Put
  <1>10. ASSUME NEW x \in DOMAIN g
         PROVE  /\ x \in DOMAIN o.keys /\ g[x] \in VarValues
                /\ LeftOf(g[x], o.keys[x]) /\ Within(g[x], o.keys[x])
    <2>1. x \in DOMAIN o.keys
      BY <1>7, <1>9
    <2>2. g[x] \in VarValues /\ LeftOf(g[x], o.keys[x])
      <3>1. CASE x = c
        BY <1>8, <1>9, <3>1
      <3>2. CASE x # c
        <4>1. x \in DOMAIN h.keys /\ g[x] = h.keys[x]
          BY <1>9, <3>2
        <4>2. h.keys[x] \in VarValues /\ h # None /\ o # None
          BY <1>7, <4>1, Objects
        <4>3. Below(h, x) = h.keys[x] /\ Below(o, x) = o.keys[x]
          BY <1>7, <2>1, <4>1, <4>2 DEF Below
        <4>4. LeftOf(Below(h, x), Below(o, x))
          BY <1>7, LeftOfBelow
        <4>5. QED
          BY <4>1, <4>2, <4>3, <4>4
      <3>3. QED
        BY <3>1, <3>2
    <2>3. g[x] # None
      BY <2>2, Objects
    <2>4. Within(g[x], o.keys[x])
      BY <2>2, <2>3, LeftOfFits
    <2>5. QED
      BY <2>1, <2>2, <2>4
  <1>11. ObjectOf(g) \in VarValues
    <2> DEFINE K == DOMAIN g
    <2>1. g = [x \in K |-> g[x]]
      BY <1>7 DEF Put
    <2>2. K \in SUBSET DOMAIN o.keys /\ g \in [K -> VarValues]
      BY <1>10, <2>1
    <2>3. \A x \in K : Within(g[x], o.keys[x])
      BY <1>10
    <2> HIDE DEF K
    <2>4. QED
      BY <1>7, <2>2, <2>3, Objects
  <1>12. LeftOf(ObjectOf(g), o)
    <2>1. o # None /\ DOMAIN g \subseteq DOMAIN o.keys
      BY <1>7, <1>10, Objects
    <2>2. QED
      BY <1>7, <1>10, <2>1, LeftOfObject
  <1>13. QED
    BY <1>6, <1>7, <1>11, <1>12 DEF o

\* What insert_path makes of what is left is left of the same value.
LEMMA InsertIsLeft ==
    ASSUME NEW S, NEW u \in VarValues, NEW v \in VarValues, LeftOf(v, u),
           NEW path \in Seq(S), path # <<>>, Walk(u, path) # None
    PROVE  /\ InsertPath(v, path, Walk(u, path)) \in VarValues
           /\ LeftOf(InsertPath(v, path, Walk(u, path)), u)
  <1>1. Len(path) \in Nat /\ Len(path) # 0 /\ 0 \in 0..Len(path)
    BY LenProperties
  <1>2. PICK f : /\ Grows(f, v, path, Walk(u, path), 0)
                 /\ InsertPath(v, path, Walk(u, path)) = f[0]
    BY <1>1, InsertUnfolds
  <1>3. f[0] \in VarValues /\ LeftOf(f[0], Reached(u, path, 0))
    BY <1>1, <1>2, GrowsLeft
  <1>4. Reached(u, path, 0) = u
    BY WalkStarts
  <1>5. QED
    BY <1>2, <1>3, <1>4

\* Two walks that have met stay together.
LEMMA SameFromThere ==
    ASSUME NEW S, NEW x, NEW y, NEW path \in Seq(S), NEW i \in 0..Len(path),
           Reached(x, path, i) = Reached(y, path, i), NEW j \in i..Len(path)
    PROVE  Reached(x, path, j) = Reached(y, path, j)
  <1> DEFINE n == Len(path)
             OK(k) == Reached(x, path, k) = Reached(y, path, k)
             Bad == {k \in i..n : ~OK(k)}
  <1>1. n \in Nat /\ i \in Nat
    BY LenProperties
  <1>2. SUFFICES ASSUME Bad # {} PROVE FALSE
    OBVIOUS
  <1>3. PICK k \in Bad : \A l \in Bad : k <= l
    <2>1. Bad \in SUBSET Nat
      BY <1>1
    <2> HIDE DEF Bad
    <2>2. QED
      BY <1>2, <2>1, LeastNatural
  <1>4. k \in 1..n /\ k - 1 \in i..n /\ OK(k - 1)
    BY <1>1, <1>3
  <1>5. /\ Reached(x, path, k) = Below(Reached(x, path, k - 1), path[k])
        /\ Reached(y, path, k) = Below(Reached(y, path, k - 1), path[k])
    BY <1>4, WalkStep
  <1>6. QED
    BY <1>3, <1>4, <1>5

\* Two paths that begin alike lead to the same.
LEMMA SameStart ==
    ASSUME NEW S, NEW T, NEW s \in Seq(S), NEW t \in Seq(T), NEW i \in Nat,
           i <= Len(s), i <= Len(t), \A j \in 1..i : s[j] = t[j], NEW x
    PROVE  Reached(x, s, i) = Reached(x, t, i)
  <1>1. SubSeq(s, 1, i) = [j \in 1..i |-> s[j]] /\ SubSeq(t, 1, i) = [j \in 1..i |-> t[j]]
    BY LenProperties
  <1>2. SubSeq(s, 1, i) = SubSeq(t, 1, i)
    BY <1>1
  <1>3. QED
    BY <1>2 DEF Reached

\* From where nothing is missing, what is put back is what was there.
LEMMA GrowsBack ==
    ASSUME NEW S, NEW u \in VarValues, NEW v \in VarValues, LeftOf(v, u),
           NEW path \in Seq(S), Walk(u, path) # None,
           NEW f, Grows(f, v, path, Walk(u, path), 0),
           NEW m \in 0..Len(path), Reached(v, path, m) = Reached(u, path, m)
    PROVE  f[m] = Reached(u, path, m)
  <1> DEFINE n == Len(path)
             OK(i) == f[i] = Reached(u, path, i)
             Bad == {i \in 0..(n - m) : ~OK(n - i)}
  <1>1. n \in Nat /\ m \in Nat
    BY LenProperties
  <1>2. SUFFICES Bad = {}
    <2>1. n - m \in 0..(n - m) /\ n - (n - m) = m
      BY <1>1
    <2>2. QED
      BY <2>1
  <1>3. SUFFICES ASSUME Bad # {} PROVE FALSE
    OBVIOUS
  <1>4. PICK b \in Bad : \A j \in Bad : b <= j
    <2>1. Bad \in SUBSET Nat
      BY <1>1
    <2> HIDE DEF Bad
    <2>2. QED
      BY <1>3, <2>1, LeastNatural
  <1>5. OK(n)
    <2>1. n \in 0..n
      BY <1>1
    <2>2. f[n] = Walk(u, path)
      BY <2>1 DEF Grows
    <2>3. Reached(u, path, n) = Walk(u, path)
      BY WalkStarts
    <2>4. QED
      BY <2>2, <2>3
  <1> DEFINE i == n - b
  <1>6. i \in 0..(n - 1) /\ i \in m..n /\ i \in 0..n /\ ~OK(i) /\ OK(i + 1)
    <2>1. b \in 0..(n - m) /\ ~OK(n - b)
      BY <1>4
    <2>2. b # 0
      BY <1>1, <1>5, <2>1
    <2>3. b - 1 \in 0..(n - m) /\ n - (b - 1) = (n - b) + 1
      BY <1>1, <2>1, <2>2
    <2>4. b - 1 \notin Bad
      BY <1>1, <1>4, <2>1
    <2>5. OK((n - b) + 1)
      BY <2>3, <2>4
    <2>6. n - b \in 0..(n - 1) /\ n - b \in m..n /\ n - b \in 0..n
      BY <1>1, <2>1, <2>2
    <2>7. QED
      BY <2>1, <2>5, <2>6
  <1> HIDE DEF i, Bad
  <1> DEFINE o == Reached(u, path, i)
             h == Place(v, path, i)
             c == path[i + 1]
             g == f[i].keys
  <1>7. /\ o \in VarValues /\ IsObject(o) /\ c \in DOMAIN o.keys
        /\ Reached(u, path, i + 1) = o.keys[c]
        /\ g = Put(h.keys, c, f[i + 1]) /\ f[i] = ObjectOf(g)
    BY <1>6, GrowStep
  <1>8. h = o
    <2>1. Reached(v, path, i) = Reached(u, path, i)
      BY <1>6, SameFromThere
    <2>2. o # None
      BY <1>7, Objects
    <2>3. QED
      BY <2>1, <2>2 DEF Place
  <1>9. f[i + 1] = o.keys[c]
    BY <1>6, <1>7
  <1> HIDE DEF o, h, c, g
  <1>10. g = [x \in DOMAIN o.keys |-> o.keys[x]]
    BY <1>7, <1>8, <1>9 DEF Put
  <1>11. o = ObjectOf([x \in DOMAIN o.keys |-> o.keys[x]])
    BY <1>7, Objects
  <1>12. QED
    BY <1>6, <1>7, <1>10, <1>11 DEF o

\* Along the path, what is put back is what is found.
LEMMA GrowsFound ==
    ASSUME NEW S, NEW u \in VarValues, NEW v \in VarValues, LeftOf(v, u),
           NEW path \in Seq(S), Walk(u, path) # None,
           NEW f, Grows(f, v, path, Walk(u, path), 0), NEW m \in 0..Len(path)
    PROVE  Reached(f[0], path, m) = f[m]
  <1> DEFINE n == Len(path)
             w == f[0]
             Bad == {i \in 0..n : Reached(w, path, i) # f[i]}
  <1> HIDE DEF w
  <1>1. n \in Nat
    BY LenProperties
  <1>2. SUFFICES ASSUME Bad # {} PROVE FALSE
    BY DEF w
  <1>3. PICK i \in Bad : \A j \in Bad : i <= j
    <2>1. Bad \in SUBSET Nat
      OBVIOUS
    <2> HIDE DEF Bad
    <2>2. QED
      BY <1>2, <2>1, LeastNatural
  <1>4. Reached(w, path, 0) = f[0]
    BY WalkStarts DEF w
  <1>5. i \in 1..n /\ i - 1 \in 0..(n - 1) /\ Reached(w, path, i - 1) = f[i - 1]
        /\ (i - 1) + 1 = i
    BY <1>1, <1>3, <1>4
  <1> DEFINE k == i - 1
             h == Place(v, path, k)
  <1>6. Reached(w, path, i) = Below(f[k], path[i])
    BY <1>5, WalkStep
  <1>7. IsObject(f[k]) /\ f[k].keys = Put(h.keys, path[k + 1], f[k + 1])
    BY <1>5, GrowStep
  <1>8. f[k] # None
    <2>1. k \in 0..n
      BY <1>1, <1>5
    <2>2. f[k] \in VarValues
      BY <2>1, GrowsLeft
    <2>3. QED
      BY <2>2, Objects
  <1> HIDE DEF h
  <1>9. Below(f[k], path[i]) = f[i]
    BY <1>5, <1>7, <1>8 DEF Below, Put
  <1>10. QED
    BY <1>3, <1>6, <1>9

\* Once a path is kept, what it begins is as it was; and so is what already was
\* (insert_path).
LEMMA InsertSettles ==
    ASSUME NEW S, NEW u \in VarValues, NEW v \in VarValues, LeftOf(v, u),
           NEW path \in Seq(S), path # <<>>, Walk(u, path) # None,
           NEW T, NEW on \in Seq(T), IsPrefix(path, on) \/ Walk(v, on) = Walk(u, on)
    PROVE  Walk(InsertPath(v, path, Walk(u, path)), on) = Walk(u, on)
  <1> DEFINE n == Len(path)
             m == Len(on)
             w == InsertPath(v, path, Walk(u, path))
             B(i) == Reached(w, on, i)
  <1>1. n \in Nat /\ m \in Nat /\ n # 0
    BY LenProperties
  <1>2. PICK f : Grows(f, v, path, Walk(u, path), 0) /\ w = f[0]
    BY <1>1, InsertUnfolds
  <1> HIDE DEF w
  <1>3. \A i \in 0..n : Reached(w, path, i) = f[i]
    BY <1>2, GrowsFound
  <1>4. \A i \in 0..m : (i <= n /\ \A j \in 1..i : on[j] = path[j]) =>
           /\ B(i) = f[i]
           /\ Reached(u, on, i) = Reached(u, path, i)
           /\ Reached(v, on, i) = Reached(v, path, i)
    <2>1. ASSUME NEW i \in 0..m, i <= n, \A j \in 1..i : on[j] = path[j]
          PROVE  \A x : Reached(x, on, i) = Reached(x, path, i)
      <3>1. i \in Nat /\ i <= m
        BY <1>1
      <3>2. QED
        BY <2>1, <3>1, SameStart
    <2>2. ASSUME NEW i \in 0..m, i <= n, \A j \in 1..i : on[j] = path[j]
          PROVE  /\ B(i) = f[i]
                 /\ Reached(u, on, i) = Reached(u, path, i)
                 /\ Reached(v, on, i) = Reached(v, path, i)
      <3>1. i \in 0..n
        BY <1>1, <2>2
      <3>2. QED
        BY <1>3, <2>1, <2>2, <3>1
    <2>3. QED
      BY <2>2
  <1>5. /\ B(m) = Walk(w, on) /\ Reached(u, on, m) = Walk(u, on)
        /\ Reached(v, on, m) = Walk(v, on) /\ Reached(u, path, n) = Walk(u, path)
    BY WalkStarts
  <1>6. CASE IsPrefix(path, on)
    <2>1. n <= m /\ \A j \in 1..n : on[j] = path[j]
      BY <1>6, PrefixIs
    <2>2. n \in 0..m /\ n \in 0..n /\ m \in n..m
      BY <1>1, <2>1
    <2>3. B(n) = f[n] /\ Reached(u, on, n) = Reached(u, path, n)
      BY <1>4, <2>1, <2>2
    <2>4. f[n] = Walk(u, path)
      BY <1>2, <2>2 DEF Grows
    <2>5. B(m) = Reached(u, on, m)
      BY <1>5, <2>2, <2>3, <2>4, SameFromThere
    <2>6. QED
      BY <1>5, <2>5 DEF w
  <1>7. CASE IsPrefix(on, path)
    <2>1. m <= n /\ \A j \in 1..m : on[j] = path[j]
      BY <1>7, PrefixIs
    <2>2. m \in 0..m /\ m \in 0..n
      BY <1>1, <2>1
    <2>3. /\ B(m) = f[m] /\ Reached(u, on, m) = Reached(u, path, m)
          /\ Reached(v, on, m) = Reached(v, path, m)
      BY <1>4, <2>1, <2>2
    <2>4. CASE IsPrefix(path, on)
      BY <1>6, <2>4
    <2>5. CASE Walk(v, on) = Walk(u, on)
      <3>1. Reached(v, path, m) = Reached(u, path, m)
        BY <1>5, <2>3, <2>5
      <3>2. f[m] = Reached(u, path, m)
        BY <1>2, <2>2, <3>1, GrowsBack
      <3>3. QED
        BY <1>5, <2>3, <3>2 DEF w
    <2>6. QED
      BY <2>4, <2>5
  <1>8. CASE ~IsPrefix(path, on) /\ ~IsPrefix(on, path)
    <2> DEFINE Apart == {j \in 1..m : j <= n /\ on[j] # path[j]}
    <2>1. Apart # {}
      <3>1. CASE n <= m
        <4>1. PICK j \in 1..n : path[j] # on[j]
          BY <1>8, <3>1, PrefixIs
        <4>2. j \in Apart
          BY <1>1, <3>1, <4>1
        <4>3. QED
          BY <4>2
      <3>2. CASE ~(n <= m)
        <4>1. m <= n
          BY <1>1, <3>2
        <4>2. PICK j \in 1..m : on[j] # path[j]
          BY <1>8, <4>1, PrefixIs
        <4>3. j \in Apart
          BY <1>1, <4>1, <4>2
        <4>4. QED
          BY <4>3
      <3>3. QED
        BY <3>1, <3>2
    <2>2. PICK j \in Apart : \A k \in Apart : j <= k
      <3>1. Apart \in SUBSET Nat
        OBVIOUS
      <3> HIDE DEF Apart
      <3>2. QED
        BY <2>1, <3>1, LeastNatural
    <2> DEFINE i == j - 1
               c == on[j]
               h == Place(v, path, i)
    <2>3. /\ j \in 1..m /\ j \in 0..m /\ m \in j..m /\ c # path[j] /\ i + 1 = j
          /\ i \in 0..m /\ i <= n /\ i \in 0..(n - 1) /\ i \in 0..n
      BY <1>1, <2>2
    <2>4. \A k \in 1..i : on[k] = path[k]
      <3>1. TAKE k \in 1..i
      <3>2. k \in 1..m /\ k <= n /\ ~(j <= k)
        BY <1>1, <2>3
      <3>3. k \notin Apart
        BY <2>2, <3>2
      <3>4. QED
        BY <3>2, <3>3
    <2>5. B(i) = f[i] /\ Reached(v, on, i) = Reached(v, path, i)
      BY <1>4, <2>3, <2>4
    <2>6. B(j) = Below(B(i), c) /\ Reached(v, on, j) = Below(Reached(v, on, i), c)
      BY <2>3, WalkStep
    <2>7. IsObject(f[i]) /\ f[i].keys = Put(h.keys, path[i + 1], f[i + 1])
          /\ h \in VarValues /\ IsObject(h) /\ h # None
      <3>1. IsObject(f[i]) /\ f[i].keys = Put(h.keys, path[i + 1], f[i + 1])
            /\ h \in VarValues /\ IsObject(h)
        BY <1>2, <2>3, GrowStep
      <3>2. h # None
        BY <3>1, Objects
      <3>3. QED
        BY <3>1, <3>2
    <2>8. f[i] # None
      <3>1. f[i] \in VarValues
        BY <1>2, <2>3, GrowsLeft
      <3>2. QED
        BY <3>1, Objects
    <2>9. Below(f[i], c) = Below(h, c)
      <3> HIDE DEF h, i, c
      <3>1. path[i + 1] = path[j]
        BY <2>3
      <3>2. QED
        BY <2>3, <2>7, <2>8, <3>1 DEF Below, Put
    <2>10. Below(h, c) = Below(Reached(v, path, i), c)
      <3>1. CASE Reached(v, path, i) = None
        <4>1. h = EmptyObject /\ DOMAIN EmptyObject.keys = {}
          BY <3>1 DEF Place, EmptyObject, ObjectOf
        <4>2. Below(EmptyObject, c) = None
          BY <4>1 DEF Below
        <4>3. QED
          BY <3>1, <4>1, <4>2, BelowNothing
      <3>2. CASE Reached(v, path, i) # None
        BY <3>2 DEF Place
      <3>3. QED
        BY <3>1, <3>2
    <2>11. B(j) = Reached(v, on, j)
      BY <2>5, <2>6, <2>9, <2>10
    <2>12. B(m) = Reached(v, on, m)
      BY <2>3, <2>11, SameFromThere
    <2>13. QED
      BY <1>5, <1>8, <2>12 DEF w
  <1>9. QED
    BY <1>6, <1>7, <1>8

\* What is kept of variables, name by name.
KeptOf(out, held) ==
    \A k \in DOMAIN out : k \in DOMAIN held /\ out[k] \in VarValues /\ LeftOf(out[k], held[k])

\* Names that what is left leads to are names the whole leads to.
LEMMA LeftLeadsNowhere ==
    ASSUME NEW w, NEW v, LeftOf(w, v), NEW S, NEW path \in Seq(S), Walk(v, path) = None
    PROVE  Walk(w, path) = None
  <1>1. path \in Seq(Range(path))
    BY SeqOfRange
  <1>2. QED
    BY <1>1 DEF LeftOf

\* One name that is kept is as it was, and so is a name that already was
\* (VarSelect::host).
LEMMA KeepOnce ==
    ASSUME NEW held, HoldsValues(held), NEW p, IsName(p), Clear(held, p),
           NEW out, KeptOf(out, held), NEW e, IsName(e)
    PROVE  LET new == KeepPath(held, out, e)
           IN /\ KeptOf(new, held)
              /\ IsPrefix(e, p) \/ Lookup(out, p) = Lookup(held, p)
                    => Lookup(new, p) = Lookup(held, p)
  <1> DEFINE new == KeepPath(held, out, e)
             root == <<p[1]>>
             own == <<e[1]>>
             d == Tail(e)
             q == Tail(p)
             value == Lookup(held, e)
             seen(x) == IF root \in DOMAIN x THEN Walk(x[root], q) ELSE None
             Settles == IsPrefix(e, p) \/ Lookup(out, p) = Lookup(held, p)
                           => Lookup(new, p) = Lookup(held, p)
  <1>1. /\ Len(e) \in Nat /\ Len(e) # 0 /\ (Len(e) = 1 => e = own) /\ Len(own) = 1
        /\ d \in Seq(Range(e)) /\ (Len(e) # 1 => d # <<>>)
        /\ q \in Seq(Range(p))
    BY NamesRoot
  <1>2. /\ IsPrefix(e, p) <=> e[1] = p[1] /\ IsPrefix(d, q)
        /\ Len(e) = 1 => (IsPrefix(e, p) <=> e[1] = p[1])
    BY PrefixOfNames
  <1>3. own = root <=> e[1] = p[1]
    OBVIOUS
  <1>4. Len(e) # 1 => Len(e) > 1
    <2>1. \A n \in Nat : n # 0 /\ n # 1 => n > 1
      OBVIOUS
    <2>2. QED
      BY <1>1, <2>1
  <1>5. \A x : DOMAIN x \subseteq DOMAIN held => Lookup(x, p) = seen(x)
    <2>1. ASSUME NEW x, DOMAIN x \subseteq DOMAIN held
          PROVE  Lookup(x, p) = seen(x)
      <3>1. Clear(x, p)
        BY <2>1 DEF Clear
      <3>2. QED
        BY <3>1, ClearLookup
    <2>2. QED
      BY <2>1
  <1>6. Lookup(held, p) = seen(held) /\ Lookup(out, p) = seen(out)
        /\ (KeptOf(new, held) => Lookup(new, p) = seen(new))
    BY <1>5 DEF KeptOf
  <1> HIDE DEF d, q, own, root
  <1>7. SUFFICES /\ KeptOf(new, held)
                 /\ Settles
    OBVIOUS
  <1>8. CASE e \in DOMAIN held
    <2>1. new = Put(out, e, held[e])
      BY <1>8 DEF KeepPath
    <2> HIDE DEF new
    <2>2. DOMAIN new = DOMAIN out \cup {e}
          /\ \A k \in DOMAIN new : new[k] = IF k = e THEN held[e] ELSE out[k]
      BY <2>1 DEF Put
    <2>3. KeptOf(new, held)
      BY <1>8, <2>2, LeftOfSelf DEF KeptOf, HoldsValues
    <2>4. CASE root = e
      BY <1>6, <1>8, <2>2, <2>3, <2>4
    <2>5. CASE root # e
      <3>1. ~IsPrefix(e, p)
        <4>1. CASE Len(e) = 1
          BY <1>1, <1>2, <1>3, <2>5, <4>1
        <4>2. CASE Len(e) # 1
          BY <1>4, <1>8, <4>2 DEF Clear
        <4>3. QED
          BY <4>1, <4>2
      <3>2. seen(new) = seen(out)
        BY <2>2, <2>5
      <3>3. QED
        BY <1>6, <2>3, <3>1, <3>2
    <2>6. QED
      BY <2>4, <2>5, <2>3
  <1>9. CASE e \notin DOMAIN held /\ value = None
    <2>1. new = out
      BY <1>9 DEF KeepPath
    <2>2. ASSUME IsPrefix(e, p)
          PROVE  seen(held) = None /\ seen(out) = None
      <3>1. own = root /\ IsPrefix(d, q)
        BY <1>2, <1>3, <2>2
      <3>2. CASE root \in DOMAIN held
        <4>1. Walk(held[root], d) = None
          BY <1>9, <3>1, <3>2 DEF Lookup, own, d
        <4>2. Walk(held[root], q) = None
          BY <1>1, <3>1, <4>1, NowhereFromThere
        <4>3. root \in DOMAIN out => Walk(out[root], q) = None
          BY <1>1, <4>2, LeftLeadsNowhere DEF KeptOf
        <4>4. QED
          BY <4>2, <4>3
      <3>3. CASE root \notin DOMAIN held
        BY <3>3 DEF KeptOf
      <3>4. QED
        BY <3>2, <3>3
    <2>3. QED
      BY <1>6, <2>1, <2>2
  <1>10. CASE e \notin DOMAIN held /\ value # None
    <2> DEFINE u == held[own]
               v == IF own \in DOMAIN out THEN out[own] ELSE EmptyObject
               w == InsertPath(v, d, value)
    <2>1. own \in DOMAIN held /\ value = Walk(u, d)
      BY <1>10 DEF Lookup, own, d
    <2>2. u \in VarValues /\ Walk(u, d) # None /\ d # <<>>
      BY <1>1, <1>10, <2>1 DEF HoldsValues
    <2>3. IsObject(u)
      <3>1. 1 \in 1..Len(d) /\ 1 - 1 = 0
        <4>1. Len(d) \in Nat /\ Len(d) # 0
          BY <1>1, <2>2, LenProperties
        <4>2. QED
          BY <4>1
      <3>2. \A i \in 1..Len(d) : IsObject(Reached(u, d, i - 1))
        BY <1>1, <2>2, ObjectsOnTheWay
      <3>3. Reached(u, d, 0) = u
        BY <1>1, WalkStarts
      <3>4. QED
        BY <3>1, <3>2, <3>3
    <2>4. own # root => ~IsPrefix(e, p)
      BY <1>2, <1>3
    <2>5. CASE own \in DOMAIN out /\ ~IsObject(out[own])
      <3>1. new = out
        BY <1>10, <2>5 DEF KeepPath, own
      <3>2. out[own] = u
        <4>1. out[own] # None /\ LeftOf(out[own], u)
          BY <2>5, Objects DEF KeptOf
        <4>2. QED
          BY <2>5, <4>1, LeftOfFits DEF Within
      <3>3. own = root => seen(out) = seen(held)
        BY <2>1, <2>5, <3>2
      <3>4. QED
        BY <1>6, <2>4, <3>1, <3>3
    <2>6. CASE ~(own \in DOMAIN out /\ ~IsObject(out[own]))
      <3>1. new = Put(out, own, w)
        BY <1>10, <2>6 DEF KeepPath, own, d
      <3>2. v \in VarValues /\ LeftOf(v, u)
        <4>1. CASE own \in DOMAIN out
          BY <4>1 DEF KeptOf
        <4>2. CASE own \notin DOMAIN out
          BY <2>2, <2>3, <4>2, EmptyIsLeft
        <4>3. QED
          BY <4>1, <4>2
      <3> DEFINE S == Range(e)
                 T == Range(p)
      <3>3. d \in Seq(S) /\ q \in Seq(T)
        BY <1>1
      <3> HIDE DEF v, u, new, S, T, value
      <3>4. w \in VarValues /\ LeftOf(w, u)
        BY <2>1, <2>2, <3>2, <3>3, InsertIsLeft
      <3>5. IsPrefix(d, q) \/ Walk(v, q) = Walk(u, q) => Walk(w, q) = Walk(u, q)
        BY <2>1, <2>2, <3>2, <3>3, InsertSettles
      <3> HIDE DEF w
      <3>6. DOMAIN new = DOMAIN out \cup {own}
            /\ \A k \in DOMAIN new : new[k] = IF k = own THEN w ELSE out[k]
        BY <3>1 DEF Put
      <3>7. KeptOf(new, held)
        BY <2>1, <3>4, <3>6 DEF KeptOf, u
      <3>8. CASE own = root
        <4>1. seen(new) = Walk(w, q) /\ seen(held) = Walk(u, q)
          BY <2>1, <3>6, <3>8 DEF u
        <4>2. IsPrefix(e, p) => IsPrefix(d, q)
          BY <1>2
        <4>3. seen(out) = seen(held) => Walk(v, q) = Walk(u, q)
          <5>1. CASE own \in DOMAIN out
            BY <3>8, <4>1, <5>1 DEF v
          <5>2. CASE own \notin DOMAIN out
            <6>1. seen(out) = None
              BY <3>8, <5>2
            <6>2. Walk(u, q) = None => Walk(v, q) = None
              BY <3>2, <3>3, LeftLeadsNowhere
            <6>3. QED
              BY <4>1, <6>1, <6>2
          <5>3. QED
            BY <5>1, <5>2
        <4>4. QED
          BY <1>6, <3>5, <3>7, <4>1, <4>2, <4>3
      <3>9. CASE own # root
        <4>1. seen(new) = seen(out)
          BY <3>6, <3>9
        <4>2. QED
          BY <1>6, <2>4, <3>7, <3>9, <4>1
      <3>10. QED
        BY <3>8, <3>9
    <2>7. QED
      BY <2>5, <2>6
  <1>11. QED
    BY <1>8, <1>9, <1>10

\* What `fields` names is kept as it was.
LEMMA KeepsWhole ==
    ASSUME NEW held, HoldsValues(held), NEW p, IsName(p), Clear(held, p),
           NEW paths, IsNameList(paths)
    PROVE  LET new == KeepPaths(held, paths)
           IN /\ KeptOf(new, held)
              /\ (\E i \in DOMAIN paths : IsPrefix(paths[i], p))
                    => Lookup(new, p) = Lookup(held, p)
  <1> DEFINE n == Len(paths)
             S == Range(paths)
             named(i) == IsPrefix(paths[i], p)
  <1>1. paths \in Seq(S) /\ \A i \in DOMAIN paths : IsName(paths[i])
    BY DEF IsNameList
  <1> HIDE DEF S
  <1>2. n \in Nat /\ DOMAIN paths = 1..n
    BY <1>1, LenProperties
  <1>3. PICK f : /\ KeepPaths(held, paths) = f[n]
                 /\ f[0] = <<>>
                 /\ \A i \in 1..n : f[i] = KeepPath(held, f[i - 1], paths[i])
    <2>1. Len(paths) \in Nat
      BY <1>2
    <2>2. \E f : /\ KeepPaths(held, paths) = f[Len(paths)]
                 /\ f[0] = <<>>
                 /\ \A i \in 1..Len(paths) : f[i] = KeepPath(held, f[i - 1], paths[i])
      BY <2>1, KeepsUnfold
    <2>3. QED
      BY <2>2
  <1> HIDE DEF n
  <1> DEFINE found(m) == Lookup(f[m], p)
             asked(m) == \E i \in 1..m : named(i)
             OK(m) == KeptOf(f[m], held) /\ (asked(m) => found(m) = Lookup(held, p))
             Bad == {m \in 0..n : ~OK(m)}
  <1>4. OK(n)
    <2>1. SUFFICES ASSUME Bad # {} PROVE FALSE
      BY <1>2
    <2>2. PICK m \in Bad : \A k \in Bad : m <= k
      <3>1. Bad \in SUBSET Nat
        OBVIOUS
      <3> HIDE DEF Bad
      <3>2. QED
        BY <2>1, <3>1, LeastNatural
    <2>3. OK(0)
      <3>1. DOMAIN <<>> = {}
        OBVIOUS
      <3>2. KeptOf(f[0], held)
        BY <1>3, <3>1 DEF KeptOf
      <3>3. ~asked(0)
        OBVIOUS
      <3>4. QED
        BY <3>2, <3>3
    <2>4. m \in 1..n /\ m - 1 \in 0..n /\ m \in Nat /\ OK(m - 1)
      BY <1>2, <2>2, <2>3
    <2>5. f[m] = KeepPath(held, f[m - 1], paths[m]) /\ IsName(paths[m])
      BY <1>1, <1>2, <1>3, <2>4
    <2>6. KeptOf(f[m - 1], held)
      BY <2>4
    <2>7. /\ KeptOf(f[m], held)
          /\ named(m) \/ found(m - 1) = Lookup(held, p) => found(m) = Lookup(held, p)
      BY <2>5, <2>6, KeepOnce
    <2> HIDE DEF found, named
    <2>8. asked(m) => asked(m - 1) \/ named(m)
      <3>1. \A i \in 1..m : i = m \/ i \in 1..(m - 1)
        BY <2>4
      <3>2. QED
        BY <3>1
    <2>9. OK(m)
      BY <2>4, <2>7, <2>8
    <2>10. QED
      BY <2>2, <2>9
  <1>5. found(n) = Lookup(KeepPaths(held, paths), p)
    BY <1>3
  <1> HIDE DEF found
  <1>6. QED
    BY <1>2, <1>3, <1>4, <1>5

-----------------------------------------------------------------------------
(* Endpoints: what a limit leaves.                                         *)

\* N is D without the hosts that are not allowed.
HasOnly(N, D, allowed) ==
    /\ DOMAIN N = DOMAIN D
    /\ \A s \in DOMAIN D :
          /\ DOMAIN N[s].hostvars = allowed \cap DOMAIN D[s].hostvars
          /\ \A h \in DOMAIN N[s].hostvars : N[s].hostvars[h] = D[s].hostvars[h]
          /\ DOMAIN N[s].groups = DOMAIN D[s].groups
          /\ \A g \in DOMAIN D[s].groups :
                /\ N[s].groups[g].hosts = D[s].groups[g].hosts \cap allowed
                /\ N[s].groups[g].children = D[s].groups[g].children
                /\ N[s].groups[g].vars = D[s].groups[g].vars

\* The hosts a query's groups name, and those it chooses.
NamedBy(groups, q, all) ==
    IF q.group = None THEN all ELSE UNION {groups[g].hosts : g \in q.group \cap DOMAIN groups}

Chosen(D, q) ==
    {h \in DOMAIN MergedVars(D) \cap NamedBy(MergedGroups(D), q, DOMAIN MergedVars(D)) :
        FilterIsEmpty(q) \/ Matches(q, h, MergedVars(D)[h])}

\* The output, by them.
LEMMA MergeInParts ==
    ASSUME NEW D, NEW q
    PROVE  MergeAndFilter(D, q) =
              [hostvars |-> [h \in Chosen(D, q) |-> ShapeHost(q, MergedVars(D)[h])],
               groups   |-> Pruned(Shaped(q, MergedGroups(D)), Chosen(D, q))]
  BY DEF MergeAndFilter, Chosen, NamedBy

\* Who remains has the same variables ...
LEMMA LimitedVars ==
    ASSUME NEW N, NEW D, NEW allowed, HasOnly(N, D, allowed)
    PROVE  MergedVars(N) = Restrict(MergedVars(D), allowed \cap DOMAIN MergedVars(D))
  <1> DEFINE with(d, h) == {s \in DOMAIN d : h \in DOMAIN d[s].hostvars}
             layers(d, h) == [s \in with(d, h) |-> d[s].hostvars[h]]
             all(d) == UNION {DOMAIN d[s].hostvars : s \in DOMAIN d}
  <1>1. \A d : MergedVars(d) = [h \in all(d) |-> Laid(layers(d, h))]
    BY DEF MergedVars
  <1>2. all(N) = allowed \cap all(D)
    BY DEF HasOnly
  <1>3. ASSUME NEW h \in allowed
        PROVE  layers(N, h) = layers(D, h)
    <2>1. with(N, h) = with(D, h)
      BY <1>3 DEF HasOnly
    <2>2. \A s \in with(D, h) : N[s].hostvars[h] = D[s].hostvars[h]
      BY <1>3 DEF HasOnly
    <2>3. QED
      BY <2>1, <2>2
  <1> HIDE DEF layers, all, with
  <1>4. /\ DOMAIN MergedVars(D) = all(D)
        /\ \A h \in all(D) : MergedVars(D)[h] = Laid(layers(D, h))
    BY <1>1
  <1>5. MergedVars(N) = [h \in allowed \cap all(D) |-> Laid(layers(D, h))]
    BY <1>1, <1>2, <1>3
  <1>6. QED
    BY <1>4, <1>5 DEF Restrict

\* ... and is in the same groups.
LEMMA LimitedGroups ==
    ASSUME NEW N, NEW D, NEW allowed, HasOnly(N, D, allowed)
    PROVE  /\ DOMAIN MergedGroups(N) = DOMAIN MergedGroups(D)
           /\ \A g \in DOMAIN MergedGroups(D) :
                 /\ MergedGroups(N)[g].hosts = MergedGroups(D)[g].hosts \cap allowed
                 /\ MergedGroups(N)[g].children = MergedGroups(D)[g].children
                 /\ MergedGroups(N)[g].vars = MergedGroups(D)[g].vars
  <1> DEFINE all(d) == UNION {DOMAIN d[s].groups : s \in DOMAIN d}
             withVars(d, g) == {s \in Having(d, g) : d[s].groups[g].vars # None}
             hosts(d, g) == UNION {d[s].groups[g].hosts : s \in Having(d, g)}
             children(d, g) == UNION {d[s].groups[g].children : s \in Having(d, g)}
             layers(d, g) == [s \in withVars(d, g) |-> d[s].groups[g].vars]
             merged(d, g) == IF withVars(d, g) = {} THEN None ELSE Laid(layers(d, g))
  <1>1. \A d : MergedGroups(d) = [g \in all(d) |-> [hosts |-> hosts(d, g),
                                                   children |-> children(d, g),
                                                   vars |-> merged(d, g)]]
    BY DEF MergedGroups
  <1>2. all(N) = all(D)
    BY DEF HasOnly
  <1>3. ASSUME NEW g
        PROVE  /\ Having(N, g) = Having(D, g)
               /\ \A s \in Having(D, g) :
                     /\ N[s].groups[g].hosts = D[s].groups[g].hosts \cap allowed
                     /\ N[s].groups[g].children = D[s].groups[g].children
                     /\ N[s].groups[g].vars = D[s].groups[g].vars
    BY DEF HasOnly, Having
  <1>4. ASSUME NEW g
        PROVE  /\ hosts(N, g) = hosts(D, g) \cap allowed
               /\ children(N, g) = children(D, g)
               /\ merged(N, g) = merged(D, g)
    <2>1. hosts(N, g) = hosts(D, g) \cap allowed
      BY <1>3
    <2>2. children(N, g) = children(D, g)
      BY <1>3
    <2>3. withVars(N, g) = withVars(D, g)
      BY <1>3
    <2>4. layers(N, g) = layers(D, g)
      BY <1>3, <2>3
    <2> HIDE DEF layers, withVars
    <2>5. merged(N, g) = merged(D, g)
      BY <2>3, <2>4
    <2> HIDE DEF hosts, children, merged
    <2>6. QED
      BY <2>1, <2>2, <2>5
  <1> HIDE DEF all, hosts, children, merged
  <1>5. QED
    BY <1>1, <1>2, <1>4

\* A limit is a restriction of what comes out without it.
LEMMA LimitedOutput ==
    ASSUME NEW N, NEW D, NEW allowed, HasOnly(N, D, allowed), NEW q
    PROVE  /\ Chosen(N, q) = Chosen(D, q) \cap allowed
           /\ MergeAndFilter(N, q).hostvars
                 = Restrict(MergeAndFilter(D, q).hostvars, Chosen(N, q))
  <1> DEFINE named(d) == NamedBy(MergedGroups(d), q, DOMAIN MergedVars(d))
  <1>1. MergedVars(N) = Restrict(MergedVars(D), allowed \cap DOMAIN MergedVars(D))
    BY LimitedVars
  <1>2. /\ DOMAIN MergedVars(N) = allowed \cap DOMAIN MergedVars(D)
        /\ \A h \in DOMAIN MergedVars(N) : MergedVars(N)[h] = MergedVars(D)[h]
    BY <1>1 DEF Restrict
  <1>3. ASSUME NEW h \in DOMAIN MergedVars(N)
        PROVE  h \in named(N) <=> h \in named(D)
    <2>1. h \in allowed /\ h \in DOMAIN MergedVars(D)
      BY <1>2
    <2>2. CASE q.group = None
      BY <2>1, <2>2 DEF NamedBy
    <2>3. CASE q.group # None
      <3>1. \A d : h \in named(d) <=> \E g \in q.group \cap DOMAIN MergedGroups(d) :
                                         h \in MergedGroups(d)[g].hosts
        BY <2>3 DEF NamedBy
      <3>2. \A g \in DOMAIN MergedGroups(D) :
               h \in MergedGroups(N)[g].hosts <=> h \in MergedGroups(D)[g].hosts
        BY <2>1, LimitedGroups
      <3>3. DOMAIN MergedGroups(N) = DOMAIN MergedGroups(D)
        BY LimitedGroups
      <3> HIDE DEF named
      <3>4. QED
        BY <3>1, <3>2, <3>3
    <2>4. QED
      BY <2>2, <2>3
  <1>4. \A d : Chosen(d, q) = {h \in DOMAIN MergedVars(d) \cap named(d) :
                                  FilterIsEmpty(q) \/ Matches(q, h, MergedVars(d)[h])}
    BY DEF Chosen
  <1> HIDE DEF named
  <1>5. Chosen(N, q) = Chosen(D, q) \cap allowed
    <2>1. ASSUME NEW h
          PROVE  h \in Chosen(N, q) <=> h \in Chosen(D, q) /\ h \in allowed
      <3>1. CASE h \in DOMAIN MergedVars(N)
        BY <1>2, <1>3, <1>4, <3>1
      <3>2. CASE h \notin DOMAIN MergedVars(N)
        BY <1>2, <1>4, <3>2
      <3>3. QED
        BY <3>1, <3>2
    <2>2. QED
      BY <2>1
  <1>6. \A d : MergeAndFilter(d, q).hostvars
                  = [h \in Chosen(d, q) |-> ShapeHost(q, MergedVars(d)[h])]
    BY MergeInParts
  <1>7. Chosen(N, q) \subseteq DOMAIN MergedVars(N)
    BY <1>4
  <1> DEFINE all == MergeAndFilter(D, q).hostvars
             out == MergeAndFilter(N, q).hostvars
  <1>8. DOMAIN all = Chosen(D, q) /\ DOMAIN out = Chosen(N, q)
    BY <1>6
  <1>9. out = [h \in Chosen(N, q) |-> ShapeHost(q, MergedVars(N)[h])]
    BY <1>6
  <1>10. ASSUME NEW h \in Chosen(N, q)
         PROVE  all[h] = ShapeHost(q, MergedVars(N)[h])
    <2>1. h \in Chosen(D, q) /\ MergedVars(N)[h] = MergedVars(D)[h]
      BY <1>2, <1>5, <1>7
    <2>2. all[h] = ShapeHost(q, MergedVars(D)[h])
      BY <1>6, <2>1
    <2>3. QED
      BY <2>1, <2>2
  <1> HIDE DEF all, out
  <1>11. out = Restrict(all, Chosen(N, q))
    BY <1>9, <1>10 DEF Restrict
  <1>12. QED
    BY <1>5, <1>11 DEF all, out

\* The groups that come out: those of the merge, with the chosen hosts.
LEMMA OutputGroups ==
    ASSUME NEW D, NEW q
    PROVE  LET groups == MergedGroups(D)
               out == MergeAndFilter(D, q).groups
           IN /\ DOMAIN out \subseteq DOMAIN groups
              /\ \A g \in DOMAIN out :
                    out[g] = [hosts    |-> groups[g].hosts \cap Chosen(D, q),
                              children |-> groups[g].children,
                              vars     |-> ShapeGroupVars(q, groups[g].vars)]
              /\ \A g \in DOMAIN groups :
                    groups[g].hosts \cap Chosen(D, q) # {} => g \in DOMAIN out
  <1> DEFINE groups == MergedGroups(D)
             shaped == Shaped(q, groups)
             chosen == Chosen(D, q)
             out == MergeAndFilter(D, q).groups
  <1>1. \A g \in DOMAIN groups : groups[g] = [hosts    |-> groups[g].hosts,
                                              children |-> groups[g].children,
                                              vars     |-> groups[g].vars]
    BY DEF MergedGroups
  <1>2. out = Pruned(shaped, chosen)
    BY MergeInParts
  <1> HIDE DEF groups, chosen, out
  <1>3. /\ DOMAIN shaped = DOMAIN groups
        /\ \A g \in DOMAIN groups :
              shaped[g] = [hosts    |-> groups[g].hosts,
                           children |-> groups[g].children,
                           vars     |-> ShapeGroupVars(q, groups[g].vars)]
    BY <1>1 DEF Shaped
  <1> HIDE DEF shaped
  <1>4. /\ DOMAIN out \subseteq DOMAIN shaped
        /\ \A g \in DOMAIN out : out[g] = [shaped[g] EXCEPT !.hosts = @ \cap chosen]
        /\ \A g \in DOMAIN shaped : shaped[g].hosts \cap chosen # {} => g \in DOMAIN out
    BY <1>2 DEF Pruned
  <1>5. \A g \in DOMAIN out : out[g] = [hosts    |-> groups[g].hosts \cap chosen,
                                        children |-> groups[g].children,
                                        vars     |-> ShapeGroupVars(q, groups[g].vars)]
    BY <1>3, <1>4
  <1>6. QED
    BY <1>3, <1>4, <1>5 DEF groups, chosen, out

\* The hosts that may come out, and the endpoint that has no limit.
Allowed(cache, e) ==
    IF e.limit = None THEN UNION {Known(cache[s]) : s \in e.sources}
    ELSE DOMAIN cache[e.limit].hostvars

Unlimited(e) == [e EXCEPT !.limit = None]

\* A group of a dataset.
LEMMA DatasetGroup ==
    ASSUME NEW d, IsDataset(d), NEW g \in DOMAIN d.groups
    PROVE  /\ d.groups[g] = [hosts    |-> d.groups[g].hosts,
                             children |-> d.groups[g].children,
                             vars     |-> d.groups[g].vars]
           /\ d.groups[g].vars # None => Plain(d.groups[g].vars)
           /\ g \notin MetaGroups
  BY DEF IsDataset, GroupRead

\* What an endpoint merges is what its sources hold, without the hosts its
\* limiting source does not list.
LEMMA InputsAreLimited ==
    ASSUME NEW cache, NEW e, IsEndpoint(e, cache), Missing(cache, e) = {}
    PROVE  /\ Inputs(cache, Unlimited(e)) = Gathered(cache, e)
           /\ HasOnly(Inputs(cache, e), Gathered(cache, e), Allowed(cache, e))
  <1> DEFINE D == Gathered(cache, e)
             N == Inputs(cache, e)
             allowed == Allowed(cache, e)
  <1>1. e = [sources |-> e.sources, limit |-> e.limit, output |-> e.output, config |-> e.config]
    BY DEF IsEndpoint
  <1>2. Unlimited(e).limit = None /\ Unlimited(e).sources = e.sources
    BY <1>1 DEF Unlimited
  <1>3. Inputs(cache, Unlimited(e)) = D
    BY <1>2 DEF Inputs, Limited, Gathered
  <1>4. DOMAIN D = e.sources /\ \A s \in e.sources : D[s] = cache[s] /\ IsDataset(D[s])
    BY DEF Gathered, Restrict, Missing, IsEndpoint
  <1>5. \A s \in e.sources : Known(D[s]) \subseteq allowed \/ e.limit # None
    BY <1>4 DEF Allowed
  <1>6. e.limit # None => e.limit \in DOMAIN D /\ allowed = DOMAIN D[e.limit].hostvars
    BY <1>4 DEF Allowed, IsEndpoint
  <1>7. N = Limited(D, e.limit)
    BY DEF Inputs
  <1> HIDE DEF D, N, allowed
  <1>8. CASE e.limit = None
    <2>1. N = D
      BY <1>7, <1>8 DEF Limited
    <2>2. \A s \in e.sources :
             /\ DOMAIN D[s].hostvars \subseteq allowed
             /\ \A g \in DOMAIN D[s].groups : D[s].groups[g].hosts \subseteq allowed
      BY <1>5, <1>8 DEF Known
    <2>3. HasOnly(N, D, allowed)
      BY <1>4, <2>1, <2>2 DEF HasOnly
    <2>4. QED
      BY <1>3, <2>3 DEF D, N, allowed
  <1>9. CASE e.limit # None
    <2>1. N = [s \in DOMAIN D |->
                 [hostvars |-> Restrict(D[s].hostvars, allowed \cap DOMAIN D[s].hostvars),
                  groups   |-> [g \in DOMAIN D[s].groups |->
                                  [D[s].groups[g] EXCEPT !.hosts = @ \cap allowed]]]]
      BY <1>6, <1>7, <1>9 DEF Limited
    <2>2. ASSUME NEW s \in DOMAIN D
          PROVE  /\ DOMAIN N[s].hostvars = allowed \cap DOMAIN D[s].hostvars
                 /\ \A h \in DOMAIN N[s].hostvars : N[s].hostvars[h] = D[s].hostvars[h]
                 /\ DOMAIN N[s].groups = DOMAIN D[s].groups
      BY <2>1 DEF Restrict
    <2>3. ASSUME NEW s \in DOMAIN D, NEW g \in DOMAIN D[s].groups
          PROVE  /\ N[s].groups[g].hosts = D[s].groups[g].hosts \cap allowed
                 /\ N[s].groups[g].children = D[s].groups[g].children
                 /\ N[s].groups[g].vars = D[s].groups[g].vars
      <3>1. D[s].groups[g] = [hosts    |-> D[s].groups[g].hosts,
                              children |-> D[s].groups[g].children,
                              vars     |-> D[s].groups[g].vars]
        BY <1>4, DatasetGroup
      <3>2. N[s].groups[g] = [D[s].groups[g] EXCEPT !.hosts = @ \cap allowed]
        BY <2>1
      <3>3. QED
        BY <3>1, <3>2
    <2>4. DOMAIN N = DOMAIN D
      BY <2>1
    <2>5. HasOnly(N, D, allowed)
      BY <2>2, <2>3, <2>4 DEF HasOnly
    <2>6. QED
      BY <1>3, <2>5 DEF D, N, allowed
  <1>10. QED
    BY <1>8, <1>9

\* What a builtin endpoint answers, and would without its limit.
LEMMA EndpointBody ==
    ASSUME NEW cache, NEW e, IsEndpoint(e, cache), NEW params, NEW script,
           e.output \in {"ansible", "json"}, Execute(cache, e, params, script).status = 200
    PROVE  /\ Missing(cache, e) = {}
           /\ Execute(cache, e, params, script).body
                 = MergeAndFilter(Inputs(cache, e), QueryOf(e, params))
           /\ Execute(cache, Unlimited(e), params, "ends").body
                 = MergeAndFilter(Gathered(cache, e), QueryOf(e, params))
  <1> DEFINE u == Unlimited(e)
             q == QueryOf(e, params)
             body(f) == Rendered(f.output, MergeAndFilter(Inputs(cache, f), q), q)
  <1>1. /\ u.sources = e.sources /\ u.output = e.output /\ u.config = e.config
        /\ e.output # None /\ e.output # "csv"
    BY RequestsAssumption DEF IsEndpoint, Unlimited
  <1>2. QueryOf(u, params) = q
    BY <1>1 DEF QueryOf, Setting
  <1>3. Missing(cache, u) = Missing(cache, e)
    BY <1>1 DEF Missing
  <1>4. ParamsRefused(u, params) <=> ParamsRefused(e, params)
    BY <1>2 DEF ParamsRefused
  <1>5. \A f \in {e, u} : f.output # None /\ QueryOf(f, params) = q
    BY <1>1, <1>2
  <1> HIDE DEF u, q
  <1>6. ASSUME NEW f \in {e, u}, NEW s
        PROVE  Transformed(cache, f, params, s) = [status |-> 200, body |-> body(f)]
    BY <1>5 DEF Transformed
  <1> HIDE DEF body
  <1>7. ~ParamsRefused(e, params) /\ Missing(cache, e) = {}
    BY <1>1 DEF Execute
  <1>8. ASSUME NEW f \in {e, u}, NEW s
        PROVE  Execute(cache, f, params, s).body = body(f)
    <2>1. ~ParamsRefused(f, params) /\ Missing(cache, f) = {}
      BY <1>3, <1>4, <1>7
    <2>2. Execute(cache, f, params, s) = Transformed(cache, f, params, s)
      BY <2>1 DEF Execute
    <2>3. QED
      BY <1>6, <2>2
  <1>9. \A f \in {e, u} : body(f) = MergeAndFilter(Inputs(cache, f), q)
    BY <1>1 DEF body, Rendered
  <1>10. Inputs(cache, u) = Gathered(cache, e)
    BY <1>7, InputsAreLimited DEF u
  <1>11. QED
    BY <1>7, <1>8, <1>9, <1>10 DEF u, q

\* Variables stand under one segment in every dataset of D.
PlainIn(D) ==
    \A s \in DOMAIN D :
        /\ \A h \in DOMAIN D[s].hostvars : Plain(D[s].hostvars[h])
        /\ \A g \in DOMAIN D[s].groups :
              D[s].groups[g].vars # None => Plain(D[s].groups[g].vars)

\* Laying plain variables over plain variables makes no other name.
LEMMA LaidIsPlain ==
    ASSUME NEW layers, \A s \in DOMAIN layers : Plain(layers[s])
    PROVE  Plain(Laid(layers))
  <1>1. ASSUME NEW n \in DOMAIN Laid(layers)
        PROVE  IsName(n) /\ Len(n) = 1
    <2>1. PICK s \in DOMAIN layers : n \in DOMAIN layers[s]
      BY DEF Laid
    <2>2. QED
      BY <2>1 DEF Plain
  <1>2. QED
    BY <1>1 DEF Plain

\* Nor does the merge.
LEMMA MergedArePlain ==
    ASSUME NEW D, PlainIn(D)
    PROVE  /\ \A h \in DOMAIN MergedVars(D) : Plain(MergedVars(D)[h])
           /\ \A g \in DOMAIN MergedGroups(D) :
                 MergedGroups(D)[g].vars # None => Plain(MergedGroups(D)[g].vars)
  <1>1. ASSUME NEW h \in DOMAIN MergedVars(D)
        PROVE  Plain(MergedVars(D)[h])
    <2> DEFINE layers == [s \in {s \in DOMAIN D : h \in DOMAIN D[s].hostvars} |-> D[s].hostvars[h]]
    <2>1. MergedVars(D)[h] = Laid(layers)
      BY DEF MergedVars
    <2>2. \A s \in DOMAIN layers : Plain(layers[s])
      BY DEF PlainIn
    <2> HIDE DEF layers
    <2>3. QED
      BY <2>1, <2>2, LaidIsPlain
  <1>2. ASSUME NEW g \in DOMAIN MergedGroups(D), MergedGroups(D)[g].vars # None
        PROVE  Plain(MergedGroups(D)[g].vars)
    <2> DEFINE withVars == {s \in Having(D, g) : D[s].groups[g].vars # None}
               layers == [s \in withVars |-> D[s].groups[g].vars]
    <2>1. MergedGroups(D)[g].vars = IF withVars = {} THEN None ELSE Laid(layers)
      BY DEF MergedGroups
    <2>2. \A s \in DOMAIN layers : Plain(layers[s])
      BY DEF PlainIn, Having
    <2> HIDE DEF layers, withVars
    <2>3. Plain(Laid(layers))
      BY <2>2, LaidIsPlain
    <2>4. QED
      BY <1>2, <2>1, <2>3
  <1>3. QED
    BY <1>1, <1>2

\* What an endpoint merges has its variables under one segment.
LEMMA InputsArePlain ==
    ASSUME NEW cache, NEW e, IsEndpoint(e, cache), Missing(cache, e) = {}
    PROVE  PlainIn(Inputs(cache, e))
  <1> DEFINE D == Gathered(cache, e)
             N == Inputs(cache, e)
  <1>1. DOMAIN D = e.sources /\ \A s \in e.sources : D[s] = cache[s] /\ IsDataset(D[s])
    BY DEF Gathered, Restrict, Missing, IsEndpoint
  <1>2. HasOnly(N, D, Allowed(cache, e))
    BY InputsAreLimited
  <1> HIDE DEF D, N
  <1>3. PlainIn(D)
    BY <1>1 DEF PlainIn, IsDataset
  <1>4. ASSUME NEW s \in DOMAIN N
        PROVE  /\ \A h \in DOMAIN N[s].hostvars : Plain(N[s].hostvars[h])
               /\ \A g \in DOMAIN N[s].groups :
                     N[s].groups[g].vars # None => Plain(N[s].groups[g].vars)
    BY <1>2, <1>3 DEF HasOnly, PlainIn
  <1>5. QED
    BY <1>4 DEF PlainIn, N

\* What a query keeps and excludes are lists of names.
LEMMA QueryListsNames ==
    ASSUME NEW e, NEW params, ListsNames(e.config), ListsNames(params)
    PROVE  LET q == QueryOf(e, params)
           IN /\ q.fields # None => IsNameList(q.fields)
              /\ IsNameList(q.exclude)
  <1> DEFINE s == Setting(e, params)
  <1>1. /\ s.fields # None => IsNameList(s.fields)
        /\ s.exclude # None => IsNameList(s.exclude)
    BY DEF Setting, Settings, ListsNames
  <1> HIDE DEF s
  <1>2. IsNameList(<<>>)
    BY DEF IsNameList
  <1>3. /\ QueryOf(e, params).fields = IF s.fields = <<>> THEN None ELSE s.fields
        /\ QueryOf(e, params).exclude = IF s.exclude = None THEN <<>> ELSE s.exclude
    BY DEF QueryOf, s
  <1>4. QED
    BY <1>1, <1>2, <1>3

\* What is excluded is in no host's variables and in no group's.
LEMMA ExcludedIsGone ==
    ASSUME NEW D, PlainIn(D), NEW q, q.fields # None => IsNameList(q.fields),
           IsNameList(q.exclude), NEW i \in DOMAIN q.exclude
    PROVE  LET out == MergeAndFilter(D, q)
           IN /\ \A h \in DOMAIN out.hostvars : Lookup(out.hostvars[h], q.exclude[i]) = None
              /\ \A g \in DOMAIN out.groups :
                    out.groups[g].vars # None => Lookup(out.groups[g].vars, q.exclude[i]) = None
  <1> DEFINE out == MergeAndFilter(D, q)
             groups == MergedGroups(D)
             given == out.groups
  <1>1. ASSUME NEW h \in DOMAIN out.hostvars
        PROVE  Lookup(out.hostvars[h], q.exclude[i]) = None
    <2>1. h \in Chosen(D, q) /\ out.hostvars[h] = ShapeHost(q, MergedVars(D)[h])
      BY MergeInParts
    <2>2. Plain(MergedVars(D)[h])
      BY <2>1, MergedArePlain DEF Chosen
    <2>3. QED
      BY <2>1, <2>2, ShapedHostsAreClean
  <1>2. ASSUME NEW g \in DOMAIN given, given[g].vars # None
        PROVE  Lookup(given[g].vars, q.exclude[i]) = None
    <2>1. /\ DOMAIN given \subseteq DOMAIN groups
          /\ \A x \in DOMAIN given :
                given[x] = [hosts    |-> groups[x].hosts \cap Chosen(D, q),
                            children |-> groups[x].children,
                            vars     |-> ShapeGroupVars(q, groups[x].vars)]
      BY OutputGroups
    <2>2. \A x \in DOMAIN groups : groups[x].vars # None => Plain(groups[x].vars)
      BY MergedArePlain
    <2> HIDE DEF groups, given
    <2>3. given[g].vars = ShapeGroupVars(q, groups[g].vars) /\ g \in DOMAIN groups
      BY <2>1
    <2>4. QED
      BY <1>2, <2>2, <2>3, ShapedGroupsAreClean
  <1>3. QED
    BY <1>1, <1>2

\* out is all without the hosts that are not kept, and these are in the groups
\* their sources have them in.
HasOnlyHosts(out, all, kept, cache, e) ==
    /\ out.hostvars = Restrict(all.hostvars, kept)
    /\ \A g \in DOMAIN out.groups : out.groups[g].hosts \subseteq kept
    /\ \A s \in e.sources : \A g \in DOMAIN cache[s].groups :
          \A h \in kept \cap cache[s].groups[g].hosts :
             g \in DOMAIN out.groups /\ h \in out.groups[g].hosts

\* A limit takes hosts away and nothing else.
LEMMA LimitRestricts ==
    ASSUME NEW cache, NEW e, IsEndpoint(e, cache), Missing(cache, e) = {}, NEW q,
           NEW out, out = MergeAndFilter(Inputs(cache, e), q),
           NEW all, all = MergeAndFilter(Gathered(cache, e), q),
           NEW kept, kept = DOMAIN all.hostvars \cap Allowed(cache, e)
    PROVE  HasOnlyHosts(out, all, kept, cache, e)
  <1> DEFINE D == Gathered(cache, e)
             N == Inputs(cache, e)
             allowed == Allowed(cache, e)
             groups == MergedGroups(N)
             given == out.groups
  <1>1. DOMAIN D = e.sources /\ \A s \in e.sources : D[s] = cache[s]
    BY DEF Gathered, Restrict, IsEndpoint
  <1>2. HasOnly(N, D, allowed)
    BY InputsAreLimited
  <1>3. all = MergeAndFilter(D, q) /\ out = MergeAndFilter(N, q)
    OBVIOUS
  <1> HIDE DEF D, N, allowed
  <1>4. kept = Chosen(N, q)
    <2>1. DOMAIN all.hostvars = Chosen(D, q)
      BY <1>3, MergeInParts
    <2>2. Chosen(N, q) = Chosen(D, q) \cap allowed
      BY <1>2, LimitedOutput
    <2>3. QED
      BY <2>1, <2>2 DEF allowed
  <1>5. out.hostvars = Restrict(all.hostvars, kept)
    BY <1>2, <1>3, <1>4, LimitedOutput
  <1>6. /\ DOMAIN given \subseteq DOMAIN groups
        /\ \A x \in DOMAIN given :
              given[x] = [hosts    |-> groups[x].hosts \cap Chosen(N, q),
                          children |-> groups[x].children,
                          vars     |-> ShapeGroupVars(q, groups[x].vars)]
        /\ \A x \in DOMAIN groups :
              groups[x].hosts \cap Chosen(N, q) # {} => x \in DOMAIN given
    BY <1>3, OutputGroups
  <1> HIDE DEF groups, given
  <1>7. \A g \in DOMAIN given : given[g].hosts \subseteq kept
    BY <1>4, <1>6
  <1>8. ASSUME NEW s \in e.sources, NEW g \in DOMAIN cache[s].groups,
               NEW h \in kept \cap cache[s].groups[g].hosts
        PROVE  g \in DOMAIN given /\ h \in given[g].hosts
    <2>1. h \in allowed
      BY DEF allowed
    <2>2. s \in DOMAIN N /\ g \in DOMAIN N[s].groups /\ h \in N[s].groups[g].hosts
      BY <1>1, <1>2, <2>1 DEF HasOnly
    <2>3. g \in DOMAIN groups /\ h \in groups[g].hosts
      BY <2>2 DEF groups, MergedGroups, Having
    <2>4. QED
      BY <1>4, <1>6, <2>3
  <1>9. QED
    BY <1>5, <1>7, <1>8 DEF HasOnlyHosts, given

-----------------------------------------------------------------------------
(* The rules: what every answer is.                                        *)

\* What the read handlers answer (get_source_dataset and its siblings).
ReadsFit ==
    /\ Answers("source") =>
          /\ request.dataset # None
          /\ response.page = DatasetPage(request.dataset, request.q)
          /\ response.hosts = HostList(request.dataset, request.q)
    /\ Answers("view") =>
          /\ ViewSelected(request.members, request.q) # None
          /\ response.page = ViewPage(request.members, request.q)
          /\ response.hosts = ViewSelected(request.members, request.q)
    /\ Answers("groups") =>
          LET m == request.members[1]
              groups == IF request.of = "source" THEN m.entry.groups
                        ELSE ViewGroups(request.members)
          IN /\ request.of \in {"source", "view"}
             /\ request.of = "source" => m.entry # None
             /\ response.list = GroupList(groups)
             /\ response.detail = GroupDetail(groups, request.group)
    /\ Answers("status") =>
          LET m == request.members[1]
              selection == Select(request.members, request.q.host, request.q.group)
          IN IF request.of = "source"
             THEN /\ m.entry # None
                  /\ response.statuses
                       = SourceStatuses(m, Resolve(m.entry, request.q.host, request.q.group))
             ELSE /\ request.of = "view" /\ selection # None
                  /\ response.age = ViewAge(request.members)
                  /\ response.fresh = ViewFresh(request.members)
                  /\ response.statuses = HostStatuses(request.ttl, request.members, selection)
                  /\ response.members = MemberStatuses(request.ttl, request.members)
    /\ Answers("vars") => response.vars = ShapeHost(request.q, request.vars)
    /\ Answers("name") => response.matches = GlobWalk(request.pattern, request.text)

\* Each handler answers so.
LEMMA ReadsFitStep ==
    ASSUME ReadNext
    PROVE  ReadsFit'
  <1>1. request' = request
    BY DEF ReadNext, ReadSource, ReadView, ReadSourceGroups, ReadViewGroups, ReadSourceStatus,
           ReadViewStatus, ShapeVars, MatchName, Advertise
  <1> DEFINE members == request.members
             q == request.q
             m == members[1]
  <1>2. CASE ReadSource
    <2> DEFINE made == [status |-> 200, page |-> DatasetPage(request.dataset, q),
                        hosts |-> HostList(request.dataset, q)]
    <2>1. request.what = "source"
      BY <1>2 DEF ReadSource, Asked
    <2>2. response'.status = 200 => request.dataset # None /\ response' = made
      BY <1>2 DEF ReadSource
    <2>3. QED
      BY <1>1, <2>1, <2>2 DEF ReadsFit, Answers
  <1>3. CASE ReadView
    <2> DEFINE sel == ViewSelected(members, q)
               made == [status |-> 200, page |-> ViewPage(members, q), hosts |-> sel,
                        age |-> ViewAge(members), fresh |-> ViewFresh(members)]
    <2>1. request.what = "view"
      BY <1>3 DEF ReadView, Asked
    <2>2. response'.status = 200 => sel # None /\ response' = made
      BY <1>3 DEF ReadView
    <2> HIDE DEF sel
    <2>3. response'.status = 200 =>
             sel # None /\ response'.page = ViewPage(members, q) /\ response'.hosts = sel
      BY <2>2
    <2>4. QED
      BY <1>1, <2>1, <2>3 DEF ReadsFit, Answers, sel
  <1>4. CASE ReadSourceGroups
    <2> DEFINE groups == m.entry.groups
               made == [status |-> 200, list |-> GroupList(groups),
                        detail |-> GroupDetail(groups, request.group)]
    <2>1. request.what = "groups" /\ request.of = "source"
      BY <1>4 DEF ReadSourceGroups, Asked
    <2>2. response'.status = 200 => m.entry # None /\ response' = made
      BY <1>4 DEF ReadSourceGroups, ListGroups
    <2> HIDE DEF groups
    <2>3. QED
      BY <1>1, <2>1, <2>2 DEF ReadsFit, Answers, groups
  <1>5. CASE ReadViewGroups
    <2> DEFINE groups == ViewGroups(members)
               made == [status |-> 200, list |-> GroupList(groups),
                        detail |-> GroupDetail(groups, request.group)]
    <2>1. request.what = "groups" /\ request.of = "view"
      BY <1>5 DEF ReadViewGroups, Asked
    <2>2. response' = made
      BY <1>5 DEF ReadViewGroups, ListGroups
    <2> HIDE DEF groups
    <2>3. QED
      BY <1>1, <2>1, <2>2 DEF ReadsFit, Answers, groups
  <1>6. CASE ReadSourceStatus
    <2> DEFINE statuses == SourceStatuses(m, Resolve(m.entry, q.host, q.group))
               total == Cardinality(DOMAIN m.entry.hostvars)
               made == [status |-> 200, age |-> m.age, fresh |-> m.fresh, total |-> total,
                        statuses |-> statuses]
    <2>1. request.what = "status" /\ request.of = "source"
      BY <1>6 DEF ReadSourceStatus, Asked
    <2>2. response'.status = 200 => m.entry # None /\ response' = made
      BY <1>6 DEF ReadSourceStatus
    <2> HIDE DEF statuses, total
    <2>3. response'.status = 200 => m.entry # None /\ response'.statuses = statuses
      BY <2>2
    <2>4. QED
      BY <1>1, <2>1, <2>3 DEF ReadsFit, Answers, statuses
  <1>7. CASE ReadViewStatus
    <2> DEFINE selection == Select(members, q.host, q.group)
               age == ViewAge(members)
               fresh == ViewFresh(members)
               total == Cardinality(ViewHosts(members))
               statuses == HostStatuses(request.ttl, members, selection)
               reports == MemberStatuses(request.ttl, members)
               made == [status |-> 200, age |-> age, fresh |-> fresh, total |-> total,
                        statuses |-> statuses, members |-> reports]
    <2>1. request.what = "status" /\ request.of = "view"
      BY <1>7 DEF ReadViewStatus, Asked
    <2>2. response'.status = 200 => selection # None /\ response' = made
      BY <1>7 DEF ReadViewStatus
    <2> HIDE DEF selection, age, fresh, total, statuses, reports
    <2>3. response'.status = 200 =>
             /\ selection # None /\ response'.age = age /\ response'.fresh = fresh
             /\ response'.statuses = statuses /\ response'.members = reports
      BY <2>2
    <2>4. QED
      BY <1>1, <2>1, <2>3 DEF ReadsFit, Answers, selection, age, fresh, statuses, reports
  <1>8. CASE ShapeVars
    BY <1>1, <1>8 DEF ReadsFit, Answers, ShapeVars, Asked
  <1>9. CASE MatchName
    BY <1>1, <1>9 DEF ReadsFit, Answers, MatchName, Asked
  <1>10. CASE Advertise
    BY <1>1, <1>10 DEF ReadsFit, Answers, Advertise, Asked
  <1>11. QED
    BY <1>2, <1>3, <1>4, <1>5, <1>6, <1>7, <1>8, <1>9, <1>10 DEF ReadNext

\* The answer to each request is what its handler makes of it.
AnswersFit ==
    /\ MayAsk(request)
    /\ ReadsFit
    /\ Answers("endpoint") =>
          /\ request.endpoint # None
          /\ response.answer.status = 200
          /\ response.answer
                = Execute(request.cache, request.endpoint, request.params, request.script)
    /\ Answers("search") =>
          response.found =
             IF request.short THEN [total |-> 0, matches |-> <<>>]
             ELSE Search(request.cache, request.views, request.endpoints, request.key,
                         request.names, request.rank, Max({1, request.limit}))
    /\ Answers("enrich") =>
          response.target = Enriched(request.target, request.source, request.enricher)
    /\ Answers("script") =>
          /\ ~NotAnInventory(request.out)
          /\ response.warnings = Warnings(request.out)
          /\ response.dataset = Synced(request.out, request.full)

\* Reads answer other requests.
LEMMA ReadsAreNoRules ==
    ASSUME ReadNext
    PROVE  /\ request' = request
           /\ request.what \notin {"endpoint", "search", "enrich", "script"}
  <1>1. CASE ReadSource \/ ReadView
    BY <1>1 DEF ReadSource, ReadView, Asked
  <1>2. CASE ReadSourceGroups \/ ReadViewGroups
    BY <1>2 DEF ReadSourceGroups, ReadViewGroups, Asked
  <1>3. CASE ReadSourceStatus \/ ReadViewStatus
    BY <1>3 DEF ReadSourceStatus, ReadViewStatus, Asked
  <1>4. CASE ShapeVars \/ MatchName \/ Advertise
    BY <1>4 DEF ShapeVars, MatchName, Advertise, Asked
  <1>5. QED
    BY <1>1, <1>2, <1>3, <1>4 DEF ReadNext

\* The rules answer none of the requests of the reads.
LEMMA RulesAreNoReads ==
    ASSUME RuleNext
    PROVE  /\ request' = request
           /\ request.what \in {"endpoint", "search", "enrich", "script"}
  <1>1. CASE CallEndpoint
    BY <1>1 DEF CallEndpoint, Asked
  <1>2. CASE SearchHosts
    BY <1>2 DEF SearchHosts, Asked
  <1>3. CASE Enrich
    BY <1>3 DEF Enrich, Asked
  <1>4. CASE ReadScript
    BY <1>4 DEF ReadScript, Asked
  <1>5. QED
    BY <1>1, <1>2, <1>3, <1>4 DEF RuleNext

\* It is so from the first request ...
LEMMA AnswersFitInit == ReadInit => AnswersFit
  BY RequestsAssumption DEF ReadInit, AnswersFit, ReadsFit, Answers

\* ... and through every answer.
LEMMA AnswersFitStep ==
    ASSUME AnswersFit, [ReadNext \/ RuleNext]_<<request, response>>
    PROVE  AnswersFit'
  <1>0. ReadsFit'
    <2>1. CASE UNCHANGED <<request, response>>
      BY <2>1 DEF AnswersFit, ReadsFit, Answers
    <2>2. CASE ReadNext
      BY <2>2, ReadsFitStep
    <2>3. CASE RuleNext
      BY <2>3, RulesAreNoReads DEF ReadsFit, Answers
    <2>4. QED
      BY <2>1, <2>2, <2>3
  <1>1. CASE UNCHANGED <<request, response>>
    BY <1>0, <1>1 DEF AnswersFit, Answers, MayAsk
  <1>2. CASE ReadNext
    <2>1. request' = request /\ request.what \notin {"endpoint", "search", "enrich", "script"}
      BY <1>2, ReadsAreNoRules
    <2>2. MayAsk(request)'
      BY <2>1 DEF AnswersFit
    <2>3. QED
      BY <1>0, <2>1, <2>2 DEF AnswersFit, Answers
  <1>3. CASE CallEndpoint
    <2>1. request' = request /\ request.what = "endpoint" /\ MayAsk(request)'
      BY <1>3 DEF CallEndpoint, Asked, AnswersFit
    <2> DEFINE a == Execute(request.cache, request.endpoint, request.params, request.script)
               made == [status |-> a.status, answer |-> a,
                        counts |-> Counts(request.cache, request.endpoint)]
    <2>2. Answers("endpoint")' =>
             request.endpoint # None /\ response' = made
      BY <1>3 DEF CallEndpoint, Answers
    <2> HIDE DEF a
    <2>3. Answers("endpoint")' =>
             /\ request.endpoint # None /\ response'.answer = a /\ a.status = 200
      BY <2>2 DEF Answers
    <2>4. QED
      BY <1>0, <2>1, <2>3 DEF AnswersFit, Answers, a
  <1>4. CASE SearchHosts
    <2>1. request' = request /\ request.what = "search" /\ MayAsk(request)'
      BY <1>4 DEF SearchHosts, Asked, AnswersFit
    <2>2. QED
      BY <1>0, <1>4, <2>1 DEF AnswersFit, Answers, SearchHosts
  <1>5. CASE Enrich
    <2>1. request' = request /\ request.what = "enrich" /\ MayAsk(request)'
      BY <1>5 DEF Enrich, Asked, AnswersFit
    <2>2. QED
      BY <1>0, <1>5, <2>1 DEF AnswersFit, Answers, Enrich
  <1>6. CASE ReadScript
    <2>1. request' = request /\ request.what = "script" /\ MayAsk(request)'
      BY <1>6 DEF ReadScript, Asked, AnswersFit
    <2>2. QED
      BY <1>0, <1>6, <2>1 DEF AnswersFit, Answers, ReadScript
  <1>7. QED
    BY <1>1, <1>2, <1>3, <1>4, <1>5, <1>6 DEF RuleNext

\* Every answer of an endpoint, the search, an enricher or a script is what the
\* handler makes of its request (execute_endpoint, search, merge, parse_dataset).
THEOREM RulesInvariant == RulesSpec => []AnswersFit
  <1>1. QED
    BY AnswersFitInit, AnswersFitStep, PTL DEF RulesSpec

\* An endpoint's answer respects its limit and its exclusions.
LEMMA EndpointsLimits ==
    ASSUME AnswersFit
    PROVE  EndpointsKeepTheirLimits
  <1> SUFFICES ASSUME Answers("endpoint"), request.endpoint.output \in {"ansible", "json"}
               PROVE  EndpointsKeepTheirLimits
    BY DEF EndpointsKeepTheirLimits, LimitOnlyRestricts, ExcludedStaysOut
  <1> DEFINE e == request.endpoint
             cache == request.cache
             q == QueryOf(e, request.params)
             out == response.answer.body
             all == Execute(cache, Unlimited(e), request.params, "ends").body
             kept == DOMAIN all.hostvars
                       \cap (IF e.limit = None THEN DOMAIN all.hostvars
                             ELSE DOMAIN cache[e.limit].hostvars)
  <1>1. /\ IsEndpoint(e, cache)
        /\ ListsNames(request.params) /\ ListsNames(e.config)
        /\ response.answer.status = 200
        /\ response.answer = Execute(cache, e, request.params, request.script)
    BY DEF AnswersFit, MayAsk, Answers
  <1>2. /\ Missing(cache, e) = {}
        /\ out = MergeAndFilter(Inputs(cache, e), q)
        /\ all = MergeAndFilter(Gathered(cache, e), q)
    BY <1>1, EndpointBody
  <1> HIDE DEF out, all
  <1>3. kept = DOMAIN all.hostvars \cap Allowed(cache, e)
    <2>1. CASE e.limit = None
      <3>1. DOMAIN all.hostvars = Chosen(Gathered(cache, e), q)
        BY <1>2, MergeInParts
      <3>2. Chosen(Gathered(cache, e), q)
              \subseteq UNION {DOMAIN cache[s].hostvars : s \in e.sources}
        BY DEF Chosen, MergedVars, Gathered, Restrict
      <3>3. QED
        BY <2>1, <3>1, <3>2 DEF Allowed, Known
    <2>2. CASE e.limit # None
      BY <2>2 DEF Allowed
    <2>3. QED
      BY <2>1, <2>2
  <1> HIDE DEF kept, q
  <1>4. HasOnlyHosts(out, all, kept, cache, e)
    BY <1>1, <1>2, <1>3, LimitRestricts
  <1>5. LimitOnlyRestricts
    BY <1>4 DEF LimitOnlyRestricts, HasOnlyHosts, out, all, kept, Unlimited
  <1>6. PlainIn(Inputs(cache, e))
    BY <1>1, <1>2, InputsArePlain
  <1>7. (q.fields # None => IsNameList(q.fields)) /\ IsNameList(q.exclude)
    BY <1>1, QueryListsNames DEF q
  <1>8. ASSUME NEW i \in DOMAIN q.exclude
        PROVE  /\ \A h \in DOMAIN out.hostvars : Lookup(out.hostvars[h], q.exclude[i]) = None
               /\ \A g \in DOMAIN out.groups :
                     out.groups[g].vars # None => Lookup(out.groups[g].vars, q.exclude[i]) = None
    BY <1>2, <1>6, <1>7, ExcludedIsGone
  <1>9. ExcludedStaysOut
    BY <1>8 DEF ExcludedStaysOut, out, q
  <1>10. QED
    BY <1>5, <1>9 DEF EndpointsKeepTheirLimits

\* A host the limiting source lists comes out with the variables and groups it
\* has without the limit and no other host does, and nothing excluded leaves,
\* whatever the request asks (apply_limit, merge_and_filter).
THEOREM EndpointLimitsHold == RulesSpec => []EndpointsKeepTheirLimits
  <1>1. QED
    BY RulesInvariant, EndpointsLimits, PTL

-----------------------------------------------------------------------------
(* The host search.                                                        *)

\* The hosts found that come before h: a better match, or the same by name.
Ahead(found, rank, h) ==
    {g \in found : rank[g] < rank[h] \/ (rank[g] = rank[h] /\ g < h)}

\* Each host has a place of its own.
LEMMA AheadIsOrder ==
    ASSUME NEW found, IsFiniteSet(found), found \subseteq Int,
           NEW rank, \A h \in found : rank[h] \in Int, NEW a \in found, NEW b \in found,
           Cardinality(Ahead(found, rank, a)) = Cardinality(Ahead(found, rank, b))
    PROVE  a = b
  <1> DEFINE precedes(x, y) == rank[x] < rank[y] \/ (rank[x] = rank[y] /\ x < y)
             ahead(h) == Ahead(found, rank, h)
  <1>1. ASSUME NEW x \in found, NEW y \in found, precedes(x, y),
               Cardinality(ahead(x)) = Cardinality(ahead(y))
        PROVE  FALSE
    <2>1. ahead(x) \subseteq ahead(y)
      <3>1. ASSUME NEW g \in found, precedes(g, x)
            PROVE  precedes(g, y)
        <4>1. /\ g \in Int /\ x \in Int /\ y \in Int
              /\ rank[g] \in Int /\ rank[x] \in Int /\ rank[y] \in Int
          OBVIOUS
        <4>2. QED
          BY <1>1, <3>1, <4>1
      <3>2. \A h : ahead(h) = {g \in found : precedes(g, h)}
        BY DEF Ahead
      <3> HIDE DEF ahead, precedes
      <3>3. QED
        BY <3>1, <3>2
    <2>2. IsFiniteSet(ahead(y))
      BY FS_Subset DEF Ahead
    <2>3. x \in ahead(y) /\ x \notin ahead(x)
      BY <1>1 DEF Ahead
    <2> HIDE DEF ahead
    <2>4. QED
      BY <1>1, <2>1, <2>2, <2>3, FS_Subset
  <1>2. a = b \/ precedes(a, b) \/ precedes(b, a)
    <2>1. a \in Int /\ b \in Int /\ rank[a] \in Int /\ rank[b] \in Int
      OBVIOUS
    <2>2. QED
      BY <2>1
  <1> HIDE DEF precedes
  <1>3. QED
    BY <1>1, <1>2

\* And as many are found as there are places: none stays empty.
LEMMA PlacesAreTaken ==
    ASSUME NEW found, IsFiniteSet(found), found \subseteq Int,
           NEW rank, \A h \in found : rank[h] \in Int, NEW i \in 1..Cardinality(found)
    PROVE  \E h \in found : Cardinality(Ahead(found, rank, h)) = i - 1
  <1> DEFINE n == Cardinality(found)
             place(h) == Cardinality(Ahead(found, rank, h))
             free == (0..(n - 1)) \ {i - 1}
             f == [h \in found |-> place(h)]
  <1>1. SUFFICES ASSUME \A h \in found : place(h) # i - 1 PROVE FALSE
    OBVIOUS
  <1>2. n \in Nat
    BY FS_CardinalityType
  <1>3. ASSUME NEW h \in found
        PROVE  place(h) \in 0..(n - 1)
    <2> DEFINE ahead == Ahead(found, rank, h)
    <2>1. ahead \subseteq found /\ h \notin ahead
      BY DEF Ahead
    <2> HIDE DEF ahead
    <2>2. /\ IsFiniteSet(ahead) /\ Cardinality(ahead) <= Cardinality(found)
          /\ Cardinality(found) # Cardinality(ahead)
      BY <2>1, FS_Subset
    <2>3. Cardinality(ahead) \in Nat
      BY <2>2, FS_CardinalityType
    <2>4. QED
      BY <1>2, <2>2, <2>3 DEF ahead
  <1>4. IsFiniteSet(free) /\ Cardinality(free) = n - 1
    <2> DEFINE all == 0..(n - 1)
    <2>1. i - 1 \in all /\ 0 \in Int /\ n - 1 \in Int /\ ~(0 > n - 1)
      BY <1>2
    <2> HIDE DEF n
    <2>2. IsFiniteSet(all) /\ Cardinality(all) = n - 1 - 0 + 1
      BY <2>1, FS_Interval
    <2>3. n - 1 - 0 + 1 = n
      BY <1>2
    <2> HIDE DEF all
    <2>4. IsFiniteSet(all \ {i - 1}) /\ Cardinality(all \ {i - 1}) = Cardinality(all) - 1
      BY <2>1, <2>2, FS_RemoveElement
    <2>5. Cardinality(all \ {i - 1}) = n - 1
      BY <2>2, <2>3, <2>4
    <2>6. QED
      BY <2>4, <2>5 DEF all
  <1>5. f \in [found -> free]
    BY <1>1, <1>3
  <1>6. Cardinality(free) < Cardinality(found)
    BY <1>2, <1>4
  <1> HIDE DEF free, f
  <1>7. \E x, y \in found : x # y /\ f[x] = f[y]
    BY <1>4, <1>5, <1>6, FS_PigeonHole
  <1>8. PICK x \in found, y \in found : x # y /\ place(x) = place(y)
    BY <1>7 DEF f
  <1>9. QED
    BY <1>8, AheadIsOrder

\* The smaller of two numbers is one of them and at most the other.
LEMMA LeastOfTwo ==
    ASSUME NEW a \in Int, NEW b \in Int
    PROVE  Min({a, b}) \in {a, b} /\ Min({a, b}) <= a /\ Min({a, b}) <= b
  BY DEF Min

\* The hosts an answer of an endpoint has, and whether a call with no
\* parameters answers with h.
HostsOut(a, output) ==
    IF output = None THEN UNION {DOMAIN a.given[s].hostvars : s \in DOMAIN a.given}
    ELSE IF output = "csv" THEN DOMAIN a.body.rows
    ELSE DOMAIN a.body.hostvars

Returns(cache, e, h) ==
    LET a == Execute(cache, e, NoParams, "ends")
    IN a.status = 200 /\ h \in HostsOut(a, e.output)

\* An endpoint that configures nothing filters nothing.
LEMMA NoSettingsNoFilter ==
    ASSUME NEW e, ~HasConfig(e)
    PROVE  LET q == QueryOf(e, NoParams)
           IN ~ParamsRefused(e, NoParams) /\ FilterIsEmpty(q) /\ q.group = None
  <1> DEFINE s == Setting(e, NoParams)
             q == QueryOf(e, NoParams)
  <1>1. s.patterns = None /\ s.group = None /\ s.filter = None
    BY DEF HasConfig, Setting, Settings, NoParams
  <1> HIDE DEF s
  <1>2. q.patterns = None /\ q.group = None /\ q.filter = {}
    BY <1>1 DEF QueryOf, s
  <1> HIDE DEF q
  <1>3. QED
    BY <1>2 DEF FilterIsEmpty, ParamsRefused, NoParams, q

\* Which hosts an endpoint is given.
LEMMA GivenHosts ==
    ASSUME NEW cache, NEW e, IsEndpoint(e, cache), Missing(cache, e) = {}, NEW h
    PROVE  h \in UNION {DOMAIN Inputs(cache, e)[s].hostvars : s \in DOMAIN Inputs(cache, e)}
              <=> IF e.limit # None THEN e.limit \in Holders(cache, h)
                  ELSE e.sources \cap Holders(cache, h) # {}
  <1> DEFINE D == Gathered(cache, e)
             N == Inputs(cache, e)
  <1>1. DOMAIN D = e.sources /\ \A s \in e.sources : D[s] = cache[s] /\ cache[s] # None
    BY DEF Gathered, Restrict, Missing, IsEndpoint
  <1>2. HasOnly(N, D, Allowed(cache, e))
    BY InputsAreLimited
  <1>3. e.sources \subseteq DOMAIN cache /\ e.limit \in e.sources \cup {None}
    BY DEF IsEndpoint
  <1> HIDE DEF D, N
  <1>4. \A s \in e.sources : s \in Holders(cache, h) <=> h \in DOMAIN D[s].hostvars
    BY <1>1, <1>3 DEF Holders
  <1>5. /\ DOMAIN N = e.sources
        /\ \A s \in e.sources :
              h \in DOMAIN N[s].hostvars <=> h \in Allowed(cache, e) /\ h \in DOMAIN D[s].hostvars
    BY <1>1, <1>2 DEF HasOnly
  <1>6. CASE e.limit = None
    <2>1. \A s \in e.sources : h \in DOMAIN D[s].hostvars => h \in Allowed(cache, e)
      BY <1>1, <1>6 DEF Allowed, Known
    <2>2. QED
      BY <1>4, <1>5, <1>6, <2>1 DEF N
  <1>7. CASE e.limit # None
    <2>1. h \in Allowed(cache, e) <=> e.limit \in Holders(cache, h)
      BY <1>1, <1>3, <1>4, <1>7 DEF Allowed
    <2>2. QED
      BY <1>3, <1>4, <1>5, <1>7, <2>1 DEF N
  <1>8. QED
    BY <1>6, <1>7

\* What is not filtered comes out.
LEMMA UnfilteredHosts ==
    ASSUME NEW D, NEW q, FilterIsEmpty(q), q.group = None
    PROVE  DOMAIN MergeAndFilter(D, q).hostvars = UNION {DOMAIN D[s].hostvars : s \in DOMAIN D}
  <1>1. DOMAIN MergedVars(D) = UNION {DOMAIN D[s].hostvars : s \in DOMAIN D}
    BY DEF MergedVars
  <1>2. Chosen(D, q) = DOMAIN MergedVars(D)
    BY DEF Chosen, NamedBy
  <1>3. QED
    BY <1>1, <1>2, MergeInParts

\* A builtin's call answers with the hosts its settings choose, as a table too.
LEMMA BuiltinsReturn ==
    ASSUME NEW cache, NEW e, e.output # None, Missing(cache, e) = {}, NEW h
    PROVE  Returns(cache, e, h)
              <=> /\ ~ParamsRefused(e, NoParams)
                  /\ h \in DOMAIN MergeAndFilter(Inputs(cache, e), QueryOf(e, NoParams)).hostvars
  <1> DEFINE q == QueryOf(e, NoParams)
             merged == MergeAndFilter(Inputs(cache, e), q)
             a == Execute(cache, e, NoParams, "ends")
  <1>1. ParamsRefused(e, NoParams) => a.status # 200
    BY DEF Execute
  <1>2. ~ParamsRefused(e, NoParams) =>
           a = [status |-> 200, body |-> Rendered(e.output, merged, q)]
    BY DEF Execute, Transformed
  <1> HIDE DEF merged, a, q
  <1>3. ~ParamsRefused(e, NoParams) => HostsOut(a, e.output) = DOMAIN merged.hostvars
    BY <1>2 DEF HostsOut, Rendered
  <1>4. ~ParamsRefused(e, NoParams) => a.status = 200
    BY <1>2
  <1>5. Returns(cache, e, h) <=> a.status = 200 /\ h \in HostsOut(a, e.output)
    BY DEF Returns, a
  <1>6. QED
    BY <1>1, <1>3, <1>4, <1>5 DEF merged, q

\* The search's shortcut is what a call would answer.
LEMMA ReachesWhatReturns ==
    ASSUME NEW cache, NEW e, IsEndpoint(e, cache), NEW h
    PROVE  Reaches(cache, e, h) <=> Returns(cache, e, h)
  <1> DEFINE given == UNION {DOMAIN Inputs(cache, e)[s].hostvars : s \in DOMAIN Inputs(cache, e)}
             holds == IF e.limit # None THEN e.limit \in Holders(cache, h)
                      ELSE e.sources \cap Holders(cache, h) # {}
  <1>1. CASE Missing(cache, e) # {}
    <2>1. Execute(cache, e, NoParams, "ends").status # 200
      BY <1>1 DEF Execute
    <2>2. QED
      BY <1>1, <2>1 DEF Reaches, Returns
  <1>2. CASE Missing(cache, e) = {} /\ e.output # None /\ HasConfig(e)
    <2>1. Reaches(cache, e, h) <=> h \in DefaultHosts(cache, e)
      BY <1>2 DEF Reaches
    <2>2. QED
      BY <1>2, <2>1, BuiltinsReturn DEF DefaultHosts
  <1>3. CASE Missing(cache, e) = {} /\ e.output # None /\ ~HasConfig(e)
    <2>1. Reaches(cache, e, h) <=> holds
      BY <1>3 DEF Reaches
    <2>2. h \in given <=> holds
      BY <1>3, GivenHosts
    <2> DEFINE q == QueryOf(e, NoParams)
    <2>3. ~ParamsRefused(e, NoParams) /\ FilterIsEmpty(q) /\ q.group = None
      BY <1>3, NoSettingsNoFilter
    <2> HIDE DEF q
    <2>4. DOMAIN MergeAndFilter(Inputs(cache, e), q).hostvars = given
      BY <2>3, UnfilteredHosts
    <2>5. Returns(cache, e, h) <=> h \in given
      BY <1>3, <2>3, <2>4, BuiltinsReturn DEF q
    <2> HIDE DEF given, holds
    <2>6. QED
      BY <2>1, <2>2, <2>5
  <1>4. CASE Missing(cache, e) = {} /\ e.output = None
    <2>1. Reaches(cache, e, h) <=> holds
      BY <1>4 DEF Reaches
    <2>2. h \in given <=> holds
      BY <1>4, GivenHosts
    <2>3. Execute(cache, e, NoParams, "ends") = [status |-> 200, given |-> Inputs(cache, e)]
      BY <1>4 DEF Execute, Transformed
    <2>4. Returns(cache, e, h) <=> h \in given
      BY <1>4, <2>3 DEF Returns, HostsOut
    <2> HIDE DEF given, holds
    <2>5. QED
      BY <2>1, <2>2, <2>4
  <1>5. QED
    BY <1>1, <1>2, <1>3, <1>4

\* The search's answer is about what its key may read, and true.
LEMMA SearchIsTrue ==
    ASSUME AnswersFit
    PROVE  SearchSaysWhatEndpointsReturn
  <1> DEFINE cache == request.cache
             key == request.key
             endpoints == request.endpoints
             limit == Max({1, request.limit})
             sources(h) == Holders(cache, h) \cap key.sources
             serving(h) == {v \in DOMAIN request.views \cap key.sources :
                               h \in ViewHosts(request.views[v])}
             found == {h \in request.names : sources(h) \cup serving(h) # {}}
             nthOf(k) == CHOOSE h \in found : Cardinality(Ahead(found, request.rank, h)) = k - 1
             mayRun == DOMAIN endpoints \cap key.endpoints
             entry(h) == [host |-> h, sources |-> sources(h) \cup serving(h),
                          endpoints |-> {e \in mayRun : Reaches(cache, endpoints[e], h)}]
             matches == response.found.matches
  <1>1. SUFFICES ASSUME Answers("search"), NEW i \in DOMAIN matches
                 PROVE  /\ matches[i].sources # {} /\ matches[i].sources \subseteq key.sources
                        /\ matches[i].endpoints
                              = {e \in mayRun : Returns(cache, endpoints[e], matches[i].host)}
    BY DEF SearchSaysWhatEndpointsReturn, Returns, HostsOut
  <1>2. /\ request.limit \in Nat
        /\ IsFiniteSet(request.names) /\ request.names \subseteq Int
        /\ \A h \in request.names : request.rank[h] \in Int
        /\ \A e \in mayRun : IsEndpoint(endpoints[e], cache)
    BY <1>1 DEF AnswersFit, MayAsk, Answers
  <1>3. ~request.short
    BY <1>1 DEF AnswersFit
  <1>4. response.found = Search(cache, request.views, endpoints, key,
                                request.names, request.rank, limit)
    BY <1>1, <1>3 DEF AnswersFit
  <1>5. matches = [k \in 1..Min({limit, Cardinality(found)}) |-> entry(nthOf(k))]
    BY <1>4 DEF Search, Ahead
  <1>6. IsFiniteSet(found) /\ found \subseteq Int /\ \A h \in found : request.rank[h] \in Int
    BY <1>2, FS_Subset
  <1>7. limit \in Int
    BY <1>2 DEF Max
  <1> HIDE DEF limit, entry, nthOf, matches
  <1>8. i \in 1..Cardinality(found)
    <2> DEFINE n == Cardinality(found)
               least == Min({limit, n})
    <2>1. n \in Nat
      BY <1>6, FS_CardinalityType
    <2>2. i \in 1..least
      BY <1>5
    <2> HIDE DEF n
    <2>3. least \in Int /\ least <= n
      <3>1. n \in Int
        BY <2>1
      <3>2. least \in {limit, n} /\ least <= n
        BY <1>7, <3>1, LeastOfTwo
      <3> HIDE DEF least
      <3>3. QED
        BY <1>7, <3>1, <3>2
    <2> HIDE DEF least
    <2>4. i \in 1..n
      BY <2>1, <2>2, <2>3
    <2>5. QED
      BY <2>4 DEF n
  <1>9. nthOf(i) \in found
    <2> HIDE DEF found
    <2>1. \E h \in found : Cardinality(Ahead(found, request.rank, h)) = i - 1
      BY <1>6, <1>8, PlacesAreTaken
    <2>2. QED
      BY <2>1 DEF nthOf
  <1>10. matches[i] = entry(nthOf(i))
    BY <1>5
  <1>11. \A e \in mayRun :
            Reaches(cache, endpoints[e], nthOf(i)) <=> Returns(cache, endpoints[e], nthOf(i))
    BY <1>2, ReachesWhatReturns
  <1>12. QED
    BY <1>9, <1>10, <1>11 DEF entry

\* The search names a host only to a key that may read it where it stands, and
\* an endpoint exactly when its call would answer with the host (search,
\* default_hosts, execute_endpoint).
THEOREM SearchIsTruthful == RulesSpec => []SearchSaysWhatEndpointsReturn
  <1>1. QED
    BY RulesInvariant, SearchIsTrue, PTL

-----------------------------------------------------------------------------
(* Merging and reading back.                                               *)

\* What an enricher takes is laid over what was there; nothing excluded is.
LEMMA TakenCross ==
    ASSUME NEW e, NEW own, NEW from
    PROVE  LET new == Over(TakenVars(from, e), own)
           IN /\ DOMAIN own \subseteq DOMAIN new
              /\ \A v \in DOMAIN new :
                    \/ v \in DOMAIN own /\ new[v] = own[v]
                    \/ /\ v \in DOMAIN from /\ new[v] = from[v]
                       /\ e.fieldsExcluded = None \/ v \notin e.fieldsExcluded
  BY DEF Over, TakenVars, Restrict, Admits

\* And alone, where nothing was there.
LEMMA TakenAlone ==
    ASSUME NEW e, NEW from, NEW v \in DOMAIN TakenVars(from, e)
    PROVE  /\ v \in DOMAIN from /\ TakenVars(from, e)[v] = from[v]
           /\ e.fieldsExcluded = None \/ v \notin e.fieldsExcluded
  BY DEF TakenVars, Restrict, Admits

\* A declarative enricher's answer keeps hosts and members, and moves variables.
LEMMA EnrichmentMovesVariables ==
    ASSUME AnswersFit
    PROVE  OnlyVariablesCross
  <1> DEFINE target == request.target
             source == request.source
             e == request.enricher
             new == response.target
             free(old, later, from, name) ==
                \A v \in DOMAIN later :
                    \/ v \in DOMAIN old /\ later[v] = old[v]
                    \/ /\ v \in DOMAIN from /\ later[v] = from[v]
                       /\ e.fieldsExcluded = None \/ v \notin e.fieldsExcluded
                       /\ name = None \/ e.groupsExcluded = None \/ name \notin e.groupsExcluded
             varsOf(d, g) == IF g \in DOMAIN d.groups /\ d.groups[g].vars # None
                             THEN d.groups[g].vars ELSE <<>>
             hosts == {h \in DOMAIN target.hostvars \cap DOMAIN source.hostvars :
                          TakenVars(source.hostvars[h], e) # <<>>}
             groups == {g \in DOMAIN source.groups :
                          /\ source.groups[g].vars # None
                          /\ Admits(g, e.groups, e.groupsExcluded)
                          /\ TakenVars(source.groups[g].vars, e) # <<>>}
             crossing(g) == TakenVars(source.groups[g].vars, e)
             group(g) ==
                IF g \notin DOMAIN target.groups
                THEN [hosts |-> IF g = "all" THEN DOMAIN target.hostvars ELSE {},
                      children |-> {}, vars |-> crossing(g)]
                ELSE LET own == target.groups[g].vars
                     IN [target.groups[g] EXCEPT
                            !.vars = IF own = None THEN crossing(g) ELSE Over(crossing(g), own)]
  <1>1. SUFFICES ASSUME Answers("enrich")
        PROVE  /\ DOMAIN new.hostvars = DOMAIN target.hostvars
               /\ \A g \in DOMAIN target.groups :
                     g \in DOMAIN new.groups /\ new.groups[g].hosts = target.groups[g].hosts
               /\ \A g \in DOMAIN new.groups :
                     /\ g \in DOMAIN target.groups
                           \/ new.groups[g].hosts \subseteq DOMAIN target.hostvars
                     /\ DOMAIN varsOf(target, g) \subseteq DOMAIN varsOf(new, g)
                     /\ free(varsOf(target, g), varsOf(new, g), varsOf(source, g), g)
               /\ \A h \in DOMAIN new.hostvars :
                     /\ DOMAIN target.hostvars[h] \subseteq DOMAIN new.hostvars[h]
                     /\ h \in DOMAIN source.hostvars
                           => free(target.hostvars[h], new.hostvars[h], source.hostvars[h], None)
    BY DEF OnlyVariablesCross
  <1>2. new = [hostvars |-> [h \in DOMAIN target.hostvars |->
                               IF h \in hosts THEN Over(TakenVars(source.hostvars[h], e),
                                                        target.hostvars[h])
                               ELSE target.hostvars[h]],
               groups |-> [g \in DOMAIN target.groups \cup groups |->
                               IF g \in groups THEN group(g) ELSE target.groups[g]]]
    BY <1>1 DEF AnswersFit, Enriched
  <1>3. \A g \in DOMAIN target.groups :
           /\ target.groups[g] = GroupRead(target.groups[g])
           /\ g \in DOMAIN source.groups =>
                 NoneIsNoMerge(target.groups[g].vars, source.groups[g].vars)
    BY <1>1 DEF AnswersFit, MayAsk, Answers
  <1> HIDE DEF new, group, groups, hosts
  <1>4. /\ DOMAIN new.hostvars = DOMAIN target.hostvars
        /\ DOMAIN new.groups = DOMAIN target.groups \cup groups
        /\ \A g \in DOMAIN new.groups :
              new.groups[g] = IF g \in groups THEN group(g) ELSE target.groups[g]
        /\ \A h \in DOMAIN target.hostvars :
              new.hostvars[h] = IF h \in hosts THEN Over(TakenVars(source.hostvars[h], e),
                                                         target.hostvars[h])
                                ELSE target.hostvars[h]
    BY <1>2
  <1>5. ASSUME NEW g \in groups, g \in DOMAIN target.groups
        PROVE  LET own == target.groups[g].vars
               IN /\ group(g).hosts = target.groups[g].hosts
                  /\ group(g).vars = IF own = None THEN crossing(g) ELSE Over(crossing(g), own)
    <2> DEFINE own == target.groups[g].vars
    <2>1. target.groups[g] = [hosts |-> target.groups[g].hosts,
                              children |-> target.groups[g].children, vars |-> own]
      BY <1>3, <1>5 DEF GroupRead
    <2>2. group(g) = [target.groups[g] EXCEPT
                         !.vars = IF own = None THEN crossing(g) ELSE Over(crossing(g), own)]
      BY <1>5 DEF group
    <2> HIDE DEF own, crossing
    <2>3. QED
      BY <2>1, <2>2 DEF own
  <1>6. ASSUME NEW g \in DOMAIN target.groups
        PROVE  g \in DOMAIN new.groups /\ new.groups[g].hosts = target.groups[g].hosts
    BY <1>4, <1>5
  <1>7. ASSUME NEW g \in DOMAIN new.groups
        PROVE  /\ g \in DOMAIN target.groups
                     \/ new.groups[g].hosts \subseteq DOMAIN target.hostvars
               /\ DOMAIN varsOf(target, g) \subseteq DOMAIN varsOf(new, g)
               /\ free(varsOf(target, g), varsOf(new, g), varsOf(source, g), g)
    <2>1. g \in groups => /\ varsOf(source, g) = source.groups[g].vars
                          /\ e.groupsExcluded = None \/ g \notin e.groupsExcluded
                          /\ g \in DOMAIN source.groups /\ source.groups[g].vars # None
      BY DEF groups, Admits
    <2>2. ASSUME g \in groups, new.groups[g].vars = crossing(g), varsOf(target, g) = <<>>
          PROVE  /\ DOMAIN varsOf(target, g) \subseteq DOMAIN varsOf(new, g)
                 /\ free(varsOf(target, g), varsOf(new, g), varsOf(source, g), g)
      <3>1. varsOf(new, g) = <<>> \/ varsOf(new, g) = crossing(g)
        BY <2>2
      <3>2. DOMAIN varsOf(target, g) = {}
        BY <2>2
      <3> HIDE DEF varsOf
      <3>3. CASE varsOf(new, g) = <<>>
        BY <3>2, <3>3
      <3>4. CASE varsOf(new, g) = crossing(g)
        BY <2>1, <2>2, <3>2, <3>4, TakenAlone
      <3>5. QED
        BY <3>1, <3>3, <3>4
    <2>3. CASE g \notin groups
      <3>1. new.groups[g] = target.groups[g] /\ g \in DOMAIN target.groups
        BY <1>4, <2>3
      <3>2. varsOf(new, g) = varsOf(target, g)
        BY <3>1
      <3> HIDE DEF varsOf
      <3>3. QED
        BY <3>1, <3>2
    <2>4. CASE g \in groups /\ g \notin DOMAIN target.groups
      <3>1. new.groups[g] = [hosts |-> IF g = "all" THEN DOMAIN target.hostvars ELSE {},
                             children |-> {}, vars |-> crossing(g)]
        BY <1>4, <2>4 DEF group
      <3>2. new.groups[g].hosts \subseteq DOMAIN target.hostvars
        BY <3>1
      <3>3. new.groups[g].vars = crossing(g) /\ varsOf(target, g) = <<>>
        BY <2>4, <3>1
      <3> HIDE DEF varsOf, crossing, free
      <3>4. QED
        BY <2>2, <2>4, <3>2, <3>3
    <2>5. CASE g \in groups /\ g \in DOMAIN target.groups /\ target.groups[g].vars = None
      <3>1. new.groups[g].vars = crossing(g)
        BY <1>4, <1>5, <2>5
      <3>2. varsOf(target, g) = <<>>
        BY <2>5
      <3> HIDE DEF varsOf, crossing, free
      <3>3. QED
        BY <2>2, <2>5, <3>1, <3>2
    <2>6. CASE g \in groups /\ g \in DOMAIN target.groups /\ target.groups[g].vars # None
      <3> DEFINE own == target.groups[g].vars
                 from == source.groups[g].vars
      <3>1. new.groups[g].vars = Over(TakenVars(from, e), own)
        BY <1>4, <1>5, <2>6
      <3>2. Over(TakenVars(from, e), own) # None
        BY <1>3, <2>1, <2>6 DEF NoneIsNoMerge, TakenVars
      <3>3. varsOf(new, g) = Over(TakenVars(from, e), own) /\ varsOf(target, g) = own
        BY <2>6, <3>1, <3>2
      <3> HIDE DEF varsOf
      <3>4. QED
        BY <2>1, <2>6, <3>3, TakenCross
    <2>7. QED
      BY <2>3, <2>4, <2>5, <2>6
  <1>8. ASSUME NEW h \in DOMAIN new.hostvars
        PROVE  /\ DOMAIN target.hostvars[h] \subseteq DOMAIN new.hostvars[h]
               /\ h \in DOMAIN source.hostvars
                     => free(target.hostvars[h], new.hostvars[h], source.hostvars[h], None)
    <2>1. CASE h \in hosts
      <3>1. new.hostvars[h] = Over(TakenVars(source.hostvars[h], e), target.hostvars[h])
        BY <1>4, <2>1
      <3>2. QED
        BY <3>1, TakenCross
    <2>2. CASE h \notin hosts
      BY <1>4, <2>2
    <2>3. QED
      BY <2>1, <2>2
  <1> HIDE DEF varsOf, free
  <1>9. QED
    BY <1>4, <1>6, <1>7, <1>8

\* Hosts join those there are, which keep their variables.
LEMMA HostsJoin ==
    ASSUME NEW hostvars, NEW hosts
    PROVE  /\ DOMAIN WithHosts(hostvars, hosts) = DOMAIN hostvars \cup hosts
           /\ \A h \in DOMAIN hostvars : WithHosts(hostvars, hosts)[h] = hostvars[h]
  BY DEF WithHosts

\* A script's inventory loses no host, group or variable of what it names in the
\* reading of a sync (from_ansible_inventory, add_group_members), but those of
\* Ansible's own groups with a warning; for any inventory.
THEOREM ScriptsHostsAreRemembered ==
    ASSUME NEW out, NEW full \in BOOLEAN
    PROVE  RemembersEveryHost(out, full, Synced(out, full), Warnings(out))
  <1> DEFINE printed == IF out.meta = "hostvars" THEN out.hostvars ELSE <<>>
             given == IF out.meta = "hostvars" THEN DOMAIN out.hostvars ELSE {}
             named(names) == UNION {out.groups[n].hosts : n \in names \cap DOMAIN out.groups}
             ordinary == DOMAIN out.groups \ MetaGroups
             groups == [name \in ordinary |-> GroupRead(out.groups[name])]
             first == WithHosts(printed, Remembered(out))
             synced == Synced(out, full)
  <1>1. DOMAIN printed = given /\ \A h \in given : printed[h] = out.hostvars[h]
    OBVIOUS
  <1>2. Remembered(out) = named(MetaGroups)
    <2>1. MetaGroups \cap DOMAIN out.groups = DOMAIN out.groups \cap MetaGroups
      OBVIOUS
    <2>2. QED
      BY DEF Remembered
  <1>3. FromAnsible(out) = [hostvars |-> first, groups |-> groups]
    BY DEF FromAnsible
  <1>4. /\ DOMAIN first = given \cup named(MetaGroups)
        /\ \A h \in given : first[h] = out.hostvars[h]
    <2> HIDE DEF printed, given, named
    <2>1. QED
      BY <1>1, <1>2, HostsJoin
  <1>5. /\ DOMAIN groups = ordinary
        /\ \A n \in ordinary : /\ groups[n].hosts = out.groups[n].hosts
                               /\ groups[n].vars = out.groups[n].vars
    BY DEF GroupRead
  <1>6. named(ordinary) = UNION {groups[g].hosts : g \in DOMAIN groups}
    <2>1. ordinary \cap DOMAIN out.groups = DOMAIN groups
      BY <1>5
    <2>2. \A n \in DOMAIN groups : groups[n].hosts = out.groups[n].hosts
      BY <1>5
    <2> HIDE DEF groups, ordinary
    <2>3. QED
      BY <2>1, <2>2
  <1>7. named(MetaGroups) \cup named(ordinary) = named(DOMAIN out.groups)
    OBVIOUS
  <1> HIDE DEF named, groups, given, first, ordinary
  <1>8. CASE full
    <2>1. synced = [hostvars |-> WithHosts(first, named(ordinary)), groups |-> groups]
      BY <1>3, <1>6, <1>8 DEF Synced, AddGroupMembers
    <2>2. synced.hostvars = WithHosts(first, named(ordinary)) /\ synced.groups = groups
      BY <2>1
    <2>3. /\ DOMAIN synced.hostvars = given \cup named(DOMAIN out.groups)
          /\ \A h \in given : synced.hostvars[h] = out.hostvars[h]
      <3> HIDE DEF synced
      <3>1. DOMAIN synced.hostvars = DOMAIN first \cup named(ordinary)
        BY <2>2, HostsJoin
      <3>2. \A h \in DOMAIN first : synced.hostvars[h] = first[h]
        <4> DEFINE joined == WithHosts(first, named(ordinary))
        <4>1. \A h \in DOMAIN first : joined[h] = first[h]
          BY HostsJoin
        <4> HIDE DEF joined
        <4>2. synced.hostvars = joined
          BY <2>2 DEF joined
        <4>3. QED
          BY <4>1, <4>2
      <3>3. named(MetaGroups) \cup named(ordinary) = named(DOMAIN out.groups)
        BY <1>7
      <3>4. QED
        BY <1>4, <3>1, <3>2, <3>3
    <2>4. QED
      BY <1>5, <1>8, <2>2, <2>3
         DEF RemembersEveryHost, Warnings, MetaGroups, given, named, ordinary
  <1>9. CASE ~full
    <2>1. synced.hostvars = first /\ synced.groups = groups
      BY <1>3, <1>9 DEF Synced
    <2>2. QED
      BY <1>4, <1>5, <1>9, <2>1
         DEF RemembersEveryHost, Warnings, MetaGroups, given, named, ordinary
  <1>10. QED
    BY <1>8, <1>9

\* "Ansible dynamic inventory is the inverse of from_ansible_inventory"
\* (output.rs:5): any hosts, variables and groups that are printed are read back
\* as they were, if no group has a name of Ansible's own and groups have no host
\* the inventory does not.
THEOREM PrintedInventoriesReadBack ==
    ASSUME NEW hostvars, NEW groups,
           hostvars = [h \in DOMAIN hostvars |-> hostvars[h]],
           groups = [g \in DOMAIN groups |-> groups[g]],
           DOMAIN groups \cap MetaGroups = {},
           \A g \in DOMAIN groups :
               /\ groups[g] = GroupRead(groups[g])
               /\ groups[g].hosts \subseteq DOMAIN hostvars
    PROVE  ReadsBack(hostvars, groups)
  <1> DEFINE back == Printed(hostvars, groups)
             synced == [hostvars |-> hostvars, groups |-> groups]
  <1>1. /\ back.meta = "hostvars" /\ back.hostvars = hostvars
        /\ DOMAIN back.groups = DOMAIN groups
        /\ \A n \in DOMAIN groups :
              /\ back.groups[n].form = "object" /\ back.groups[n].typed = TRUE
              /\ back.groups[n].fields \subseteq GroupFields
              /\ GroupRead(back.groups[n]) = groups[n]
              /\ back.groups[n].vars = groups[n].vars
    BY DEF Printed, GroupFields, GroupRead
  <1> HIDE DEF back
  <1>2. ~NotAnInventory(back)
    BY <1>1 DEF NotAnInventory, BadGroup
  <1>3. MetaGroups \cap DOMAIN back.groups = {}
    BY <1>1
  <1>4. Warnings(back) = {}
    <2>1. {n \in DOMAIN back.groups : back.groups[n].form = "object"
                                     /\ back.groups[n].fields \ GroupFields # {}} = {}
      BY <1>1
    <2>2. {n \in MetaGroups \cap DOMAIN back.groups : back.groups[n].vars # <<>>} = {}
      BY <1>3
    <2>3. \A tag : {<<n, tag>> : n \in {}} = {}
      OBVIOUS
    <2>4. back.meta # "none"
      BY <1>1
    <2>5. QED
      BY <2>1, <2>2, <2>3, <2>4 DEF Warnings
  <1>5. \A hosts : hosts \subseteq DOMAIN hostvars => WithHosts(hostvars, hosts) = hostvars
    BY DEF WithHosts
  <1>6. FromAnsible(back) = synced
    <2>1. Remembered(back) = {}
      BY <1>3 DEF Remembered
    <2>2. WithHosts(back.hostvars, Remembered(back)) = hostvars
      BY <1>1, <1>5, <2>1
    <2>3. [name \in DOMAIN back.groups \ MetaGroups |-> GroupRead(back.groups[name])] = groups
      <3>1. DOMAIN back.groups \ MetaGroups = DOMAIN groups
        BY <1>1
      <3>2. QED
        BY <1>1, <3>1
    <2>4. QED
      BY <1>1, <2>2, <2>3 DEF FromAnsible
  <1>7. AddGroupMembers(synced) = synced
    <2>1. UNION {groups[g].hosts : g \in DOMAIN groups} \subseteq DOMAIN hostvars
      OBVIOUS
    <2>2. QED
      BY <1>5, <2>1 DEF AddGroupMembers
  <1>8. Synced(back, TRUE) = synced
    BY <1>6, <1>7 DEF Synced
  <1>9. QED
    BY <1>2, <1>4, <1>8 DEF ReadsBack, back
\* So a script's answer forgets none of the hosts it names ...
LEMMA ScriptsAreRemembered ==
    ASSUME AnswersFit
    PROVE  NoHostIsForgotten
  <1>1. SUFFICES ASSUME Answers("script")
                 PROVE  RemembersEveryHost(request.out, request.full, response.dataset,
                                           response.warnings)
    BY DEF NoHostIsForgotten
  <1>2. /\ request.full \in BOOLEAN
        /\ response.warnings = Warnings(request.out)
        /\ response.dataset = Synced(request.out, request.full)
    BY <1>1 DEF AnswersFit, MayAsk, Answers
  <1>3. QED
    BY <1>2, ScriptsHostsAreRemembered

\* ... and what an endpoint prints reads back as what it answered.
LEMMA OutputsReadBack ==
    ASSUME AnswersFit
    PROVE  OutputReadsBack
  <1> DEFINE e == request.endpoint
             cache == request.cache
             q == QueryOf(e, request.params)
             body == response.answer.body
             plain(g) == [g EXCEPT !.vars = IF @ = None THEN <<>> ELSE @]
             groups == [g \in DOMAIN body.groups |-> plain(body.groups[g])]
             N == Inputs(cache, e)
             D == Gathered(cache, e)
  <1>1. SUFFICES ASSUME Answers("endpoint"), e.output = "ansible"
                 PROVE  ReadsBack(body.hostvars, groups)
    BY DEF OutputReadsBack
  <1>2. /\ IsEndpoint(e, cache)
        /\ response.answer.status = 200
        /\ response.answer = Execute(cache, e, request.params, request.script)
    BY <1>1 DEF AnswersFit, MayAsk, Answers
  <1>3. Missing(cache, e) = {} /\ body = MergeAndFilter(N, q)
    BY <1>1, <1>2, EndpointBody
  <1>4. HasOnly(N, D, Allowed(cache, e))
    BY <1>2, <1>3, InputsAreLimited
  <1>5. DOMAIN D = e.sources /\ \A s \in e.sources : D[s] = cache[s] /\ IsDataset(cache[s])
    BY <1>2, <1>3 DEF Gathered, Restrict, Missing, IsEndpoint
  <1> HIDE DEF body, q, N, D
  <1>6. body.hostvars = [h \in Chosen(N, q) |-> ShapeHost(q, MergedVars(N)[h])]
    BY <1>3, MergeInParts
  <1>7. /\ DOMAIN body.groups \subseteq DOMAIN MergedGroups(N)
        /\ \A g \in DOMAIN body.groups :
              body.groups[g] = [hosts    |-> MergedGroups(N)[g].hosts \cap Chosen(N, q),
                                children |-> MergedGroups(N)[g].children,
                                vars     |-> ShapeGroupVars(q, MergedGroups(N)[g].vars)]
    BY <1>3, OutputGroups
  <1>8. ASSUME NEW g \in DOMAIN body.groups
        PROVE  g \notin MetaGroups
    <2>1. PICK s \in DOMAIN N : g \in DOMAIN N[s].groups
      BY <1>7 DEF MergedGroups
    <2>2. s \in e.sources /\ g \in DOMAIN cache[s].groups
      BY <1>4, <1>5, <2>1 DEF HasOnly
    <2>3. QED
      BY <1>5, <2>2, DatasetGroup
  <1>9. ASSUME NEW g \in DOMAIN groups
        PROVE  groups[g] = GroupRead(groups[g]) /\ groups[g].hosts \subseteq DOMAIN body.hostvars
    <2> DEFINE hs == MergedGroups(N)[g].hosts \cap Chosen(N, q)
               cs == MergedGroups(N)[g].children
               vs == ShapeGroupVars(q, MergedGroups(N)[g].vars)
               r == [hosts |-> hs, children |-> cs, vars |-> vs]
    <2>1. g \in DOMAIN body.groups /\ body.groups[g] = r
      BY <1>7
    <2>2. hs \subseteq DOMAIN body.hostvars
      BY <1>6
    <2> HIDE DEF hs, cs, vs
    <2>3. groups[g] = [r EXCEPT !.vars = IF @ = None THEN <<>> ELSE @]
      BY <2>1
    <2>4. groups[g] = [hosts |-> hs, children |-> cs, vars |-> IF vs = None THEN <<>> ELSE vs]
      BY <2>3
    <2> HIDE DEF groups
    <2>5. QED
      BY <2>2, <2>4 DEF GroupRead
  <1>10. DOMAIN groups \cap MetaGroups = {}
    BY <1>8
  <1>11. body.hostvars = [h \in DOMAIN body.hostvars |-> body.hostvars[h]]
    BY <1>6
  <1>12. groups = [g \in DOMAIN groups |-> groups[g]]
    OBVIOUS
  <1> HIDE DEF groups
  <1>13. QED
    BY <1>9, <1>10, <1>11, <1>12, PrintedInventoriesReadBack

\* Neither an enricher's merge nor the reading of what a script or an endpoint
\* prints adds or loses a host, a member or a variable (declarative merge,
\* from_ansible_inventory, render_ansible).
THEOREM MergingLosesNothing == RulesSpec => []NothingIsLostInMerging
  <1>1. AnswersFit => NothingIsLostInMerging
    BY EnrichmentMovesVariables, ScriptsAreRemembered, OutputsReadBack DEF NothingIsLostInMerging
  <1>2. QED
    BY <1>1, RulesInvariant, PTL

-----------------------------------------------------------------------------
(* Least and greatest.                                                     *)

\* The least of a set of naturals.
LEMMA MinOfNaturals ==
    ASSUME NEW T \in SUBSET Nat, T # {}
    PROVE  Min(T) \in T /\ \A k \in T : Min(T) <= k
  BY LeastNatural DEF Min

\* The greatest of a finite set of integers.
LEMMA MaxOfIntegers ==
    ASSUME NEW T \in SUBSET Int, IsFiniteSet(T), T # {}
    PROVE  Max(T) \in T /\ \A k \in T : Max(T) >= k
  <1> DEFINE above(x) == {y \in T : x < y}
             counts == {Cardinality(above(x)) : x \in T}
  <1>1. ASSUME NEW x \in T
        PROVE  IsFiniteSet(above(x)) /\ Cardinality(above(x)) \in Nat
    BY FS_Subset, FS_CardinalityType
  <1>2. PICK x \in T : \A y \in T : Cardinality(above(x)) <= Cardinality(above(y))
    <2>1. counts \in SUBSET Nat /\ counts # {}
      BY <1>1
    <2>2. PICK m \in counts : \A k \in counts : m <= k
      BY <2>1, LeastNatural
    <2>3. QED
      BY <2>2
  <1>3. ASSUME NEW y \in T, x < y
        PROVE  FALSE
    <2>1. above(y) \subseteq above(x) /\ y \in above(x) /\ y \notin above(y)
      <3>1. x \in Int /\ y \in Int /\ \A z \in T : z \in Int
        OBVIOUS
      <3>2. \A z \in Int : y < z => x < z
        BY <1>3, <3>1
      <3>3. ~(y < y)
        BY <3>1
      <3>4. QED
        BY <1>3, <3>1, <3>2, <3>3
    <2> HIDE DEF above
    <2>2. Cardinality(above(y)) < Cardinality(above(x))
      <3>1. IsFiniteSet(above(x))
        BY <1>1
      <3>2. /\ Cardinality(above(y)) <= Cardinality(above(x))
            /\ Cardinality(above(y)) = Cardinality(above(x)) => above(y) = above(x)
        BY <2>1, <3>1, FS_Subset
      <3>3. Cardinality(above(y)) \in Nat /\ Cardinality(above(x)) \in Nat
        BY <1>1
      <3>4. QED
        BY <2>1, <3>2, <3>3
    <2>3. QED
      BY <1>1, <1>2, <2>2
  <1>4. \A y \in T : x >= y
    <2>1. TAKE y \in T
    <2>2. x < y => FALSE
      BY <1>3
    <2>3. x \in Int /\ y \in Int
      OBVIOUS
    <2>4. QED
      BY <2>2, <2>3
  <1>5. QED
    BY <1>4 DEF Max

-----------------------------------------------------------------------------
(* Views: who owns a host. *)

\* The set of hosts a member claims, and its answer about one, say the same.
LEMMA ClaimedIsClaiming ==
    ASSUME NEW m, NEW h
    PROVE  h \in MemberClaimed(m) <=> MemberClaims(m, h)
  <1> DEFINE owns == Effective(m)
  <1>1. \A o : h \in ClaimedHosts(o, m.inventory) <=> Claims(o, m.inventory, h)
    BY DEF ClaimedHosts, Claims, Known
  <1> HIDE DEF owns
  <1>2. /\ MemberClaimed(m) = IF owns = None THEN {}
                              ELSE IF m.inventory = None THEN owns.hosts
                              ELSE ClaimedHosts(owns, m.inventory)
        /\ MemberClaims(m, h) <=>
              /\ owns # None
              /\ IF m.inventory = None THEN h \in owns.hosts ELSE Claims(owns, m.inventory, h)
    BY DEF MemberClaimed, MemberClaims, owns
  <1>3. QED
    BY <1>1, <1>2

\* The members that claim h.
Claiming(members, h) == {i \in DOMAIN members : MemberClaims(members[i], h)}

\* Table and scan in the terms of it.
LEMMA OwnersByClaims ==
    ASSUME NEW members, NEW h
    PROVE  /\ h \in DOMAIN Table(members) <=> Claiming(members, h) # {}
           /\ h \in DOMAIN Table(members) => Table(members)[h] = Min(Claiming(members, h))
           /\ Claiming(members, h) = {} => Owner(members, h) = None
           /\ Claiming(members, h) # {} => Owner(members, h) = [index |-> Min(Claiming(members, h))]
           /\ TableOwner(members, h) = ScanOwner(members, h)
  <1> DEFINE claimed(i) == h \in MemberClaimed(members[i])
             mine == {i \in DOMAIN members : claimed(i)}
             c == Claiming(members, h)
  <1>1. \A i : claimed(i) <=> MemberClaims(members[i], h)
    BY ClaimedIsClaiming
  <1>2. mine = c
    BY <1>1 DEF Claiming
  <1>3. /\ h \in DOMAIN Table(members) <=> \E i \in DOMAIN members : claimed(i)
        /\ h \in DOMAIN Table(members) => Table(members)[h] = Min(mine)
    BY DEF Table
  <1>4. h \in DOMAIN Table(members) <=> c # {}
    BY <1>1, <1>3 DEF Claiming
  <1>5. ScanOwner(members, h) = IF c = {} THEN None ELSE [index |-> Min(c)]
    BY DEF ScanOwner, Claiming
  <1> HIDE DEF mine, c
  <1>6. TableOwner(members, h) = IF c = {} THEN None ELSE [index |-> Min(c)]
    BY <1>2, <1>3, <1>4 DEF TableOwner
  <1>7. QED
    BY <1>2, <1>3, <1>4, <1>5, <1>6 DEF c, Owner

\* i is the first of the members to claim h.
FirstToClaim(members, h, i) ==
    /\ i \in DOMAIN members /\ MemberClaims(members[i], h)
    /\ \A j \in 1..(i - 1) : ~MemberClaims(members[j], h)

\* The owner is that member.
LEMMA OwnerIsFirst ==
    ASSUME NEW members, members \in Seq(Range(members)), NEW h, Owner(members, h) # None
    PROVE  FirstToClaim(members, h, Owner(members, h).index)
  <1> DEFINE c == Claiming(members, h)
             i == Min(c)
  <1>1. c # {} /\ Owner(members, h) = [index |-> i]
    BY OwnersByClaims
  <1>2. DOMAIN members = 1..Len(members) /\ Len(members) \in Nat
    OBVIOUS
  <1>3. c \in SUBSET Nat /\ c \subseteq DOMAIN members
    BY <1>2 DEF Claiming
  <1>4. i \in c /\ \A k \in c : i <= k
    BY <1>1, <1>3, MinOfNaturals
  <1> HIDE DEF i
  <1>5. i \in DOMAIN members /\ MemberClaims(members[i], h)
    BY <1>4 DEF Claiming
  <1>6. ASSUME NEW j \in 1..(i - 1), MemberClaims(members[j], h)
        PROVE  FALSE
    <2>1. j \in DOMAIN members /\ i \in Nat /\ j \in Nat /\ j < i
      BY <1>2, <1>5
    <2>2. j \in c
      BY <1>6, <2>1 DEF Claiming
    <2>3. QED
      BY <1>4, <2>1, <2>2
  <1>7. QED
    BY <1>1, <1>5, <1>6 DEF FirstToClaim

\* A view's hosts are those it serves.
LEMMA HostsAreServed ==
    ASSUME NEW members, members \in Seq(Range(members))
    PROVE  ViewHosts(members) = {h \in DOMAIN Table(members) : Serves(members, h)}
  <1>1. ASSUME NEW h \in DOMAIN Table(members)
        PROVE  /\ Owner(members, h) # None
               /\ OwnerOf(members, h) = members[Table(members)[h]]
    <2> DEFINE c == Claiming(members, h)
               i == Min(c)
    <2>1. c # {} /\ Table(members)[h] = i /\ Owner(members, h) = [index |-> i]
      BY <1>1, OwnersByClaims
    <2>2. c \in SUBSET Nat
      BY DEF Claiming
    <2>3. i \in Nat
      BY <2>1, <2>2, MinOfNaturals
    <2> HIDE DEF i
    <2>4. [index |-> i] \in [index : Nat]
      BY <2>3
    <2>5. Owner(members, h) # None
      BY <2>1, <2>4, RequestsAssumption
    <2>6. QED
      BY <2>1, <2>5 DEF OwnerOf
  <1>2. QED
    BY <1>1 DEF ViewHosts, Serves

\* Every host selected from a view is served by it.
LEMMA SelectionIsServed ==
    ASSUME NEW members, members \in Seq(Range(members)), NEW host, NEW group,
           Select(members, host, group) # None,
           NEW h \in Select(members, host, group)
    PROVE  Serves(members, h)
  <1> DEFINE named == IF host = None THEN ViewHosts(members)
                      ELSE {x \in host : Has(OwnerOf(members, x), x)}
             within == InGroups(members, group)
             chosen == IF group = None THEN named
                       ELSE IF host = None THEN {x \in within : Serves(members, x)}
                       ELSE named \cap within
  <1>1. /\ host # None => Unclaimed(members, host) = {}
        /\ Select(members, host, group) = chosen
    <2>1. Select(members, host, group) =
             IF host # None /\ Unclaimed(members, host) # {} THEN None ELSE chosen
      BY DEF Select
    <2> HIDE DEF chosen
    <2>2. QED
      BY <2>1
  <1>2. host = None => \A x \in named : Serves(members, x)
    BY HostsAreServed
  <1>3. host # None => \A x \in named : Serves(members, x)
    BY <1>1 DEF Unclaimed, Serves
  <1> HIDE DEF named, within
  <1>4. h \in named \/ Serves(members, h)
    BY <1>1
  <1>5. QED
    BY <1>2, <1>3, <1>4

-----------------------------------------------------------------------------
(* Views: what they serve. *)

\* A selection that is no refusal is finite.
LEMMA SelectionIsFinite ==
    ASSUME NEW members, AreMembers(members), NEW S, \A h \in S : Serves(members, h)
    PROVE  IsFiniteSet(S)
  <1> DEFINE cached == {i \in DOMAIN members : members[i].entry # None}
             hosts(i) == DOMAIN members[i].entry.hostvars
             all == {hosts(i) : i \in cached}
  <1>1. IsFiniteSet(cached)
    <2>1. DOMAIN members = 1..Len(members) /\ Len(members) \in Nat
      BY DEF AreMembers
    <2>2. IsFiniteSet(1..Len(members))
      BY <2>1, FS_Interval
    <2>3. QED
      BY <2>1, <2>2, FS_Subset
  <1>2. \A i \in cached : IsFiniteSet(hosts(i))
    BY DEF AreMembers, IsContent
  <1>3. IsFiniteSet(all)
    <2> DEFINE f == [i \in cached |-> hosts(i)]
    <2>1. f \in Surjection(cached, all)
      BY DEF Surjection
    <2> HIDE DEF f, all, cached
    <2>2. QED
      BY <1>1, <2>1, FS_Surjection
  <1>4. \A C \in all : IsFiniteSet(C)
    BY <1>2
  <1>5. S \subseteq UNION all
    <2>1. ASSUME NEW h \in S
          PROVE  h \in UNION all
      <3> DEFINE i == Owner(members, h).index
      <3>1. Owner(members, h) # None /\ Has(members[i], h)
        BY DEF Serves, OwnerOf
      <3>2. i \in DOMAIN members
        BY <3>1, OwnerIsFirst DEF AreMembers, FirstToClaim
      <3> HIDE DEF i
      <3>3. i \in cached /\ h \in hosts(i)
        BY <3>1, <3>2 DEF Has
      <3>4. QED
        BY <3>3
    <2>2. QED
      BY <2>1
  <1> HIDE DEF all
  <1>6. IsFiniteSet(UNION all)
    BY <1>3, <1>4, FS_UNION
  <1>7. QED
    BY <1>5, <1>6, FS_Subset

\* Without a limit and an offset there is one page.
LEMMA WholePage ==
    ASSUME NEW S, IsFiniteSet(S), NEW q, q.limit = None, q.offset = 0
    PROVE  PageOf(S, q) = S
  <1>1. \A h \in S : Cardinality({x \in S : x < h}) \in Nat
    BY FS_Subset, FS_CardinalityType
  <1>2. \A h \in S : 0 <= Cardinality({x \in S : x < h})
    BY <1>1
  <1>3. QED
    BY <1>2 DEF PageOf

\* A host's variables on a page of a view.
LEMMA ViewPageVars ==
    ASSUME NEW members, NEW q, ViewSelected(members, q) # None
    PROVE  LET page == ViewPage(members, q)
               asked == PageOf(ViewSelected(members, q), q)
           IN /\ DOMAIN page.hostvars = {x \in asked : Serves(members, x)}
              /\ \A h \in DOMAIN page.hostvars :
                    page.hostvars[h] = ShapeHost(q, OwnerOf(members, h).entry.hostvars[h])
              /\ page.groups = GroupsOf(ViewGroups(members), asked, q)
  <1> DEFINE sel == ViewSelected(members, q)
             asked == PageOf(sel, q)
             shown == ViewVars(members, asked)
             made == [total |-> Cardinality(sel),
                      hostvars |-> [h \in DOMAIN shown |-> ShapeHost(q, shown[h])],
                      groups |-> GroupsOf(ViewGroups(members), asked, q)]
  <1>1. ViewPage(members, q) = made
    BY DEF ViewPage
  <1>2. /\ DOMAIN shown = {x \in asked : Serves(members, x)}
        /\ \A h \in DOMAIN shown : shown[h] = OwnerOf(members, h).entry.hostvars[h]
    BY DEF ViewVars
  <1> HIDE DEF sel, asked, shown
  <1>3. QED
    BY <1>1, <1>2 DEF asked, sel

\* What a view selects by a query is among what it selects by its names and
\* groups, so it is served.
LEMMA SelectedIsServed ==
    ASSUME NEW members, members \in Seq(Range(members)), NEW q, ViewSelected(members, q) # None,
           NEW h \in ViewSelected(members, q)
    PROVE  Serves(members, h)
  <1> DEFINE S == Select(members, ExactHosts(q), q.group)
             T == {x \in S : FilterIsEmpty(q)
                               \/ (Serves(members, x) /\ Matches(q, x, ViewVars(members, {x})[x]))}
  <1>1. ViewSelected(members, q) = IF S = None THEN None ELSE T
    BY DEF ViewSelected
  <1> HIDE DEF S
  <1>2. S # None /\ h \in S
    BY <1>1
  <1>3. QED
    BY <1>2, SelectionIsServed DEF S

\* The hosts of a view's answer come from their owners.
LEMMA OwnersServe ==
    ASSUME MayAsk(request), ReadsFit
    PROVE  HostsComeFromTheirOwners
  <1> SUFFICES ASSUME Answers("view") PROVE HostsComeFromTheirOwners
    BY DEF HostsComeFromTheirOwners
  <1> DEFINE members == request.members
             q == request.q
             sel == ViewSelected(members, q)
             page == ViewPage(members, q)
  <1>1. /\ AreMembers(members) /\ members \in Seq(Range(members))
        /\ sel # None /\ response.page = page /\ response.hosts = sel
    BY DEF ReadsFit, MayAsk, Answers, AreMembers
  <1>2. \A h : TableOwner(members, h) = ScanOwner(members, h)
    BY OwnersByClaims
  <1>3. ASSUME NEW h \in DOMAIN page.hostvars
        PROVE  \E i \in DOMAIN members :
                  /\ FirstToClaim(members, h, i)
                  /\ page.hostvars[h] = ShapeHost(q, members[i].entry.hostvars[h])
    <2>1. /\ Serves(members, h)
          /\ page.hostvars[h] = ShapeHost(q, OwnerOf(members, h).entry.hostvars[h])
      BY <1>1, <1>3, ViewPageVars
    <2>2. Owner(members, h) # None
      BY <2>1 DEF Serves
    <2>3. FirstToClaim(members, h, Owner(members, h).index)
      BY <1>1, <2>2, OwnerIsFirst
    <2>4. QED
      BY <2>1, <2>3 DEF OwnerOf, FirstToClaim
  <1>4. ASSUME NEW i \in DOMAIN members, members[i].declared.advertised, members[i].claim = None,
               IsCatchAll(members[i].declared)
        PROVE  MemberClaimed(members[i]) = {}
    BY <1>4 DEF MemberClaimed, Effective
  <1>5. ASSUME q.limit = None, q.offset = 0
        PROVE  sel = DOMAIN page.hostvars
    <2>1. \A h \in sel : Serves(members, h)
      BY <1>1, SelectedIsServed
    <2>2. IsFiniteSet(sel)
      BY <1>1, <2>1, SelectionIsFinite
    <2>3. PageOf(sel, q) = sel
      BY <1>5, <2>2, WholePage
    <2>4. DOMAIN page.hostvars = {x \in PageOf(sel, q) : Serves(members, x)}
      BY <1>1, ViewPageVars
    <2> HIDE DEF sel
    <2>5. QED
      BY <2>1, <2>3, <2>4
  <1> HIDE DEF sel, page
  <1>6. QED
    BY <1>1, <1>2, <1>3, <1>4, <1>5 DEF HostsComeFromTheirOwners, FirstToClaim

-----------------------------------------------------------------------------
(* Views: a view of one source. *)

\* The only member of a view that owns all of it.
Alone(d) == [entry |-> d, inventory |-> d, claim |-> None,
             declared |-> [groups |-> {}, hosts |-> {}, advertised |-> FALSE]]

\* It serves what it has.
LEMMA OneServes ==
    ASSUME NEW d, d # None, NEW h
    PROVE  LET members == <<Alone(d)>>
           IN /\ h \in DOMAIN d.hostvars => h \in DOMAIN Table(members)
              /\ Serves(members, h) <=> h \in DOMAIN d.hostvars
              /\ Owner(members, h) # None => OwnerOf(members, h) = Alone(d)
  <1> DEFINE m == Alone(d)
             members == <<m>>
             owns == [groups |-> {}, hosts |-> {}, advertised |-> FALSE]
             c == Claiming(members, h)
  <1>1. /\ m.entry = d /\ m.inventory = d /\ m.declared = owns
        /\ owns.groups = {} /\ owns.hosts = {} /\ owns.advertised = FALSE
    BY DEF Alone
  <1>2. DOMAIN members = {1} /\ members[1] = m
    OBVIOUS
  <1> HIDE DEF m
  <1>3. Effective(m) = owns
    BY <1>1 DEF Effective
  <1>4. owns # None /\ IsCatchAll(owns)
    BY <1>1, RequestsAssumption DEF IsCatchAll
  <1> HIDE DEF members, owns
  <1>5. h \in DOMAIN d.hostvars => MemberClaims(m, h)
    BY <1>1, <1>3, <1>4 DEF MemberClaims, Claims
  <1>6. c = IF MemberClaims(m, h) THEN {1} ELSE {}
    BY <1>2 DEF Claiming
  <1>7. Min({1}) = 1
    <2>1. {1} \in SUBSET Nat /\ {1} # {}
      OBVIOUS
    <2>2. Min({1}) \in {1}
      BY <2>1, MinOfNaturals
    <2>3. QED
      BY <2>2
  <1>8. Owner(members, h) = IF MemberClaims(m, h) THEN [index |-> 1] ELSE None
    BY <1>6, <1>7, OwnersByClaims DEF c
  <1>9. [index |-> 1] # None
    <2>1. [index |-> 1] \in [index : Nat]
      OBVIOUS
    <2>2. QED
      BY <2>1, RequestsAssumption
  <1>10. Owner(members, h) # None => OwnerOf(members, h) = m
    BY <1>2, <1>8 DEF OwnerOf
  <1>11. Serves(members, h) <=> h \in DOMAIN d.hostvars
    BY <1>1, <1>5, <1>8, <1>9, <1>10 DEF Serves, Has
  <1>12. h \in DOMAIN d.hostvars => h \in DOMAIN Table(members)
    BY <1>5, <1>6, OwnersByClaims DEF c
  <1>13. QED
    BY <1>10, <1>11, <1>12 DEF members, m

\* Its groups are the view's.
LEMMA OneGroups ==
    ASSUME NEW d, d # None, IsContent(d)
    PROVE  LET members == <<Alone(d)>>
           IN /\ DOMAIN ViewGroups(members) = DOMAIN d.groups
              /\ \A g \in DOMAIN d.groups : ViewGroups(members)[g] = d.groups[g]
              /\ \A group : InGroups(members, group)
                               = UNION {d.groups[g].hosts : g \in group \cap DOMAIN d.groups}
  <1> DEFINE m == Alone(d)
             members == <<m>>
             cached == {i \in DOMAIN members : members[i].entry # None}
             having(g) == {i \in cached : g \in DOMAIN members[i].entry.groups}
             withVars(g) == {i \in having(g) : members[i].entry.groups[g].vars # None}
             made(g) == [hosts    |-> UNION {members[i].entry.groups[g].hosts : i \in having(g)},
                         children |-> UNION {members[i].entry.groups[g].children : i \in having(g)},
                         vars     |-> IF withVars(g) = {} THEN None
                                      ELSE members[Min(withVars(g))].entry.groups[g].vars]
  <1>1. DOMAIN members = {1} /\ members[1] = m /\ m.entry = d
    BY DEF Alone
  <1> HIDE DEF m, members
  <1>2. cached = {1}
    BY <1>1
  <1>3. /\ DOMAIN ViewGroups(members) = UNION {DOMAIN members[i].entry.groups : i \in cached}
        /\ \A g \in DOMAIN ViewGroups(members) : ViewGroups(members)[g] = made(g)
    BY DEF ViewGroups
  <1> HIDE DEF cached
  <1>4. DOMAIN ViewGroups(members) = DOMAIN d.groups
    <2>1. UNION {DOMAIN members[i].entry.groups : i \in {1}} = DOMAIN members[1].entry.groups
      OBVIOUS
    <2>2. QED
      BY <1>1, <1>2, <1>3, <2>1
  <1>5. ASSUME NEW g \in DOMAIN d.groups
        PROVE  made(g) = d.groups[g]
    <2>1. having(g) = {1}
      BY <1>1, <1>2, <1>5
    <2>2. withVars(g) = IF d.groups[g].vars # None THEN {1} ELSE {}
      BY <1>1, <2>1
    <2>3. Min({1}) = 1
      <3>1. {1} \in SUBSET Nat /\ {1} # {}
        OBVIOUS
      <3>2. Min({1}) \in {1}
        BY <3>1, MinOfNaturals
      <3>3. QED
        BY <3>2
    <2>4. /\ UNION {members[i].entry.groups[g].hosts : i \in {1}} = d.groups[g].hosts
          /\ UNION {members[i].entry.groups[g].children : i \in {1}} = d.groups[g].children
      BY <1>1
    <2> HIDE DEF having, withVars
    <2>5. (IF withVars(g) = {} THEN None ELSE members[Min(withVars(g))].entry.groups[g].vars)
            = d.groups[g].vars
      BY <1>1, <2>2, <2>3
    <2>6. made(g) = [hosts |-> d.groups[g].hosts, children |-> d.groups[g].children,
                     vars |-> d.groups[g].vars]
      BY <2>1, <2>4, <2>5
    <2>7. d.groups[g] = [hosts |-> d.groups[g].hosts, children |-> d.groups[g].children,
                         vars |-> d.groups[g].vars]
      BY DEF IsContent, GroupRead
    <2>8. QED
      BY <2>6, <2>7
  <1> HIDE DEF made
  <1>6. ASSUME NEW group
        PROVE  InGroups(members, group)
                 = UNION {d.groups[g].hosts : g \in group \cap DOMAIN d.groups}
    <2>1. InGroups(members, group) =
             UNION {UNION {members[i].entry.groups[g].hosts :
                               g \in group \cap DOMAIN members[i].entry.groups} : i \in cached}
      BY DEF InGroups, cached
    <2>2. QED
      BY <1>1, <1>2, <2>1
  <1>7. QED
    BY <1>3, <1>4, <1>5, <1>6 DEF members, m

\* Select on it is Resolve, among the hosts it has variables of.
LEMMA OneSelects ==
    ASSUME NEW d, d # None, IsContent(d), NEW host, NEW group,
           Select(<<Alone(d)>>, host, group) # None
    PROVE  Select(<<Alone(d)>>, host, group) = Resolve(d, host, group) \cap DOMAIN d.hostvars
  <1> DEFINE members == <<Alone(d)>>
             inGroups == UNION {d.groups[g].hosts : g \in group \cap DOMAIN d.groups}
             named == IF host = None THEN ViewHosts(members)
                      ELSE {h \in host : Has(OwnerOf(members, h), h)}
             chosen == IF group = None THEN named
                       ELSE IF host = None THEN {h \in inGroups : Serves(members, h)}
                       ELSE named \cap inGroups
  <1>1. InGroups(members, group) = inGroups
    BY OneGroups
  <1>2. /\ host # None => Unclaimed(members, host) = {}
        /\ Select(members, host, group) = chosen
    <2>1. Select(members, host, group) =
             IF host # None /\ Unclaimed(members, host) # {} THEN None ELSE chosen
      BY <1>1 DEF Select
    <2> HIDE DEF chosen
    <2>2. QED
      BY <2>1
  <1>3. \A h : Serves(members, h) <=> h \in DOMAIN d.hostvars
    BY OneServes
  <1>4. host = None => named = DOMAIN d.hostvars
    <2>1. ViewHosts(members) = {h \in DOMAIN Table(members) : Serves(members, h)}
      <3>1. members \in Seq(Range(members))
        BY DEF Range
      <3>2. QED
        BY <3>1, HostsAreServed
    <2>2. \A h \in DOMAIN d.hostvars : h \in DOMAIN Table(members)
      BY OneServes
    <2>3. QED
      BY <1>3, <2>1, <2>2
  <1>5. host # None => named = host \cap DOMAIN d.hostvars
    <2>1. ASSUME host # None, NEW h \in host
          PROVE  Has(OwnerOf(members, h), h) <=> h \in DOMAIN d.hostvars
      <3>1. Owner(members, h) # None
        BY <1>2, <2>1 DEF Unclaimed
      <3>2. QED
        BY <1>3, <3>1 DEF Serves
    <2>2. QED
      BY <2>1
  <1>6. Resolve(d, host, group) =
           IF host # None THEN {h \in host \cap DOMAIN d.hostvars : group = None \/ h \in inGroups}
           ELSE IF group # None THEN inGroups ELSE DOMAIN d.hostvars
    BY DEF Resolve
  <1> HIDE DEF named, inGroups, members
  <1>7. chosen = Resolve(d, host, group) \cap DOMAIN d.hostvars
    <2>1. CASE group = None
      BY <1>4, <1>5, <1>6, <2>1
    <2>2. CASE group # None /\ host = None
      BY <1>3, <1>6, <2>2
    <2>3. CASE group # None /\ host # None
      BY <1>5, <1>6, <2>3
    <2>4. QED
      BY <2>1, <2>2, <2>3
  <1>8. QED
    BY <1>2, <1>7 DEF members

\* So is a selection by a query.
LEMMA OneSelected ==
    ASSUME NEW d, d # None, IsContent(d), NEW q, ViewSelected(<<Alone(d)>>, q) # None
    PROVE  ViewSelected(<<Alone(d)>>, q) = Selected(d, q) \cap DOMAIN d.hostvars
  <1> DEFINE members == <<Alone(d)>>
             S == Select(members, ExactHosts(q), q.group)
             T == {x \in S : FilterIsEmpty(q)
                               \/ (Serves(members, x) /\ Matches(q, x, ViewVars(members, {x})[x]))}
             R == Resolve(d, ExactHosts(q), q.group)
  <1>1. ViewSelected(members, q) = IF S = None THEN None ELSE T
    BY DEF ViewSelected
  <1>2. \A h : Serves(members, h) <=> h \in DOMAIN d.hostvars
    BY OneServes
  <1>3. ASSUME NEW h \in DOMAIN d.hostvars
        PROVE  ViewVars(members, {h})[h] = d.hostvars[h]
    <2>1. Serves(members, h) /\ Owner(members, h) # None
      BY <1>2 DEF Serves
    <2>2. OwnerOf(members, h) = Alone(d)
      BY <2>1, OneServes
    <2>3. OwnerOf(members, h).entry = d
      BY <2>2 DEF Alone
    <2>4. ViewVars(members, {h})[h] = OwnerOf(members, h).entry.hostvars[h]
      BY <2>1 DEF ViewVars
    <2>5. QED
      BY <2>3, <2>4
  <1> HIDE DEF S
  <1>4. S # None /\ ViewSelected(members, q) = T
    BY <1>1
  <1>5. S = R \cap DOMAIN d.hostvars
    BY <1>4, OneSelects DEF S
  <1>6. Selected(d, q) =
           {h \in R : FilterIsEmpty(q) \/ (h \in DOMAIN d.hostvars /\ Matches(q, h, d.hostvars[h]))}
    BY DEF Selected
  <1> HIDE DEF members, R
  <1>7. T = Selected(d, q) \cap DOMAIN d.hostvars
    BY <1>2, <1>3, <1>5, <1>6
  <1>8. QED
    BY <1>4, <1>7 DEF members

\* What a source selects is finite.
LEMMA ResolvesFinite ==
    ASSUME NEW d, IsContent(d), NEW host, NEW group
    PROVE  IsFiniteSet(Resolve(d, host, group))
  <1> DEFINE named == group \cap DOMAIN d.groups
             all == {d.groups[g].hosts : g \in named}
             inGroups == UNION all
  <1>1. IsFiniteSet(inGroups)
    <2>1. IsFiniteSet(named)
      BY FS_Subset DEF IsContent
    <2>2. IsFiniteSet(all)
      <3> DEFINE f == [g \in named |-> d.groups[g].hosts]
      <3>1. f \in Surjection(named, all)
        BY DEF Surjection
      <3> HIDE DEF f, all, named
      <3>2. QED
        BY <2>1, <3>1, FS_Surjection
    <2>3. \A C \in all : IsFiniteSet(C)
      BY DEF IsContent
    <2> HIDE DEF all
    <2>4. QED
      BY <2>2, <2>3, FS_UNION
  <1>2. \/ Resolve(d, host, group) \subseteq inGroups
        \/ Resolve(d, host, group) \subseteq DOMAIN d.hostvars
    BY DEF Resolve
  <1> HIDE DEF inGroups
  <1>3. QED
    BY <1>1, <1>2, FS_Subset DEF IsContent

LEMMA SelectsFinite ==
    ASSUME NEW d, IsContent(d), NEW q
    PROVE  IsFiniteSet(Selected(d, q))
  <1>1. Selected(d, q) \subseteq Resolve(d, ExactHosts(q), q.group)
    BY DEF Selected
  <1>2. QED
    BY <1>1, ResolvesFinite, FS_Subset

\* The hosts and groups of a source's page.
LEMMA SourcePageVars ==
    ASSUME NEW d, NEW q
    PROVE  LET page == DatasetPage(d, q)
               asked == PageOf(Selected(d, q), q)
           IN /\ page.hostvars
                   = [h \in asked \cap DOMAIN d.hostvars |-> ShapeHost(q, d.hostvars[h])]
              /\ page.groups = GroupsOf(d.groups, asked, q)
  BY DEF DatasetPage

\* Groups that are not trimmed to the page do not depend on it, nor on anything
\* but what each name stands for.
LEMMA GroupsOfNames ==
    ASSUME NEW groups, NEW others, DOMAIN groups = DOMAIN others,
           \A g \in DOMAIN groups : groups[g] = others[g], NEW page, NEW other, NEW q,
           q.groups # "matching" \/ page = other
    PROVE  GroupsOf(groups, page, q) = GroupsOf(others, other, q)
  <1> DEFINE named == IF q.group = None THEN DOMAIN groups ELSE q.group
             wanted == Restrict(groups, DOMAIN groups \cap named)
  <1>1. wanted = Restrict(others, DOMAIN groups \cap named)
    BY DEF Restrict
  <1> HIDE DEF wanted
  <1>2. CASE q.groups # "matching"
    BY <1>1, <1>2 DEF GroupsOf, wanted
  <1>3. CASE page = other
    BY <1>1, <1>3 DEF GroupsOf, wanted
  <1>4. QED
    BY <1>2, <1>3

\* A view of one source answers as the source does.
LEMMA ViewIsItsSource ==
    ASSUME MayAsk(request), ReadsFit
    PROVE  ViewReadsLikeItsSource
  <1> SUFFICES ASSUME Answers("source") PROVE ViewReadsLikeItsSource
    BY DEF ViewReadsLikeItsSource
  <1> DEFINE d == request.dataset
             members == <<Alone(d)>>
             q == [request.q EXCEPT !.limit = None, !.offset = 0]
             page == ViewPage(members, q)
             S == Selected(d, q)
             V == ViewSelected(members, q)
  <1>1. d # None /\ IsContent(d) /\ {"limit", "offset"} \subseteq DOMAIN request.q
    BY DEF ReadsFit, MayAsk, Answers
  <1>2. q.limit = None /\ q.offset = 0
    BY <1>1
  <1> HIDE DEF d, q
  <1>3. SUFFICES ASSUME page # None
                 PROVE  /\ page.hostvars = DatasetPage(d, q).hostvars
                        /\ q.groups # "matching" \/ q.group = None
                              => page.groups = DatasetPage(d, q).groups
    BY DEF ViewReadsLikeItsSource, Alone, d, q
  <1>4. V # None
    BY <1>3 DEF ViewPage
  <1>5. V = S \cap DOMAIN d.hostvars
    BY <1>1, <1>4, OneSelected
  <1>6. IsFiniteSet(S)
    BY <1>1, SelectsFinite
  <1> HIDE DEF S
  <1>7. IsFiniteSet(V)
    BY <1>5, <1>6, FS_Subset
  <1>8. PageOf(S, q) = S /\ PageOf(V, q) = V
    BY <1>2, <1>6, <1>7, WholePage
  <1>9. /\ DOMAIN page.hostvars = {x \in V : Serves(members, x)}
        /\ \A h \in DOMAIN page.hostvars :
              page.hostvars[h] = ShapeHost(q, OwnerOf(members, h).entry.hostvars[h])
        /\ page.groups = GroupsOf(ViewGroups(members), V, q)
    BY <1>4, <1>8, ViewPageVars
  <1>10. /\ DatasetPage(d, q).hostvars
              = [h \in S \cap DOMAIN d.hostvars |-> ShapeHost(q, d.hostvars[h])]
         /\ DatasetPage(d, q).groups = GroupsOf(d.groups, S, q)
    BY <1>8, SourcePageVars DEF S
  <1>11. \A h : Serves(members, h) <=> h \in DOMAIN d.hostvars
    BY <1>1, OneServes
  <1>12. page.hostvars = DatasetPage(d, q).hostvars
    <2>1. DOMAIN page.hostvars = S \cap DOMAIN d.hostvars
      BY <1>5, <1>9, <1>11
    <2>2. ASSUME NEW h \in DOMAIN page.hostvars
          PROVE  page.hostvars[h] = ShapeHost(q, d.hostvars[h])
      <3>1. Owner(members, h) # None
        BY <1>9, <1>11, <2>2 DEF Serves
      <3>2. OwnerOf(members, h) = Alone(d)
        BY <1>1, <3>1, OneServes
      <3>3. OwnerOf(members, h).entry = d
        BY <3>2 DEF Alone
      <3>4. QED
        BY <1>9, <2>2, <3>3
    <2>3. page.hostvars = [h \in DOMAIN page.hostvars |-> page.hostvars[h]]
      <3>1. ViewPage(members, q).hostvars
               = [h \in DOMAIN ViewVars(members, PageOf(V, q))
                     |-> ShapeHost(q, ViewVars(members, PageOf(V, q))[h])]
        BY <1>4 DEF ViewPage
      <3>2. QED
        BY <3>1
    <2> HIDE DEF page
    <2>4. QED
      BY <1>10, <2>1, <2>2, <2>3
  <1>13. ASSUME q.groups # "matching" \/ q.group = None
         PROVE  page.groups = DatasetPage(d, q).groups
    <2>1. /\ DOMAIN ViewGroups(members) = DOMAIN d.groups
          /\ \A g \in DOMAIN d.groups : ViewGroups(members)[g] = d.groups[g]
      BY <1>1, OneGroups
    <2>2. q.group = None => V = S
      <3>1. q.group = None => Resolve(d, ExactHosts(q), q.group) \subseteq DOMAIN d.hostvars
        BY DEF Resolve
      <3>2. S \subseteq Resolve(d, ExactHosts(q), q.group)
        BY DEF S, Selected
      <3>3. QED
        BY <1>5, <3>1, <3>2
    <2> HIDE DEF V, members, page
    <2>3. GroupsOf(ViewGroups(members), V, q) = GroupsOf(d.groups, S, q)
      BY <1>13, <2>1, <2>2, GroupsOfNames
    <2>4. QED
      BY <1>9, <1>10, <2>3 DEF page, members
  <1>14. QED
    BY <1>12, <1>13

-----------------------------------------------------------------------------
(* Views: the statuses and groups of what they serve. *)

\* The ages of the cached members of a view.
Ages(members) == {members[i].age : i \in {k \in DOMAIN members : members[k].entry # None}}

\* A view is as old as its oldest member.
LEMMA ViewAgeIsTheOldest ==
    ASSUME NEW members, AreMembers(members), NEW i \in DOMAIN members, members[i].entry # None
    PROVE  members[i].age <= ViewAge(members)
  <1> DEFINE cached == {k \in DOMAIN members : members[k].entry # None}
             ages == Ages(members)
  <1>1. ages \in SUBSET Int /\ members[i].age \in ages /\ ages # {}
    BY DEF AreMembers, Ages
  <1>2. IsFiniteSet(ages)
    <2>1. IsFiniteSet(cached)
      <3>1. DOMAIN members = 1..Len(members) /\ Len(members) \in Nat
        BY DEF AreMembers
      <3>2. IsFiniteSet(1..Len(members))
        BY <3>1, FS_Interval
      <3>3. QED
        BY <3>1, <3>2, FS_Subset
    <2> DEFINE f == [k \in cached |-> members[k].age]
    <2>2. f \in Surjection(cached, ages)
      BY DEF Surjection, Ages
    <2> HIDE DEF f, cached, ages
    <2>3. QED
      BY <2>1, <2>2, FS_Surjection
  <1>3. ViewAge(members) = Max(ages)
    <2>1. ViewAge(members) = IF ages = {} THEN 0 ELSE Max(ages)
      BY DEF ViewAge, Ages
    <2> HIDE DEF ages
    <2>2. QED
      BY <1>1, <2>1
  <1> HIDE DEF ages
  <1>4. Max(ages) \in ages /\ Max(ages) >= members[i].age
    BY <1>1, <1>2, MaxOfIntegers
  <1>5. Max(ages) \in Int /\ members[i].age \in Int
    BY <1>1, <1>4
  <1>6. QED
    BY <1>3, <1>4, <1>5

\* The statuses of a source.
LEMMA SourceStatusesFit ==
    ASSUME NEW m, m.entry # None, IsContent(m.entry), NEW q, SelectsByName(q)
    PROVE  DOMAIN SourceStatuses(m, Resolve(m.entry, q.host, q.group))
              = DOMAIN DatasetPage(m.entry, q).hostvars
  <1> DEFINE d == m.entry
             R == Resolve(d, q.host, q.group)
  <1>1. Selected(d, q) = R
    <2>1. ExactHosts(q) = q.host /\ FilterIsEmpty(q)
      BY DEF ExactHosts, FilterIsEmpty, SelectsByName
    <2>2. QED
      BY <2>1 DEF Selected
  <1>2. PageOf(R, q) = R
    BY ResolvesFinite, WholePage DEF SelectsByName
  <1> HIDE DEF R, d
  <1>3. DOMAIN DatasetPage(d, q).hostvars = R \cap DOMAIN d.hostvars
    <2>1. DatasetPage(d, q).hostvars
             = [h \in PageOf(Selected(d, q), q) \cap DOMAIN d.hostvars |->
                  ShapeHost(q, d.hostvars[h])]
      BY SourcePageVars
    <2>2. QED
      BY <1>1, <1>2, <2>1
  <1>4. QED
    BY <1>3 DEF SourceStatuses, R, d

\* Those of a view, each at its owner.
LEMMA ViewStatusesFit ==
    ASSUME NEW members, AreMembers(members), NEW q, SelectsByName(q), NEW ttl, NEW selection,
           selection = Select(members, q.host, q.group), selection # None
    PROVE  LET statuses == HostStatuses(ttl, members, selection)
           IN /\ DOMAIN statuses = DOMAIN ViewPage(members, q).hostvars
              /\ \A h \in DOMAIN statuses :
                    \E i \in DOMAIN members :
                       /\ MemberClaims(members[i], h) /\ Has(members[i], h)
                       /\ statuses[h] = HostStatus(ttl, members[i], h)
  <1> DEFINE statuses == HostStatuses(ttl, members, selection)
  <1>1. members \in Seq(Range(members))
    BY DEF AreMembers
  <1>2. \A h \in selection : Serves(members, h)
    BY <1>1, SelectionIsServed
  <1>3. /\ DOMAIN statuses = selection
        /\ \A h \in selection : statuses[h] = HostStatus(ttl, OwnerOf(members, h), h)
    BY <1>2 DEF HostStatuses
  <1>4. ViewSelected(members, q) = selection
    <2>1. ExactHosts(q) = q.host /\ FilterIsEmpty(q)
      BY DEF ExactHosts, FilterIsEmpty, SelectsByName
    <2>2. QED
      BY <2>1 DEF ViewSelected
  <1>5. PageOf(selection, q) = selection
    BY <1>2, SelectionIsFinite, WholePage DEF SelectsByName
  <1>6. DOMAIN ViewPage(members, q).hostvars = selection
    BY <1>2, <1>4, <1>5, ViewPageVars
  <1>7. ASSUME NEW h \in selection
        PROVE  \E i \in DOMAIN members :
                  /\ MemberClaims(members[i], h) /\ Has(members[i], h)
                  /\ statuses[h] = HostStatus(ttl, members[i], h)
    <2>1. Owner(members, h) # None /\ Has(OwnerOf(members, h), h)
      BY <1>2 DEF Serves
    <2>2. FirstToClaim(members, h, Owner(members, h).index)
      BY <1>1, <2>1, OwnerIsFirst
    <2>3. QED
      BY <1>3, <2>1, <2>2 DEF OwnerOf, FirstToClaim
  <1> HIDE DEF statuses
  <1>8. QED
    BY <1>3, <1>6, <1>7 DEF statuses

\* /status speaks of what /dataset returns.
LEMMA StatusesFit ==
    ASSUME MayAsk(request), ReadsFit, Answers("status")
    PROVE  LET members == request.members
               alone(m) == SourceStatuses(m, DOMAIN m.entry.hostvars)
               page == IF request.of = "view" THEN ViewPage(members, request.q)
                       ELSE DatasetPage(members[1].entry, request.q)
           IN /\ DOMAIN response.statuses = DOMAIN page.hostvars
              /\ request.of = "view" =>
                    /\ request.ttl = None => \A h \in DOMAIN response.statuses :
                          \E i \in DOMAIN members :
                             /\ MemberClaims(members[i], h) /\ members[i].entry # None
                             /\ response.statuses[h] = alone(members[i])[h]
                    /\ response.fresh <=> \A i \in DOMAIN members : response.members[i].fresh
                    /\ \A h \in DOMAIN response.statuses : response.statuses[h].age <= response.age
  <1> DEFINE members == request.members
             q == request.q
             selection == Select(members, q.host, q.group)
             alone(m) == SourceStatuses(m, DOMAIN m.entry.hostvars)
  <1>1. AreMembers(members) /\ SelectsByName(q)
    BY DEF MayAsk, Answers
  <1>2. DOMAIN members = 1..Len(members) /\ Len(members) \in Nat /\ members # <<>>
    BY <1>1 DEF AreMembers
  <1>3. CASE request.of = "source"
    <2> DEFINE m == members[1]
    <2>1. /\ m.entry # None
          /\ response.statuses = SourceStatuses(m, Resolve(m.entry, q.host, q.group))
      BY <1>3 DEF ReadsFit
    <2>2. 1 \in DOMAIN members
      BY <1>1, <1>2 DEF AreMembers
    <2>3. IsContent(m.entry)
      BY <1>1, <2>1, <2>2 DEF AreMembers
    <2>4. DOMAIN response.statuses = DOMAIN DatasetPage(m.entry, q).hostvars
      BY <1>1, <2>1, <2>3, SourceStatusesFit
    <2>5. QED
      BY <1>3, <2>4
  <1>4. CASE request.of = "view"
    <2> DEFINE statuses == HostStatuses(request.ttl, members, selection)
    <2>1. /\ selection # None
          /\ response.statuses = statuses
          /\ response.age = ViewAge(members)
          /\ response.fresh = ViewFresh(members)
          /\ response.members = MemberStatuses(request.ttl, members)
      BY <1>4 DEF ReadsFit
    <2>2. /\ DOMAIN statuses = DOMAIN ViewPage(members, q).hostvars
          /\ \A h \in DOMAIN statuses :
                \E i \in DOMAIN members :
                   /\ MemberClaims(members[i], h) /\ Has(members[i], h)
                   /\ statuses[h] = HostStatus(request.ttl, members[i], h)
      BY <1>1, <2>1, ViewStatusesFit
    <2> HIDE DEF statuses, selection
    <2>3. ASSUME request.ttl = None, NEW h \in DOMAIN statuses
          PROVE  \E i \in DOMAIN members : MemberClaims(members[i], h) /\ members[i].entry # None
                                             /\ statuses[h] = alone(members[i])[h]
      <3>1. PICK i \in DOMAIN members :
               /\ MemberClaims(members[i], h) /\ Has(members[i], h)
               /\ statuses[h] = HostStatus(request.ttl, members[i], h)
        BY <2>2
      <3>2. members[i].entry # None /\ h \in DOMAIN members[i].entry.hostvars
        BY <3>1 DEF Has
      <3>3. alone(members[i])[h] = HostStatus(None, members[i], h)
        BY <3>2 DEF SourceStatuses
      <3>4. QED
        BY <2>3, <3>1, <3>2, <3>3
    <2>4. response.fresh <=> \A i \in DOMAIN members : response.members[i].fresh
      <3>1. ASSUME NEW i \in DOMAIN members
            PROVE  response.members[i].fresh = (members[i].entry # None /\ members[i].fresh)
        BY <2>1 DEF MemberStatuses
      <3>2. ViewFresh(members)
               <=> \A i \in DOMAIN members : members[i].entry # None /\ members[i].fresh
        BY <1>2 DEF ViewFresh
      <3>3. QED
        BY <2>1, <3>1, <3>2
    <2>5. ASSUME NEW h \in DOMAIN statuses
          PROVE  statuses[h].age <= ViewAge(members)
      <3>1. PICK i \in DOMAIN members :
               Has(members[i], h) /\ statuses[h] = HostStatus(request.ttl, members[i], h)
        BY <2>2
      <3>2. statuses[h].age = members[i].age
        BY <3>1 DEF HostStatus
      <3>3. members[i].age <= ViewAge(members)
        BY <1>1, <3>1, ViewAgeIsTheOldest DEF Has
      <3>4. QED
        BY <3>2, <3>3
    <2>6. QED
      BY <1>4, <2>1, <2>2, <2>3, <2>4, <2>5
  <1>5. request.of \in {"source", "view"}
    BY DEF ReadsFit
  <1>6. QED
    BY <1>3, <1>4, <1>5

\* The hosts a view's group names are finitely many.
LEMMA ViewGroupsFinite ==
    ASSUME NEW members, AreMembers(members), NEW g \in DOMAIN ViewGroups(members)
    PROVE  /\ IsFiniteSet(ViewGroups(members)[g].hosts)
           /\ InGroups(members, {g}) \subseteq ViewGroups(members)[g].hosts
  <1> DEFINE cached == {i \in DOMAIN members : members[i].entry # None}
             having == {i \in cached : g \in DOMAIN members[i].entry.groups}
             hosts(i) == members[i].entry.groups[g].hosts
             all == {hosts(i) : i \in having}
  <1>1. ViewGroups(members)[g].hosts = UNION all
    BY DEF ViewGroups
  <1>2. IsFiniteSet(having)
    <2>1. DOMAIN members = 1..Len(members) /\ Len(members) \in Nat
      BY DEF AreMembers
    <2>2. IsFiniteSet(1..Len(members))
      BY <2>1, FS_Interval
    <2>3. QED
      BY <2>1, <2>2, FS_Subset
  <1>3. IsFiniteSet(all)
    <2> DEFINE f == [i \in having |-> hosts(i)]
    <2>1. f \in Surjection(having, all)
      BY DEF Surjection
    <2> HIDE DEF f, all, having
    <2>2. QED
      BY <1>2, <2>1, FS_Surjection
  <1>4. \A C \in all : IsFiniteSet(C)
    BY DEF AreMembers, IsContent
  <1>5. InGroups(members, {g}) \subseteq UNION all
    BY DEF InGroups
  <1> HIDE DEF all
  <1>6. IsFiniteSet(UNION all)
    BY <1>3, <1>4, FS_UNION
  <1>7. QED
    BY <1>1, <1>5, <1>6

\* /groups counts the hosts that a read of the group returns.
LEMMA GroupCountsFit ==
    ASSUME MayAsk(request), ReadsFit, Answers("groups")
    PROVE  \A g \in DOMAIN response.list :
             /\ LET count == response.list[g].hostCount
                    m == request.members[1]
                IN IF request.of = "source" THEN count = Cardinality(Resolve(m.entry, None, {g}))
                   ELSE count >= Cardinality(Select(request.members, None, {g}))
             /\ g = request.group =>
                   /\ response.detail.hostCount = response.list[g].hostCount
                   /\ response.detail.vars # <<>> => response.list[g].hasVars
  <1> DEFINE members == request.members
             m == members[1]
             groups == IF request.of = "source" THEN m.entry.groups ELSE ViewGroups(members)
  <1>1. /\ AreMembers(members)
        /\ response.list = GroupList(groups)
        /\ response.detail = GroupDetail(groups, request.group)
    BY DEF MayAsk, Answers, ReadsFit
  <1> SUFFICES ASSUME NEW g \in DOMAIN groups
               PROVE  /\ IF request.of = "source"
                         THEN response.list[g].hostCount = Cardinality(Resolve(m.entry, None, {g}))
                         ELSE response.list[g].hostCount >= Cardinality(Select(members, None, {g}))
                      /\ g = request.group =>
                            /\ response.detail.hostCount = response.list[g].hostCount
                            /\ response.detail.vars # <<>> => response.list[g].hasVars
    BY <1>1 DEF GroupList
  <1> HIDE DEF groups
  <1>2. response.list[g].hostCount = Cardinality(groups[g].hosts)
    BY <1>1 DEF GroupList
  <1>3. g = request.group =>
           /\ response.detail.hostCount = response.list[g].hostCount
           /\ response.detail.vars # <<>> => response.list[g].hasVars
    <2>1. response.list[g].hasVars = (groups[g].vars # None)
      BY <1>1 DEF GroupList
    <2>2. g = request.group => /\ response.detail.hostCount = Cardinality(groups[g].hosts)
                               /\ groups[g].vars = None => response.detail.vars = <<>>
      BY <1>1 DEF GroupDetail
    <2>3. QED
      BY <1>2, <2>1, <2>2
  <1>4. CASE request.of = "source"
    <2>1. Resolve(m.entry, None, {g}) = groups[g].hosts
      <3>1. UNION {m.entry.groups[x].hosts : x \in {g} \cap DOMAIN m.entry.groups}
               = m.entry.groups[g].hosts
        BY <1>4 DEF groups
      <3>2. {g} # None
        <4>1. 1 \in DOMAIN members /\ m.entry # None
          BY <1>1, <1>4 DEF AreMembers, ReadsFit
        <4>2. QED
          BY <1>1, <1>4, <4>1 DEF AreMembers, IsContent, groups
      <3>3. QED
        BY <1>4, <3>1, <3>2 DEF Resolve, groups
    <2>2. QED
      BY <1>2, <1>3, <1>4, <2>1
  <1>5. CASE request.of # "source"
    <2> DEFINE hosts == ViewGroups(members)[g].hosts
               sel == Select(members, None, {g})
    <2>1. IsFiniteSet(hosts) /\ InGroups(members, {g}) \subseteq hosts
      BY <1>1, <1>5, ViewGroupsFinite DEF groups
    <2>2. sel \subseteq hosts
      <3>1. {g} # None
        <4>1. PICK i \in DOMAIN members :
                 members[i].entry # None /\ g \in DOMAIN members[i].entry.groups
          BY <1>5 DEF groups, ViewGroups
        <4>2. QED
          BY <1>1, <4>1 DEF AreMembers, IsContent
      <3>2. QED
        BY <2>1, <3>1 DEF Select
    <2> HIDE DEF hosts, sel
    <2>3. Cardinality(sel) <= Cardinality(hosts) /\ IsFiniteSet(sel)
      BY <2>1, <2>2, FS_Subset
    <2>4. Cardinality(sel) \in Nat /\ Cardinality(hosts) \in Nat
      BY <2>1, <2>3, FS_CardinalityType
    <2>5. QED
      BY <1>2, <1>3, <1>5, <2>3, <2>4 DEF hosts, sel, groups
  <1>6. QED
    BY <1>4, <1>5

\* A view serves its members.
LEMMA ViewsServe ==
    ASSUME MayAsk(request), ReadsFit
    PROVE  ViewsServeTheirMembers
  <1>1. StatusesSayWhatIsServed
    BY StatusesFit, GroupCountsFit DEF StatusesSayWhatIsServed
  <1>2. QED
    BY <1>1, OwnersServe, ViewIsItsSource DEF ViewsServeTheirMembers

-----------------------------------------------------------------------------
(* Pages. *)

\* Each number lies in one stretch of a given length.
LEMMA OneStretch ==
    ASSUME NEW l \in Nat, l # 0, NEW p \in Nat
    PROVE  \E n \in 0..p : /\ n * l <= p /\ p < n * l + l
                           /\ \A k \in Nat : (k * l <= p /\ p < k * l + l) => k = n
  <1> DEFINE T == {n \in Nat : p < n * l + l}
  <1>1. p \in T
    <2>1. p * l >= p
      OBVIOUS
    <2>2. p * l \in Int
      OBVIOUS
    <2>3. QED
      BY <2>1, <2>2
  <1>2. PICK n \in T : \A k \in T : n <= k
    <2>1. T \in SUBSET Nat /\ T # {}
      BY <1>1
    <2> HIDE DEF T
    <2>2. QED
      BY <2>1, LeastNatural
  <1>3. n \in Nat /\ n \in 0..p
    BY <1>1, <1>2
  <1>4. n * l <= p
    <2>1. CASE n = 0
      <3>1. n * l = 0
        BY <2>1
      <3>2. QED
        BY <3>1
    <2>2. CASE n # 0
      <3>1. n - 1 \in Nat /\ n - 1 \notin T
        BY <1>2, <1>3, <2>2
      <3>2. ~(p < (n - 1) * l + l)
        BY <3>1
      <3>3. (n - 1) * l + l = n * l /\ n * l \in Int
        BY <1>3
      <3>4. QED
        BY <3>2, <3>3
    <2>3. QED
      BY <2>1, <2>2
  <1>5. ASSUME NEW k \in Nat, k * l <= p, p < k * l + l
        PROVE  k = n
    <2>1. k \in T /\ n <= k
      BY <1>2, <1>5
    <2>2. CASE n < k
      <3>1. k * l >= (n + 1) * l
        BY <1>3, <2>2
      <3>2. (n + 1) * l = n * l + l /\ n * l \in Int /\ k * l \in Int
        BY <1>3
      <3>3. p < n * l + l
        BY <1>2
      <3>4. QED
        BY <1>5, <3>1, <3>2, <3>3
    <2>3. QED
      BY <1>3, <2>1, <2>2
  <1>6. QED
    BY <1>2, <1>3, <1>4, <1>5

\* A page after another shows each selected host once.
LEMMA PagesCover ==
    ASSUME MayAsk(request), ReadsFit
    PROVE  PagesCoverTheSelection
  <1> SUFFICES ASSUME Answers("source"), request.q.limit \notin {None, 0},
                      NEW h \in response.hosts
               PROVE  Cardinality({n \in 0..Cardinality(response.hosts) :
                         h \in PageOf(response.hosts,
                                  [request.q EXCEPT !.limit = request.q.limit,
                                                    !.offset = n * request.q.limit])}) = 1
    BY DEF PagesCoverTheSelection
  <1> DEFINE S == response.hosts
             N == Cardinality(S)
             q == request.q
             l == q.limit
             turned(n) == [q EXCEPT !.limit = q.limit, !.offset = n * q.limit]
             place == Cardinality({x \in S : x < h})
             shown == {n \in 0..N : h \in PageOf(S, turned(n))}
  <1>1. /\ request.dataset # None /\ S = Selected(request.dataset, q) /\ IsContent(request.dataset)
        /\ {"limit", "offset"} \subseteq DOMAIN q /\ l \in Nat /\ l # 0
    BY DEF ReadsFit, MayAsk, Answers, HostList
  <1>2. l # None
    OBVIOUS
  <1>3. IsFiniteSet(S)
    BY <1>1, SelectsFinite
  <1>4. N \in Nat /\ place \in Nat /\ place <= N
    <2>1. {x \in S : x < h} \subseteq S
      OBVIOUS
    <2>2. IsFiniteSet({x \in S : x < h}) /\ Cardinality({x \in S : x < h}) <= Cardinality(S)
      BY <1>3, <2>1, FS_Subset
    <2>3. QED
      BY <1>3, <2>2, FS_CardinalityType
  <1>5. ASSUME NEW n
        PROVE  h \in PageOf(S, turned(n)) <=> (n * l <= place /\ place < n * l + l)
    <2>1. turned(n).limit = l /\ turned(n).offset = n * l
      BY <1>1
    <2> HIDE DEF turned, l
    <2>2. QED
      BY <1>2, <2>1 DEF PageOf
  <1> HIDE DEF S, N, q, l, turned, place
  <1>6. PICK n \in 0..place : /\ n * l <= place /\ place < n * l + l
                              /\ \A k \in Nat : (k * l <= place /\ place < k * l + l) => k = n
    BY <1>1, <1>4, OneStretch
  <1>7. n \in 0..N /\ \A k \in 0..N : k \in Nat
    BY <1>4, <1>6
  <1>8. shown = {n}
    BY <1>5, <1>6, <1>7
  <1>9. Cardinality({n}) = 1
    BY FS_Singleton
  <1>10. Cardinality(shown) = 1
    BY <1>8, <1>9
  <1>11. QED
    BY <1>10 DEF S, N, q, l, turned

-----------------------------------------------------------------------------
(* The groups of a page. *)

\* f[k] is what k passes over the groups add to those of the start.
Passes(f, groups, start, n) ==
    f = [k \in 0..n |-> IF k = 0 THEN start ELSE Above(groups, f[k - 1])]

\* There is one, for every number of passes.
LEMMA PassesExist ==
    ASSUME NEW groups, NEW start, NEW n \in Nat
    PROVE  \E f : Passes(f, groups, start, n)
  <1> DEFINE Bad == {m \in Nat : ~\E f : Passes(f, groups, start, m)}
  <1>1. SUFFICES ASSUME Bad # {} PROVE FALSE
    OBVIOUS
  <1>2. PICK m \in Bad : \A k \in Bad : m <= k
    <2>1. Bad \in SUBSET Nat
      OBVIOUS
    <2> HIDE DEF Bad
    <2>2. QED
      BY <1>1, <2>1, LeastNatural
  <1>3. m # 0
    <2>1. Passes([k \in 0..0 |-> start], groups, start, 0)
      BY DEF Passes
    <2>2. QED
      BY <2>1
  <1>4. PICK f : Passes(f, groups, start, m - 1)
    BY <1>2, <1>3
  <1> DEFINE g == [k \in 0..m |-> IF k = m THEN Above(groups, f[m - 1]) ELSE f[k]]
  <1>5. \A k \in 0..(m - 1) : f[k] = IF k = 0 THEN start ELSE Above(groups, f[k - 1])
    BY <1>4 DEF Passes
  <1>6. ASSUME NEW k \in 0..m
        PROVE  g[k] = IF k = 0 THEN start ELSE Above(groups, g[k - 1])
    <2>1. CASE k = m
      <3>1. g[m - 1] = f[m - 1] /\ g[k] = Above(groups, f[m - 1])
        BY <1>2, <1>3, <2>1
      <3>2. QED
        BY <3>1, <1>3, <2>1
    <2>2. CASE k # m
      <3>1. k \in 0..(m - 1) /\ g[k] = f[k] /\ (k # 0 => g[k - 1] = f[k - 1])
        BY <1>2, <2>2
      <3>2. QED
        BY <3>1, <1>5
    <2>3. QED
      BY <2>1, <2>2
  <1>7. g = [k \in 0..m |-> IF k = 0 THEN start ELSE Above(groups, g[k - 1])]
    <2>1. DOMAIN g = 0..m /\ g = [k \in 0..m |-> g[k]]
      OBVIOUS
    <2> HIDE DEF g
    <2>2. QED
      BY <1>6, <2>1
  <1> HIDE DEF g
  <1>8. Passes(g, groups, start, m)
    BY <1>7 DEF Passes
  <1>9. QED
    BY <1>2, <1>8

\* The groups with a host of the page.
OnPage(groups, page) == {g \in DOMAIN groups : groups[g].hosts \cap page # {}}

\* Kept is what the last pass leaves.
LEMMA KeptUnfolds ==
    ASSUME NEW groups, NEW page, Cardinality(DOMAIN groups) \in Nat
    PROVE  LET n == Cardinality(DOMAIN groups)
           IN \E f : Passes(f, groups, OnPage(groups, page), n) /\ Kept(groups, page) = f[n]
  <1> DEFINE n == Cardinality(DOMAIN groups)
             start == OnPage(groups, page)
             F == CHOOSE f : Passes(f, groups, start, n)
  <1>1. Passes(F, groups, start, n)
    BY PassesExist
  <1>2. Kept(groups, page) = F[n]
    BY DEF Kept, Passes, OnPage
  <1>3. QED
    BY <1>1, <1>2

\* c leads in n steps down from g to a group with a host of the page.
Chain(groups, page, g, n, c) ==
    /\ c \in [1..n -> DOMAIN groups] /\ c[1] = g
    /\ \A i \in 1..(n - 1) : c[i + 1] \in groups[c[i]].children
    /\ groups[c[n]].hosts \cap page # {}

\* What k passes find has such a chain of at most k + 1 groups, and the other
\* way round.
Found(groups, page, f, k) ==
    \A g : g \in f[k] <=> \E n \in 1..(k + 1) : \E c : Chain(groups, page, g, n, c)

\* A group above the first of a chain has a chain, longer by itself ...
LEMMA ChainGrows ==
    ASSUME NEW groups, NEW page, NEW g \in DOMAIN groups, NEW n \in Nat, n # 0, NEW c,
           Chain(groups, page, c[1], n, c), c[1] \in groups[g].children
    PROVE  \E d : Chain(groups, page, g, n + 1, d)
  <1> DEFINE d == [i \in 1..(n + 1) |-> IF i = 1 THEN g ELSE c[i - 1]]
  <1>1. /\ c \in [1..n -> DOMAIN groups]
        /\ \A i \in 1..(n - 1) : c[i + 1] \in groups[c[i]].children
        /\ groups[c[n]].hosts \cap page # {}
    BY DEF Chain
  <1>2. d \in [1..(n + 1) -> DOMAIN groups]
    BY <1>1
  <1>3. d[1] = g /\ d[n + 1] = c[n]
    OBVIOUS
  <1>4. ASSUME NEW i \in 1..n
        PROVE  d[i + 1] \in groups[d[i]].children
    <2>1. d[i + 1] = c[i]
      BY <1>4
    <2>2. CASE i = 1
      BY <1>3, <2>1, <2>2
    <2>3. CASE i # 1
      <3>1. i - 1 \in 1..(n - 1) /\ d[i] = c[i - 1] /\ (i - 1) + 1 = i
        BY <2>3
      <3>2. c[(i - 1) + 1] \in groups[c[i - 1]].children
        BY <1>1, <3>1
      <3>3. QED
        BY <2>1, <3>1, <3>2
    <2>4. QED
      BY <2>2, <2>3
  <1> HIDE DEF d
  <1>5. Chain(groups, page, g, n + 1, d)
    <2>1. (n + 1) - 1 = n
      OBVIOUS
    <2>2. QED
      BY <1>1, <1>2, <1>3, <1>4, <2>1 DEF Chain
  <1>6. QED
    BY <1>5

\* ... and what is left of a chain without its first group is one.
LEMMA ChainShrinks ==
    ASSUME NEW groups, NEW page, NEW g, NEW n \in Nat, n > 1, NEW c, Chain(groups, page, g, n, c)
    PROVE  /\ c[2] \in groups[g].children /\ g \in DOMAIN groups
           /\ \E d : Chain(groups, page, c[2], n - 1, d)
  <1> DEFINE d == [i \in 1..(n - 1) |-> c[i + 1]]
  <1>1. /\ c \in [1..n -> DOMAIN groups] /\ c[1] = g
        /\ \A i \in 1..(n - 1) : c[i + 1] \in groups[c[i]].children
        /\ groups[c[n]].hosts \cap page # {}
    BY DEF Chain
  <1>2. c[2] \in groups[g].children /\ g \in DOMAIN groups
    <2>1. 1 \in 1..(n - 1) /\ 1 \in 1..n /\ 1 + 1 = 2
      OBVIOUS
    <2>2. QED
      BY <1>1, <2>1
  <1>3. d \in [1..(n - 1) -> DOMAIN groups]
    BY <1>1
  <1>4. d[1] = c[2] /\ d[n - 1] = c[n]
    OBVIOUS
  <1>5. ASSUME NEW i \in 1..((n - 1) - 1)
        PROVE  d[i + 1] \in groups[d[i]].children
    <2>1. i + 1 \in 1..(n - 1) /\ d[i] = c[i + 1] /\ d[i + 1] = c[(i + 1) + 1]
      BY <1>5
    <2>2. QED
      BY <1>1, <2>1
  <1> HIDE DEF d
  <1>6. Chain(groups, page, c[2], n - 1, d)
    BY <1>1, <1>3, <1>4, <1>5 DEF Chain
  <1>7. QED
    BY <1>2, <1>6

\* One more pass finds the chains that are one longer.
LEMMA PassFinds ==
    ASSUME NEW groups, NEW page, NEW f, NEW k \in Nat, Found(groups, page, f, k),
           f[k + 1] = Above(groups, f[k])
    PROVE  Found(groups, page, f, k + 1)
  <1>1. SUFFICES ASSUME NEW g
                 PROVE  g \in f[k + 1]
                          <=> \E n \in 1..((k + 1) + 1) : \E c : Chain(groups, page, g, n, c)
    BY DEF Found
  <1>2. g \in f[k + 1] <=> \/ g \in f[k]
                           \/ g \in DOMAIN groups /\ groups[g].children \cap f[k] # {}
    BY DEF Above
  <1>3. \A n \in 1..(k + 1) :
           n \in 1..((k + 1) + 1) /\ n + 1 \in 1..((k + 1) + 1) /\ n \in Nat /\ n # 0
    OBVIOUS
  <1>4. ASSUME g \in f[k]
        PROVE  \E n \in 1..((k + 1) + 1) : \E c : Chain(groups, page, g, n, c)
    <2>1. PICK n \in 1..(k + 1) : \E c : Chain(groups, page, g, n, c)
      BY <1>4 DEF Found
    <2>2. QED
      BY <1>3, <2>1
  <1>5. ASSUME g \in DOMAIN groups, NEW b \in groups[g].children, b \in f[k]
        PROVE  \E n \in 1..((k + 1) + 1) : \E c : Chain(groups, page, g, n, c)
    <2>1. PICK n \in 1..(k + 1) : \E c : Chain(groups, page, b, n, c)
      BY <1>5 DEF Found
    <2>2. PICK c : Chain(groups, page, b, n, c)
      BY <2>1
    <2>3. c[1] = b
      BY <2>2 DEF Chain
    <2>4. \E d : Chain(groups, page, g, n + 1, d)
      BY <1>3, <1>5, <2>2, <2>3, ChainGrows
    <2>5. QED
      BY <1>3, <2>4
  <1>6. ASSUME NEW n \in 1..((k + 1) + 1), NEW c, Chain(groups, page, g, n, c)
        PROVE  g \in f[k + 1]
    <2>1. CASE n = 1
      <3>1. 1 \in 1..(k + 1)
        OBVIOUS
      <3>2. g \in f[k]
        BY <1>6, <2>1, <3>1 DEF Found
      <3>3. QED
        BY <1>2, <3>2
    <2>2. CASE n # 1
      <3>1. n \in Nat /\ n > 1 /\ n - 1 \in 1..(k + 1)
        BY <2>2
      <3>2. /\ c[2] \in groups[g].children /\ g \in DOMAIN groups
            /\ \E d : Chain(groups, page, c[2], n - 1, d)
        BY <1>6, <3>1, ChainShrinks
      <3>3. c[2] \in f[k]
        BY <3>1, <3>2 DEF Found
      <3>4. QED
        BY <1>2, <3>2, <3>3
    <2>3. QED
      BY <2>1, <2>2
  <1>7. QED
    BY <1>2, <1>4, <1>5, <1>6

\* So every number of passes finds what it should.
LEMMA PassesFind ==
    ASSUME NEW groups, NEW page, NEW n \in Nat, NEW f, Passes(f, groups, OnPage(groups, page), n)
    PROVE  \A k \in 0..n : Found(groups, page, f, k)
  <1> DEFINE Bad == {k \in 0..n : ~Found(groups, page, f, k)}
  <1>1. SUFFICES ASSUME Bad # {} PROVE FALSE
    OBVIOUS
  <1>2. PICK k \in Bad : \A j \in Bad : k <= j
    <2>1. Bad \in SUBSET Nat
      OBVIOUS
    <2> HIDE DEF Bad
    <2>2. QED
      BY <1>1, <2>1, LeastNatural
  <1>3. \A j \in 0..n : f[j] = IF j = 0 THEN OnPage(groups, page) ELSE Above(groups, f[j - 1])
    BY DEF Passes
  <1>4. CASE k = 0
    <2>1. f[0] = OnPage(groups, page)
      BY <1>3
    <2>2. ASSUME NEW g
          PROVE  g \in OnPage(groups, page)
                   <=> \E i \in 1..(0 + 1) : \E c : Chain(groups, page, g, i, c)
      <3>1. ASSUME g \in OnPage(groups, page)
            PROVE  Chain(groups, page, g, 1, [i \in 1..1 |-> g])
        BY <3>1 DEF Chain, OnPage
      <3>2. ASSUME NEW c, Chain(groups, page, g, 1, c)
            PROVE  g \in OnPage(groups, page)
        BY <3>2 DEF Chain, OnPage
      <3>3. QED
        BY <3>1, <3>2
    <2>3. QED
      BY <1>2, <1>4, <2>1, <2>2 DEF Found
  <1>5. CASE k # 0
    <2>1. k - 1 \in 0..n /\ k - 1 \in Nat /\ (k - 1) + 1 = k /\ ~(k <= k - 1)
      BY <1>2, <1>5
    <2>2. Found(groups, page, f, k - 1)
      BY <1>2, <2>1
    <2>3. f[k] = Above(groups, f[k - 1])
      BY <1>2, <1>3, <1>5
    <2>4. Found(groups, page, f, (k - 1) + 1)
      BY <2>1, <2>2, <2>3, PassFinds
    <2>5. QED
      BY <1>2, <2>1, <2>4
  <1>6. QED
    BY <1>4, <1>5

\* A chain that comes back to a group is cut short there.
LEMMA ChainCut ==
    ASSUME NEW groups, NEW page, NEW g, NEW m \in Nat, m # 0, NEW d, Chain(groups, page, g, m, d),
           NEW i \in 1..m, NEW j \in 1..m, i < j, d[i] = d[j]
    PROVE  \E e : Chain(groups, page, g, m - (j - i), e)
  <1> DEFINE n == m - (j - i)
             e == [k \in 1..n |-> IF k <= i THEN d[k] ELSE d[k + (j - i)]]
  <1>1. /\ d \in [1..m -> DOMAIN groups] /\ d[1] = g
        /\ \A k \in 1..(m - 1) : d[k + 1] \in groups[d[k]].children
        /\ groups[d[m]].hosts \cap page # {}
    BY DEF Chain
  <1>2. n \in Nat /\ n >= i /\ i >= 1 /\ n < m
    OBVIOUS
  <1>3. \A k \in 1..n : k \in 1..m /\ k + (j - i) \in 1..m
    OBVIOUS
  <1>4. e \in [1..n -> DOMAIN groups]
    BY <1>1, <1>3
  <1>5. e[1] = g
    BY <1>1, <1>2
  <1>6. ASSUME NEW k \in 1..(n - 1)
        PROVE  e[k + 1] \in groups[e[k]].children
    <2>1. k \in 1..n /\ k + 1 \in 1..n /\ k \in 1..(m - 1) /\ k + (j - i) \in 1..(m - 1)
      BY <1>2, <1>6
    <2>2. CASE k < i
      <3>1. e[k] = d[k] /\ e[k + 1] = d[k + 1]
        BY <2>1, <2>2
      <3>2. QED
        BY <1>1, <2>1, <3>1
    <2>3. CASE k = i
      <3>1. e[k] = d[i] /\ e[k + 1] = d[(k + 1) + (j - i)]
        BY <2>1, <2>3
      <3>2. (k + 1) + (j - i) = j + 1 /\ j \in 1..(m - 1)
        BY <2>1, <2>3
      <3>3. d[j + 1] \in groups[d[j]].children
        BY <1>1, <3>2
      <3>4. QED
        BY <3>1, <3>2, <3>3
    <2>4. CASE k > i
      <3>1. e[k] = d[k + (j - i)] /\ e[k + 1] = d[(k + 1) + (j - i)]
        BY <2>1, <2>4
      <3>2. (k + 1) + (j - i) = (k + (j - i)) + 1
        BY <2>1
      <3>3. d[(k + (j - i)) + 1] \in groups[d[k + (j - i)]].children
        BY <1>1, <2>1
      <3>4. QED
        BY <3>1, <3>2, <3>3
    <2>5. QED
      BY <2>1, <2>2, <2>3, <2>4
  <1>7. e[n] = d[m]
    <2>1. CASE n = i
      <3>1. j = m /\ e[n] = d[i]
        BY <1>2, <2>1
      <3>2. QED
        BY <3>1
    <2>2. CASE n # i
      <3>1. n \in 1..n /\ ~(n <= i) /\ n + (j - i) = m
        BY <1>2, <2>2
      <3>2. QED
        BY <3>1
    <2>3. QED
      BY <2>1, <2>2
  <1> HIDE DEF e, n
  <1>8. Chain(groups, page, g, n, e)
    BY <1>1, <1>4, <1>5, <1>6, <1>7 DEF Chain
  <1>9. QED
    BY <1>8 DEF n

\* So no chain need be longer than there are groups.
LEMMA ChainsAreShort ==
    ASSUME NEW groups, IsFiniteSet(DOMAIN groups), NEW page, NEW g, NEW n \in Nat, n # 0, NEW c,
           Chain(groups, page, g, n, c)
    PROVE  \E m \in 1..Cardinality(DOMAIN groups) : \E d : Chain(groups, page, g, m, d)
  <1> DEFINE N == Cardinality(DOMAIN groups)
             T == {m \in Nat : m # 0 /\ \E d : Chain(groups, page, g, m, d)}
  <1>1. PICK m \in T : \A k \in T : m <= k
    <2>1. T \in SUBSET Nat /\ n \in T
      OBVIOUS
    <2> HIDE DEF T
    <2>2. QED
      BY <2>1, LeastNatural
  <1>2. m \in Nat /\ m # 0 /\ N \in Nat
    BY <1>1, FS_CardinalityType
  <1>3. PICK d : Chain(groups, page, g, m, d)
    BY <1>1
  <1>4. ASSUME m > N
        PROVE  FALSE
    <2> DEFINE S == 1..m
               D == DOMAIN groups
    <2>1. IsFiniteSet(S) /\ Cardinality(S) = m
      <3>1. IsFiniteSet(1..m) /\ Cardinality(1..m) = IF 1 > m THEN 0 ELSE m - 1 + 1
        BY <1>2, FS_Interval
      <3>2. QED
        BY <1>2, <3>1
    <2>2. d \in [S -> D]
      BY <1>3 DEF Chain
    <2>3. Cardinality(D) < Cardinality(S)
      BY <1>4, <2>1
    <2> HIDE DEF S, D
    <2>4. PICK x \in S, y \in S : x # y /\ d[x] = d[y]
      BY <2>1, <2>2, <2>3, FS_PigeonHole DEF D
    <2>5. \E i, j \in 1..m : i < j /\ d[i] = d[j]
      <3>1. x \in 1..m /\ y \in 1..m /\ (x < y \/ y < x)
        BY <2>4 DEF S
      <3>2. QED
        BY <2>4, <3>1
    <2>6. PICK i \in 1..m, j \in 1..m : i < j /\ d[i] = d[j]
      BY <2>5
    <2>7. \E e : Chain(groups, page, g, m - (j - i), e)
      BY <1>2, <1>3, <2>6, ChainCut
    <2>8. m - (j - i) \in Nat /\ m - (j - i) # 0 /\ ~(m <= m - (j - i))
      BY <1>2, <2>6
    <2>9. m - (j - i) \in T
      BY <2>7, <2>8
    <2>10. QED
      BY <1>1, <2>8, <2>9
  <1>5. m \in 1..N
    BY <1>2, <1>4
  <1>6. QED
    BY <1>3, <1>5

\* A group is kept exactly when a chain leads from it to a host of the page.
LEMMA KeptAreChained ==
    ASSUME NEW groups, IsFiniteSet(DOMAIN groups), NEW page, NEW g
    PROVE  g \in Kept(groups, page)
             <=> \E n \in 1..Cardinality(DOMAIN groups) : \E c : Chain(groups, page, g, n, c)
  <1> DEFINE N == Cardinality(DOMAIN groups)
  <1>1. N \in Nat
    BY FS_CardinalityType
  <1> HIDE DEF N
  <1>2. PICK f : Passes(f, groups, OnPage(groups, page), N) /\ Kept(groups, page) = f[N]
    BY <1>1, KeptUnfolds DEF N
  <1>3. Found(groups, page, f, N)
    BY <1>1, <1>2, PassesFind
  <1>4. g \in Kept(groups, page) <=> \E n \in 1..(N + 1) : \E c : Chain(groups, page, g, n, c)
    BY <1>2, <1>3 DEF Found
  <1>5. ASSUME NEW n \in 1..(N + 1), NEW c, Chain(groups, page, g, n, c)
        PROVE  \E m \in 1..N : \E d : Chain(groups, page, g, m, d)
    <2>1. n \in Nat /\ n # 0
      OBVIOUS
    <2>2. QED
      BY <1>5, <2>1, ChainsAreShort DEF N
  <1>6. \A n \in 1..N : n \in 1..(N + 1)
    BY <1>1
  <1>7. QED
    BY <1>4, <1>5, <1>6 DEF N

\* The groups shown are those above a host of the page, and name no other.
LEMMA MatchingGroups ==
    ASSUME MayAsk(request), ReadsFit
    PROVE  MatchingGroupsAreClosed
  <1> SUFFICES ASSUME Answers("source"), request.q.groups = "matching"
               PROVE  MatchingGroupsAreClosed
    BY DEF MatchingGroupsAreClosed
  <1> DEFINE d == request.dataset
             q == request.q
             all == Restrict(d.groups, DOMAIN d.groups \cap
                                (IF q.group = None THEN DOMAIN d.groups ELSE q.group))
             page == PageOf(response.hosts, q)
             N == Cardinality(DOMAIN all)
             paths == UNION {[1..n -> DOMAIN all] : n \in 1..N}
             below(g) == {f[Len(f)] : f \in {c \in paths :
                             /\ c[1] = g
                             /\ \A i \in 1..(Len(c) - 1) : c[i + 1] \in all[c[i]].children}}
             shown == response.page.groups
  <1>1. /\ IsContent(d) /\ response.hosts = Selected(d, q)
        /\ response.page = DatasetPage(d, q)
    BY DEF ReadsFit, MayAsk, Answers, HostList
  <1>2. IsFiniteSet(DOMAIN all)
    <2>1. DOMAIN all \subseteq DOMAIN d.groups
      BY DEF Restrict
    <2> HIDE DEF all
    <2>2. QED
      BY <1>1, <2>1, FS_Subset DEF IsContent
  <1>3. shown = GroupsOf(d.groups, page, q)
    BY <1>1 DEF DatasetPage
  <1>4. /\ DOMAIN shown = Kept(all, page)
        /\ \A g \in DOMAIN shown : shown[g].children \subseteq Kept(all, page)
    <2> DEFINE trimmed == Trimmed(all, page)
    <2>1. /\ DOMAIN trimmed = Kept(all, page)
          /\ \A g \in DOMAIN trimmed : trimmed[g].children \subseteq Kept(all, page)
          /\ \A g \in DOMAIN trimmed :
                trimmed[g] = [hosts |-> all[g].hosts \cap page,
                              children |-> all[g].children \cap Kept(all, page),
                              vars |-> all[g].vars]
      BY DEF Trimmed
    <2>2. GroupsOf(d.groups, page, q)
             = [g \in DOMAIN trimmed |-> [trimmed[g] EXCEPT !.vars = ShapeGroupVars(q, @)]]
      BY DEF GroupsOf
    <2> HIDE DEF trimmed
    <2>3. DOMAIN shown = DOMAIN trimmed
      BY <1>3, <2>2
    <2>4. ASSUME NEW g \in DOMAIN shown
          PROVE  shown[g].children = trimmed[g].children
      <3> DEFINE shaped == ShapeGroupVars(q, trimmed[g].vars)
                 t == trimmed[g]
      <3>1. shown[g] = [t EXCEPT !.vars = shaped]
        BY <1>3, <2>2, <2>3, <2>4
      <3>2. t = [hosts |-> all[g].hosts \cap page,
                 children |-> all[g].children \cap Kept(all, page), vars |-> all[g].vars]
        BY <2>1, <2>3, <2>4
      <3> HIDE DEF shaped, t, shown
      <3>3. shown[g].children = t.children
        BY <3>1, <3>2
      <3>4. QED
        BY <3>3 DEF t
    <2> HIDE DEF shown
    <2>5. QED
      BY <2>1, <2>3, <2>4
  <1> HIDE DEF all, page, shown
  <1>5. ASSUME NEW g, NEW n \in 1..N, NEW c, Chain(all, page, g, n, c)
        PROVE  \E b \in below(g) : all[b].hosts \cap page # {}
    <2>1. c \in [1..n -> DOMAIN all] /\ Len(c) = n
      BY <1>5 DEF Chain
    <2>2. c \in paths
      BY <2>1
    <2> HIDE DEF paths
    <2>3. c[Len(c)] \in below(g) /\ all[c[Len(c)]].hosts \cap page # {}
      BY <1>5, <2>1, <2>2 DEF Chain
    <2>4. QED
      BY <2>3
  <1>6. ASSUME NEW g, NEW b \in below(g), all[b].hosts \cap page # {}
        PROVE  \E n \in 1..N : \E c : Chain(all, page, g, n, c)
    <2>1. PICK c \in paths : /\ c[1] = g /\ b = c[Len(c)]
                             /\ \A i \in 1..(Len(c) - 1) : c[i + 1] \in all[c[i]].children
      BY <1>6
    <2>2. PICK n \in 1..N : c \in [1..n -> DOMAIN all]
      BY <2>1
    <2>3. Len(c) = n
      BY <2>2
    <2>4. Chain(all, page, g, n, c)
      BY <1>6, <2>1, <2>2, <2>3 DEF Chain
    <2>5. QED
      BY <2>4
  <1>7. ASSUME NEW g
        PROVE  g \in Kept(all, page) <=> \E n \in 1..N : \E c : Chain(all, page, g, n, c)
    BY <1>2, KeptAreChained
  <1>8. ASSUME NEW g
        PROVE  g \in Kept(all, page) => g \in DOMAIN all
    <2>1. \A n \in 1..N : \A c : Chain(all, page, g, n, c) => g \in DOMAIN all
      BY DEF Chain
    <2>2. QED
      BY <1>7, <2>1
  <1> HIDE DEF below, N
  <1>9. DOMAIN shown = {g \in DOMAIN all : \E b \in below(g) : all[b].hosts \cap page # {}}
    <2>1. \A g : g \in Kept(all, page) <=> \E b \in below(g) : all[b].hosts \cap page # {}
      BY <1>5, <1>6, <1>7
    <2>2. QED
      BY <1>4, <1>8, <2>1
  <1>10. \A g \in DOMAIN shown : shown[g].children \subseteq DOMAIN shown
    BY <1>4
  <1>11. QED
    BY <1>9, <1>10 DEF MatchingGroupsAreClosed, all, page, below, N, shown

-----------------------------------------------------------------------------
(* Patterns. *)

\* f[i] is where p from i on generates the rest of t.
FromPlace(p, t, i, next) ==
    {j \in 1..(Len(t) + 1) :
        IF p[i] = "*" THEN \E k \in next : j <= k
        ELSE j + 1 \in next /\ p[i] \in {"?", t[j]}}

FromPlaces(f, p, t, from) ==
    f = [i \in from..(Len(p) + 1) |->
            IF i > Len(p) THEN {Len(t) + 1} ELSE FromPlace(p, t, i, f[i + 1])]

\* There is one, from every place on.
LEMMA FromPlacesExist ==
    ASSUME NEW p, NEW t, Len(p) \in Nat, NEW m \in Nat, m <= Len(p)
    PROVE  \E f : FromPlaces(f, p, t, Len(p) + 1 - m)
  <1> DEFINE n == Len(p)
             Bad == {k \in 0..n : ~\E f : FromPlaces(f, p, t, n + 1 - k)}
  <1>1. SUFFICES ASSUME Bad # {} PROVE FALSE
    <2>1. m \in 0..n
      OBVIOUS
    <2>2. QED
      BY <2>1
  <1>2. PICK k \in Bad : \A j \in Bad : k <= j
    <2>1. Bad \in SUBSET Nat
      OBVIOUS
    <2> HIDE DEF Bad
    <2>2. QED
      BY <1>1, <2>1, LeastNatural
  <1>3. k # 0
    <2>1. FromPlaces([i \in (n + 1)..(n + 1) |-> {Len(t) + 1}], p, t, n + 1)
      <3>1. \A i \in (n + 1)..(n + 1) : i > n
        OBVIOUS
      <3>2. QED
        BY <3>1 DEF FromPlaces
    <2>2. QED
      BY <2>1
  <1> DEFINE from == n + 1 - k
  <1>4. from \in 1..n /\ n + 1 - (k - 1) = from + 1 /\ k - 1 \in 0..n /\ ~(k <= k - 1)
    BY <1>2, <1>3
  <1>5. PICK f : FromPlaces(f, p, t, from + 1)
    BY <1>2, <1>4
  <1> HIDE DEF from
  <1> DEFINE g == [i \in from..(n + 1) |->
                     IF i = from THEN FromPlace(p, t, from, f[from + 1]) ELSE f[i]]
  <1>6. \A i \in (from + 1)..(n + 1) :
           f[i] = IF i > n THEN {Len(t) + 1} ELSE FromPlace(p, t, i, f[i + 1])
    BY <1>5 DEF FromPlaces
  <1>7. ASSUME NEW i \in from..(n + 1)
        PROVE  g[i] = IF i > n THEN {Len(t) + 1} ELSE FromPlace(p, t, i, g[i + 1])
    <2>1. CASE i = from
      <3>1. ~(i > n) /\ g[i + 1] = f[from + 1] /\ g[i] = FromPlace(p, t, from, f[from + 1])
        BY <1>4, <2>1
      <3>2. QED
        BY <2>1, <3>1
    <2>2. CASE i # from
      <3>1. i \in (from + 1)..(n + 1) /\ g[i] = f[i]
        BY <1>4, <2>2
      <3>2. ~(i > n) => g[i + 1] = f[i + 1]
        BY <1>4, <3>1
      <3>3. QED
        BY <1>6, <3>1, <3>2
    <2>3. QED
      BY <2>1, <2>2
  <1>8. g = [i \in from..(n + 1) |->
               IF i > n THEN {Len(t) + 1} ELSE FromPlace(p, t, i, g[i + 1])]
    <2>1. DOMAIN g = from..(n + 1) /\ g = [i \in from..(n + 1) |-> g[i]]
      OBVIOUS
    <2> HIDE DEF g
    <2>2. QED
      BY <1>7, <2>1
  <1> HIDE DEF g
  <1>9. FromPlaces(g, p, t, from)
    BY <1>8 DEF FromPlaces
  <1>10. QED
    BY <1>2, <1>9 DEF from

\* Generates is the first of them.
LEMMA GeneratesUnfolds ==
    ASSUME NEW p, NEW t, Len(p) \in Nat
    PROVE  \E f : FromPlaces(f, p, t, 1) /\ (Generates(p, t) <=> 1 \in f[1])
  <1> DEFINE F == CHOOSE f : FromPlaces(f, p, t, 1)
  <1>1. FromPlaces(F, p, t, 1)
    <2>1. Len(p) + 1 - Len(p) = 1 /\ Len(p) <= Len(p)
      OBVIOUS
    <2>2. \E f : FromPlaces(f, p, t, Len(p) + 1 - Len(p))
      BY <2>1, FromPlacesExist
    <2>3. QED
      BY <2>1, <2>2
  <1>2. Generates(p, t) <=> 1 \in F[1]
    BY DEF Generates, FromPlaces, FromPlace
  <1>3. QED
    BY <1>1, <1>2

\* What a pattern generates, place by place.
LEMMA PlaceByPlace ==
    ASSUME NEW p, NEW t, Len(p) \in Nat, Len(t) \in Nat, NEW f, FromPlaces(f, p, t, 1)
    PROVE  /\ f[Len(p) + 1] = {Len(t) + 1}
           /\ \A i \in 1..(Len(p) + 1) : f[i] \subseteq 1..(Len(t) + 1)
           /\ \A i \in 1..Len(p) : p[i] = "*" =>
                 \A j : j \in f[i] <=> j \in 1..(Len(t) + 1) /\ \E k \in f[i + 1] : j <= k
           /\ \A i \in 1..Len(p) : p[i] # "*" =>
                 \A j : j \in f[i] <=> /\ j \in 1..(Len(t) + 1) /\ j + 1 \in f[i + 1]
                                       /\ p[i] \in {"?", t[j]}
  <1> DEFINE n == Len(p)
             m == Len(t)
  <1>1. \A i \in 1..(n + 1) : f[i] = IF i > n THEN {m + 1} ELSE FromPlace(p, t, i, f[i + 1])
    BY DEF FromPlaces
  <1>2. f[n + 1] = {m + 1}
    <2>1. n + 1 \in 1..(n + 1) /\ n + 1 > n
      OBVIOUS
    <2>2. QED
      BY <1>1, <2>1
  <1>3. ASSUME NEW i \in 1..n
        PROVE  f[i] = FromPlace(p, t, i, f[i + 1])
    <2>1. i \in 1..(n + 1) /\ ~(i > n)
      OBVIOUS
    <2>2. QED
      BY <1>1, <2>1
  <1>4. \A i \in 1..(n + 1) : f[i] \subseteq 1..(m + 1)
    <2>1. TAKE i \in 1..(n + 1)
    <2>2. CASE i = n + 1
      BY <1>2, <2>2
    <2>3. CASE i # n + 1
      <3>1. i \in 1..n
        BY <2>3
      <3>2. QED
        BY <1>3, <3>1 DEF FromPlace
    <2>4. QED
      BY <2>2, <2>3
  <1>5. \A i \in 1..n : p[i] = "*" =>
           \A j : j \in f[i] <=> j \in 1..(m + 1) /\ \E k \in f[i + 1] : j <= k
    BY <1>3 DEF FromPlace
  <1>6. \A i \in 1..n : p[i] # "*" =>
           \A j : j \in f[i] <=> /\ j \in 1..(m + 1) /\ j + 1 \in f[i + 1]
                                 /\ p[i] \in {"?", t[j]}
    BY <1>3 DEF FromPlace
  <1>7. QED
    BY <1>2, <1>4, <1>5, <1>6

\* No stretch of a pattern without a `*` generates less than its length.
LEMMA PlainStretch ==
    ASSUME NEW p, NEW t, Len(p) \in Nat, Len(t) \in Nat, NEW f, FromPlaces(f, p, t, 1),
           NEW a \in 1..(Len(p) + 1), NEW b \in a..(Len(p) + 1),
           \A i \in a..(b - 1) : p[i] # "*", NEW k \in f[a]
    PROVE  k \in Nat /\ k + (b - a) \in f[b]
  <1> DEFINE n == Len(p)
             Bad == {i \in a..b : k + (i - a) \notin f[i]}
  <1>1. k \in Nat
    BY PlaceByPlace
  <1>2. SUFFICES ASSUME Bad # {} PROVE FALSE
    <2>1. b \in a..b
      OBVIOUS
    <2>2. QED
      BY <1>1, <2>1
  <1>3. PICK i \in Bad : \A j \in Bad : i <= j
    <2>1. Bad \in SUBSET Nat
      OBVIOUS
    <2> HIDE DEF Bad
    <2>2. QED
      BY <1>2, <2>1, LeastNatural
  <1>4. i # a
    BY <1>1, <1>3
  <1>5. i - 1 \in a..(b - 1) /\ i - 1 \in a..b /\ i - 1 \in 1..n /\ ~(i <= i - 1) /\ (i - 1) + 1 = i
    BY <1>3, <1>4
  <1>6. k + ((i - 1) - a) \in f[i - 1]
    BY <1>3, <1>5
  <1>7. p[i - 1] # "*"
    BY <1>5
  <1>8. (k + ((i - 1) - a)) + 1 \in f[(i - 1) + 1]
    BY <1>5, <1>6, <1>7, PlaceByPlace
  <1>9. (k + ((i - 1) - a)) + 1 = k + (i - a)
    BY <1>1, <1>5
  <1>10. QED
    BY <1>3, <1>5, <1>8, <1>9

\* At the end of the text a pattern generates the rest, nothing, when only `*`
\* are left of it.
LEMMA NothingLeft ==
    ASSUME NEW p, NEW t, Len(p) \in Nat, Len(t) \in Nat, NEW f, FromPlaces(f, p, t, 1),
           NEW a \in 1..(Len(p) + 1)
    PROVE  Len(t) + 1 \in f[a] <=> \A i \in a..Len(p) : p[i] = "*"
  <1> DEFINE n == Len(p)
             e == Len(t) + 1
             fits(i) == e \in f[i] <=> \A x \in i..n : p[x] = "*"
             Bad == {k \in 0..n : ~fits(n + 1 - k)}
  <1>1. ASSUME Bad # {}
        PROVE  FALSE
    <2>1. PICK k \in Bad : \A j \in Bad : k <= j
      <3>1. Bad \in SUBSET Nat
        OBVIOUS
      <3> HIDE DEF Bad
      <3>2. QED
        BY <1>1, <3>1, LeastNatural
    <2> DEFINE i == n + 1 - k
    <2>2. k \in 0..n /\ ~fits(i)
      BY <2>1
    <2>3. CASE k = 0
      <3>1. i = n + 1 /\ f[n + 1] = {e} /\ \A x \in (n + 1)..n : FALSE
        BY <2>3, PlaceByPlace
      <3>2. QED
        BY <2>2, <3>1
    <2>4. CASE k # 0
      <3>1. i \in 1..n /\ i + 1 = n + 1 - (k - 1) /\ k - 1 \in 0..n /\ ~(k <= k - 1)
        BY <2>2, <2>4
      <3>2. fits(i + 1)
        <4>1. k - 1 \notin Bad
          BY <2>1, <3>1
        <4>2. QED
          BY <3>1, <4>1
      <3> HIDE DEF i
      <3>3. i + 1 \in 1..(n + 1) /\ f[i + 1] \subseteq 1..e /\ e \in 1..e /\ e + 1 \notin 1..e
        BY <3>1, PlaceByPlace
      <3>4. CASE p[i] = "*"
        <4>1. e \in f[i] <=> \E x \in f[i + 1] : e <= x
          BY <3>1, <3>3, <3>4, PlaceByPlace
        <4>2. (\E x \in f[i + 1] : e <= x) <=> e \in f[i + 1]
          <5>1. ASSUME NEW x \in f[i + 1], e <= x
                PROVE  x = e
            BY <3>3, <5>1
          <5>2. QED
            BY <5>1
        <4>3. (\A x \in i..n : p[x] = "*") <=> (\A x \in (i + 1)..n : p[x] = "*")
          <5>1. \A x \in i..n : x = i \/ x \in (i + 1)..n
            BY <3>1
          <5>2. \A x \in (i + 1)..n : x \in i..n
            BY <3>1
          <5>3. QED
            BY <3>4, <5>1, <5>2
        <4>4. QED
          BY <2>2, <3>2, <4>1, <4>2, <4>3 DEF i
      <3>5. CASE p[i] # "*"
        <4>1. e \notin f[i]
          BY <3>1, <3>3, <3>5, PlaceByPlace
        <4>2. i \in i..n
          BY <3>1
        <4>3. QED
          BY <2>2, <3>5, <4>1, <4>2 DEF i
      <3>6. QED
        BY <3>4, <3>5
    <2>5. QED
      BY <2>3, <2>4
  <1>2. n + 1 - a \in 0..n /\ n + 1 - (n + 1 - a) = a
    OBVIOUS
  <1>3. n + 1 - a \notin Bad
    BY <1>1
  <1>4. fits(n + 1 - (n + 1 - a))
    BY <1>2, <1>3
  <1> HIDE DEF fits, n, Bad, e
  <1>5. fits(a)
    BY <1>2, <1>4
  <1>6. QED
    BY <1>5 DEF fits, n, e

\* What the walk keeps: it is in the pattern and the text, it matched as much
\* text as pattern since the last `*`, and the pattern generates the text
\* exactly when it does so from here or with more of the text in that `*`.
WalkFits(p, t, f, s) ==
    /\ s = [pi |-> s.pi, ti |-> s.ti, sp |-> s.sp, st |-> s.st]
    /\ s.pi \in 1..(Len(p) + 1) /\ s.ti \in 1..(Len(t) + 1)
    /\ s.sp \in 0..Len(p) /\ s.st \in 0..(Len(t) + 1)
    /\ s.sp = 0 => s.st = 0
    /\ s.sp # 0 => /\ s.st # 0 /\ s.sp < s.pi /\ s.pi - s.sp - 1 = s.ti - s.st
                   /\ p[s.sp] = "*" /\ \A i \in (s.sp + 1)..(s.pi - 1) : p[i] # "*"
    /\ 1 \in f[1] <=> \/ s.ti \in f[s.pi]
                      \/ s.sp # 0 /\ \E k \in f[s.sp + 1] : k > s.st

\* What there is to go back to generates less text than the walk has matched.
LEMMA BackIsBehind ==
    ASSUME NEW p, NEW t, Len(p) \in Nat, Len(t) \in Nat, NEW f, FromPlaces(f, p, t, 1),
           NEW s, WalkFits(p, t, f, s), s.sp # 0, NEW k \in f[s.sp + 1], k > s.st
    PROVE  \E j \in f[s.pi] : j > s.ti
  <1>1. s.sp + 1 \in 1..(Len(p) + 1) /\ s.pi \in (s.sp + 1)..(Len(p) + 1)
    BY DEF WalkFits
  <1>2. \A i \in (s.sp + 1)..(s.pi - 1) : p[i] # "*"
    BY DEF WalkFits
  <1>3. k \in Nat /\ k + (s.pi - (s.sp + 1)) \in f[s.pi]
    BY <1>1, <1>2, PlainStretch
  <1>4. k + (s.pi - (s.sp + 1)) > s.ti
    <2>1. /\ s.pi \in Int /\ s.ti \in Int /\ s.sp \in Int /\ s.st \in Int
          /\ s.pi - s.sp - 1 = s.ti - s.st
      BY DEF WalkFits
    <2>2. QED
      BY <1>3, <2>1
  <1>5. QED
    BY <1>3, <1>4

\* Where the pattern neither matches nor has a `*` it generates nothing.
LEMMA MismatchFails ==
    ASSUME NEW p, NEW t, Len(p) \in Nat, Len(t) \in Nat, NEW f, FromPlaces(f, p, t, 1),
           NEW s, s.pi \in 1..(Len(p) + 1), s.ti \in 1..(Len(t) + 1), s.ti <= Len(t),
           ~(s.pi <= Len(p) /\ p[s.pi] \in {"?", t[s.ti]}), ~(s.pi <= Len(p) /\ p[s.pi] = "*")
    PROVE  s.ti \notin f[s.pi]
  <1> DEFINE n == Len(p)
             m == Len(t)
  <1>1. CASE s.pi <= n
    <2>1. s.pi \in 1..n /\ p[s.pi] # "*" /\ p[s.pi] \notin {"?", t[s.ti]}
      BY <1>1
    <2>2. QED
      BY <2>1, PlaceByPlace
  <1>2. CASE s.pi > n
    <2>1. s.pi = n + 1 /\ f[n + 1] = {m + 1}
      BY <1>2, PlaceByPlace
    <2>2. s.ti # m + 1
      OBVIOUS
    <2>3. QED
      BY <2>1, <2>2
  <1>3. QED
    BY <1>1, <1>2

\* Every turn keeps it.
LEMMA TurnFits ==
    ASSUME NEW p, NEW t, Len(p) \in Nat, Len(t) \in Nat, \A j \in 1..Len(t) : t[j] # "*",
           NEW f, FromPlaces(f, p, t, 1), NEW s, WalkFits(p, t, f, s)
    PROVE  WalkFits(p, t, f, GlobStep(p, t, s))
  <1> DEFINE n == Len(p)
             m == Len(t)
             back == s.sp # 0 /\ \E k \in f[s.sp + 1] : k > s.st
             goes == 1 \in f[1]
  <1>1. /\ s.pi \in 1..(n + 1) /\ s.ti \in 1..(m + 1) /\ s.sp \in 0..n /\ s.st \in 0..(m + 1)
        /\ s.sp = 0 => s.st = 0
        /\ s.sp # 0 => /\ s.st # 0 /\ s.sp < s.pi /\ s.pi - s.sp - 1 = s.ti - s.st
                       /\ p[s.sp] = "*" /\ \A i \in (s.sp + 1)..(s.pi - 1) : p[i] # "*"
        /\ goes <=> s.ti \in f[s.pi] \/ back
    BY DEF WalkFits
  <1> DEFINE matches == s.pi <= n /\ p[s.pi] \in {"?", t[s.ti]}
             starts == s.pi <= n /\ p[s.pi] = "*"
  <1>2. CASE s.ti > m
    BY <1>2 DEF GlobStep
  <1>3. CASE s.ti <= m /\ matches
    <2> DEFINE r == [pi |-> s.pi + 1, ti |-> s.ti + 1, sp |-> s.sp, st |-> s.st]
    <2>1. GlobStep(p, t, s) = r
      BY <1>1, <1>3 DEF GlobStep
    <2>2. r.pi = s.pi + 1 /\ r.ti = s.ti + 1 /\ r.sp = s.sp /\ r.st = s.st
      OBVIOUS
    <2>3. s.ti \in 1..m /\ s.pi \in 1..n /\ p[s.pi] # "*"
      BY <1>1, <1>3
    <2>4. s.ti \in f[s.pi] <=> s.ti + 1 \in f[s.pi + 1]
      BY <1>1, <1>3, <2>3, PlaceByPlace
    <2>5. s.sp # 0 => \A i \in (s.sp + 1)..((s.pi + 1) - 1) : p[i] # "*"
      <3>1. \A i \in (s.sp + 1)..((s.pi + 1) - 1) : i \in (s.sp + 1)..(s.pi - 1) \/ i = s.pi
        BY <1>1
      <3>2. QED
        BY <1>1, <2>3, <3>1
    <2>6. s.sp # 0 => s.sp < s.pi + 1 /\ (s.pi + 1) - s.sp - 1 = (s.ti + 1) - s.st
      <3>1. s.sp \in Int /\ s.pi \in Int /\ s.ti \in Int /\ s.st \in Int
        BY <1>1
      <3>2. s.sp # 0 => s.sp < s.pi /\ s.pi - s.sp - 1 = s.ti - s.st
        BY <1>1
      <3>3. ASSUME s.sp < s.pi
            PROVE  s.sp < s.pi + 1
        BY <3>1, <3>3
      <3>4. ASSUME s.pi - s.sp - 1 = s.ti - s.st
            PROVE  (s.pi + 1) - s.sp - 1 = (s.ti + 1) - s.st
        <4> DEFINE a == s.pi
                   b == s.sp
                   c == s.ti
                   d == s.st
        <4>1. a \in Int /\ b \in Int /\ c \in Int /\ d \in Int /\ a - b - 1 = c - d
          BY <3>1, <3>4
        <4> HIDE DEF a, b, c, d
        <4>2. (a + 1) - b - 1 = (c + 1) - d
          BY <4>1
        <4>3. QED
          BY <4>2 DEF a, b, c, d
      <3>5. QED
        BY <3>2, <3>3, <3>4
    <2>7. s.pi + 1 \in 1..(n + 1) /\ s.ti + 1 \in 1..(m + 1)
      BY <2>3
    <2> HIDE DEF r, back, goes
    <2>8. goes <=> r.ti \in f[r.pi] \/ back
      BY <1>1, <2>2, <2>4
    <2>9. r = [pi |-> r.pi, ti |-> r.ti, sp |-> r.sp, st |-> r.st]
      BY DEF r
    <2>10. QED
      BY <1>1, <2>1, <2>2, <2>5, <2>6, <2>7, <2>8, <2>9 DEF WalkFits, back, goes
  <1>4. CASE s.ti <= m /\ ~matches /\ starts
    <2> DEFINE r == [pi |-> s.pi + 1, ti |-> s.ti, sp |-> s.pi, st |-> s.ti]
    <2>1. GlobStep(p, t, s) = r
      BY <1>1, <1>4 DEF GlobStep
    <2>2. r.pi = s.pi + 1 /\ r.ti = s.ti /\ r.sp = s.pi /\ r.st = s.ti
      OBVIOUS
    <2>3. s.ti \in 1..m /\ s.pi \in 1..n /\ p[s.pi] = "*"
      BY <1>1, <1>4
    <2>4. \A j : j \in f[s.pi] <=> j \in 1..(m + 1) /\ \E k \in f[s.pi + 1] : j <= k
      BY <2>3, PlaceByPlace
    <2>5. f[s.pi + 1] \subseteq 1..(m + 1)
      <3>1. s.pi + 1 \in 1..(n + 1)
        BY <2>3
      <3>2. QED
        BY <3>1, PlaceByPlace
    <2>6. s.ti \in f[s.pi] <=> s.ti \in f[s.pi + 1] \/ \E k \in f[s.pi + 1] : k > s.ti
      <3>1. s.ti \in f[s.pi] <=> \E k \in f[s.pi + 1] : s.ti <= k
        BY <1>1, <2>4
      <3>2. \A k \in f[s.pi + 1] : s.ti <= k <=> (s.ti = k \/ k > s.ti)
        BY <1>1, <2>5
      <3>3. QED
        BY <3>1, <3>2
    <2>7. back => s.ti \in f[s.pi]
      <3>1. ASSUME back
            PROVE  s.ti \in f[s.pi]
        <4>1. PICK j \in f[s.pi] : j > s.ti
          BY <3>1, BackIsBehind
        <4>2. PICK k \in f[s.pi + 1] : j <= k
          BY <2>4, <4>1
        <4>3. j \in 1..(m + 1) /\ k \in 1..(m + 1)
          BY <2>4, <2>5, <4>1, <4>2
        <4>4. s.ti <= k
          BY <1>1, <4>1, <4>2, <4>3
        <4>5. QED
          BY <1>1, <2>4, <4>2, <4>4
      <3>2. QED
        BY <3>1
    <2> HIDE DEF r, back, goes
    <2>8. goes <=> r.ti \in f[r.pi] \/ \E k \in f[r.sp + 1] : k > r.st
      BY <1>1, <2>2, <2>6, <2>7
    <2>9. r = [pi |-> r.pi, ti |-> r.ti, sp |-> r.sp, st |-> r.st]
      BY DEF r
    <2>10. /\ s.pi # 0 /\ s.ti # 0 /\ s.pi < s.pi + 1 /\ (s.pi + 1) - s.pi - 1 = s.ti - s.ti
           /\ \A i \in (s.pi + 1)..((s.pi + 1) - 1) : FALSE
           /\ s.pi + 1 \in 1..(n + 1) /\ s.pi \in 0..n /\ s.ti \in 0..(m + 1)
      <3>1. \A a \in 1..n : /\ a # 0 /\ a < a + 1 /\ (a + 1) - a - 1 = 0
                            /\ \A i \in (a + 1)..((a + 1) - 1) : FALSE
                            /\ a + 1 \in 1..(n + 1) /\ a \in 0..n
        OBVIOUS
      <3>2. \A b \in 1..m : b # 0 /\ b - b = 0 /\ b \in 0..(m + 1)
        OBVIOUS
      <3>3. QED
        BY <2>3, <3>1, <3>2
    <2>11. QED
      BY <1>1, <2>1, <2>2, <2>3, <2>8, <2>9, <2>10 DEF WalkFits, goes
  <1>5. ASSUME s.ti <= m, ~matches, ~starts
        PROVE  s.ti \notin f[s.pi]
    BY <1>1, <1>5, MismatchFails
  <1>6. CASE s.ti <= m /\ ~matches /\ ~starts /\ s.sp # 0
    <2> DEFINE r == [pi |-> s.sp + 1, ti |-> s.st + 1, sp |-> s.sp, st |-> s.st + 1]
    <2>1. GlobStep(p, t, s) = r
      BY <1>1, <1>6 DEF GlobStep
    <2>2. r.pi = s.sp + 1 /\ r.ti = s.st + 1 /\ r.sp = s.sp /\ r.st = s.st + 1
      OBVIOUS
    <2>3. s.st <= s.ti
      <3>1. s.pi \in Int /\ s.sp \in Int /\ s.ti \in Int /\ s.st \in Int
        BY <1>1
      <3>2. s.sp < s.pi /\ s.pi - s.sp - 1 = s.ti - s.st
        BY <1>1, <1>6
      <3>3. QED
        BY <3>1, <3>2
    <2>4. /\ s.sp + 1 \in 1..(n + 1) /\ s.st + 1 \in 1..(m + 1) /\ s.st + 1 \in 0..(m + 1)
          /\ s.sp < s.sp + 1 /\ s.st + 1 # 0
          /\ (s.sp + 1) - s.sp - 1 = (s.st + 1) - (s.st + 1)
          /\ \A i \in (s.sp + 1)..((s.sp + 1) - 1) : FALSE
      <3>1. s.sp \in 1..n /\ s.st \in 0..m
        <4>1. s.st \in Int /\ s.ti \in Int /\ s.st >= 0
          BY <1>1
        <4>2. s.st <= m
          BY <1>6, <2>3, <4>1
        <4>3. s.sp \in 1..n
          BY <1>1, <1>6
        <4>4. QED
          BY <4>1, <4>2, <4>3
      <3>2. \A a \in 1..n : /\ a + 1 \in 1..(n + 1) /\ a < a + 1
                            /\ \A i \in (a + 1)..((a + 1) - 1) : FALSE
        OBVIOUS
      <3>3. \A b \in 0..m : b + 1 \in 1..(m + 1) /\ b + 1 \in 0..(m + 1) /\ b + 1 # 0
        OBVIOUS
      <3>4. (s.sp + 1) - s.sp - 1 = (s.st + 1) - (s.st + 1)
        BY <3>1
      <3>5. QED
        BY <3>1, <3>2, <3>3, <3>4
    <2>5. (\E k \in f[s.sp + 1] : k > s.st)
             <=> s.st + 1 \in f[s.sp + 1] \/ \E k \in f[s.sp + 1] : k > s.st + 1
      <3>1. f[s.sp + 1] \subseteq 1..(m + 1)
        BY <2>4, PlaceByPlace
      <3>2. ASSUME NEW k \in f[s.sp + 1]
            PROVE  k > s.st <=> (k = s.st + 1 \/ k > s.st + 1)
        <4>1. k \in Int /\ s.st \in Int
          BY <1>1, <3>1
        <4>2. QED
          BY <4>1
      <3>3. QED
        BY <3>2
    <2>6. goes <=> \E k \in f[s.sp + 1] : k > s.st
      BY <1>1, <1>5, <1>6
    <2> HIDE DEF r, goes, back
    <2>7. goes <=> r.ti \in f[r.pi] \/ \E k \in f[r.sp + 1] : k > r.st
      BY <2>2, <2>5, <2>6
    <2>8. r = [pi |-> r.pi, ti |-> r.ti, sp |-> r.sp, st |-> r.st]
      BY DEF r
    <2>9. QED
      BY <1>1, <1>6, <2>1, <2>2, <2>4, <2>7, <2>8 DEF WalkFits, goes
  <1>7. CASE s.ti <= m /\ ~matches /\ ~starts /\ s.sp = 0
    BY <1>1, <1>7 DEF GlobStep
  <1>8. s.ti > m \/ s.ti <= m
    BY <1>1
  <1> HIDE DEF matches, starts
  <1>9. QED
    BY <1>2, <1>3, <1>4, <1>6, <1>7, <1>8

-----------------------------------------------------------------------------
(* The walk over a name. *)

\* f[n] is where the walk is after n turns.
GlobStart == [pi |-> 1, ti |-> 1, sp |-> 0, st |-> 0]

Turns(f, p, t, n) ==
    f = [k \in 0..n |-> IF k = 0 THEN GlobStart ELSE GlobStep(p, t, f[k - 1])]

\* There is one, for every number of turns.
LEMMA TurnsExist ==
    ASSUME NEW p, NEW t, NEW n \in Nat
    PROVE  \E f : Turns(f, p, t, n)
  <1> DEFINE Bad == {m \in Nat : ~\E f : Turns(f, p, t, m)}
  <1>1. SUFFICES ASSUME Bad # {} PROVE FALSE
    OBVIOUS
  <1>2. PICK m \in Bad : \A k \in Bad : m <= k
    <2>1. Bad \in SUBSET Nat
      OBVIOUS
    <2> HIDE DEF Bad
    <2>2. QED
      BY <1>1, <2>1, LeastNatural
  <1>3. m # 0
    <2>1. Turns([k \in 0..0 |-> GlobStart], p, t, 0)
      BY DEF Turns
    <2>2. QED
      BY <2>1
  <1>4. PICK f : Turns(f, p, t, m - 1)
    BY <1>2, <1>3
  <1> DEFINE g == [k \in 0..m |-> IF k = m THEN GlobStep(p, t, f[m - 1]) ELSE f[k]]
  <1>5. \A k \in 0..(m - 1) : f[k] = IF k = 0 THEN GlobStart ELSE GlobStep(p, t, f[k - 1])
    BY <1>4 DEF Turns
  <1>6. ASSUME NEW k \in 0..m
        PROVE  g[k] = IF k = 0 THEN GlobStart ELSE GlobStep(p, t, g[k - 1])
    <2>1. CASE k = m
      <3>1. g[m - 1] = f[m - 1] /\ g[k] = GlobStep(p, t, f[m - 1])
        BY <1>2, <1>3, <2>1
      <3>2. QED
        BY <3>1, <1>3, <2>1
    <2>2. CASE k # m
      <3>1. k \in 0..(m - 1) /\ g[k] = f[k] /\ (k # 0 => g[k - 1] = f[k - 1])
        BY <1>2, <2>2
      <3>2. QED
        BY <3>1, <1>5
    <2>3. QED
      BY <2>1, <2>2
  <1>7. g = [k \in 0..m |-> IF k = 0 THEN GlobStart ELSE GlobStep(p, t, g[k - 1])]
    <2>1. DOMAIN g = 0..m /\ g = [k \in 0..m |-> g[k]]
      OBVIOUS
    <2> HIDE DEF g
    <2>2. QED
      BY <1>6, <2>1
  <1> HIDE DEF g
  <1>8. Turns(g, p, t, m)
    BY <1>7 DEF Turns
  <1>9. QED
    BY <1>2, <1>8

\* GlobWalk looks at where it is in the end.
LEMMA WalkEnds ==
    ASSUME NEW p, NEW t, GlobTurns(p, t) \in Nat
    PROVE  \E f : /\ Turns(f, p, t, GlobTurns(p, t))
                  /\ GlobWalk(p, t) <=>
                        LET end == f[GlobTurns(p, t)]
                        IN end.ti > Len(t) /\ \A k \in end.pi..Len(p) : p[k] = "*"
  <1> DEFINE n == GlobTurns(p, t)
             F == CHOOSE f : Turns(f, p, t, n)
  <1>1. Turns(F, p, t, n)
    BY TurnsExist
  <1>2. GlobWalk(p, t) <=> F[n].ti > Len(t) /\ \A k \in F[n].pi..Len(p) : p[k] = "*"
    BY DEF GlobWalk, Turns, GlobStart
  <1>3. QED
    BY <1>1, <1>2

\* How far the walk is: each text position of the last `*` is worth more than
\* the whole pattern.
Progress(p, s) == s.st * (Len(p) + 2) + s.pi

\* What goes back does so in the text too.
LEMMA BackInText ==
    ASSUME NEW p, NEW t, NEW f, NEW s, Len(t) \in Nat, Len(p) \in Nat, WalkFits(p, t, f, s)
    PROVE  s.st \in Nat /\ s.ti \in Nat /\ s.pi \in Nat /\ s.sp \in Nat /\ s.st <= s.ti
  <1>1. s.st \in Nat /\ s.ti \in Nat /\ s.pi \in Nat /\ s.sp \in Nat
    BY DEF WalkFits
  <1>2. CASE s.sp = 0
    BY <1>1, <1>2 DEF WalkFits
  <1>3. CASE s.sp # 0
    <2>1. s.sp < s.pi /\ s.pi - s.sp - 1 = s.ti - s.st
      BY <1>3 DEF WalkFits
    <2>2. QED
      BY <1>1, <2>1
  <1>4. QED
    BY <1>1, <1>2, <1>3

\* The walk has ended: at the end of the text, or at a mismatch with no `*`
\* before it.
Ended(p, t, f, s) ==
    s.ti > Len(t) \/ (s.sp = 0 /\ s.ti \notin f[s.pi])

\* Every turn moves on, or the walk has ended and stays where it is.
LEMMA WalkMovesOn ==
    ASSUME NEW p, NEW t, Len(p) \in Nat, Len(t) \in Nat, NEW f, FromPlaces(f, p, t, 1),
           NEW s, WalkFits(p, t, f, s)
    PROVE  \/ GlobStep(p, t, s) = s /\ Ended(p, t, f, s)
           \/ Progress(p, GlobStep(p, t, s)) > Progress(p, s)
  <1> DEFINE n == Len(p)
             m == Len(t)
             matches == s.pi <= n /\ p[s.pi] \in {"?", t[s.ti]}
             starts == s.pi <= n /\ p[s.pi] = "*"
             w == n + 2
             r == GlobStep(p, t, s)
  <1>1. /\ s.st \in Nat /\ s.ti \in Nat /\ s.pi \in Nat /\ s.sp \in Nat /\ s.st <= s.ti
        /\ s.pi \in 1..(n + 1) /\ s.ti \in 1..(m + 1)
    BY BackInText DEF WalkFits
  <1>2. w \in Nat /\ s.st * w \in Nat /\ s.ti * w \in Nat /\ (s.st + 1) * w = s.st * w + w
    BY <1>1
  <1>3. CASE s.ti > m
    BY <1>3 DEF GlobStep, Ended
  <1>4. CASE s.ti <= m /\ matches
    <2>1. r = [pi |-> s.pi + 1, ti |-> s.ti + 1, sp |-> s.sp, st |-> s.st]
      BY <1>1, <1>4 DEF GlobStep
    <2> HIDE DEF r
    <2>2. r.st = s.st /\ r.pi = s.pi + 1
      BY <2>1
    <2>3. QED
      BY <1>1, <1>2, <2>2 DEF Progress, r
  <1>5. CASE s.ti <= m /\ ~matches /\ starts
    <2>1. r = [pi |-> s.pi + 1, ti |-> s.ti, sp |-> s.pi, st |-> s.ti]
      BY <1>1, <1>5 DEF GlobStep
    <2> HIDE DEF r
    <2>2. r.st = s.ti /\ r.pi = s.pi + 1
      BY <2>1
    <2>3. s.ti * w >= s.st * w
      <3>1. \A a, b, c \in Nat : a <= b => a * c <= b * c
        OBVIOUS
      <3>2. QED
        BY <1>1, <1>2, <3>1
    <2>4. s.ti * w + (s.pi + 1) > s.st * w + s.pi
      BY <1>1, <1>2, <2>3
    <2>5. QED
      BY <2>2, <2>4 DEF Progress, r
  <1>6. CASE s.ti <= m /\ ~matches /\ ~starts /\ s.sp # 0
    <2>1. r = [pi |-> s.sp + 1, ti |-> s.st + 1, sp |-> s.sp, st |-> s.st + 1]
      BY <1>1, <1>6 DEF GlobStep
    <2> HIDE DEF r
    <2>2. r.st = s.st + 1 /\ r.pi = s.sp + 1
      BY <2>1
    <2>3. s.st * w + w + (s.sp + 1) > s.st * w + s.pi
      <3>1. w + (s.sp + 1) > s.pi
        BY <1>1
      <3> DEFINE x == s.st * w
                 b == s.sp + 1
                 c == s.pi
      <3>2. x \in Int /\ w \in Int /\ b \in Int /\ c \in Int /\ w + b > c
        BY <1>1, <1>2, <3>1
      <3> HIDE DEF w, x, b, c
      <3>3. x + w + b > x + c
        BY <3>2
      <3>4. QED
        BY <3>3 DEF w, x, b, c
    <2>4. QED
      BY <1>2, <2>2, <2>3 DEF Progress, r
  <1>7. CASE s.ti <= m /\ ~matches /\ ~starts /\ s.sp = 0
    <2>1. GlobStep(p, t, s) = s
      BY <1>1, <1>7 DEF GlobStep
    <2>2. s.ti \notin f[s.pi]
      BY <1>1, <1>7, MismatchFails
    <2>3. QED
      BY <1>7, <2>1, <2>2 DEF Ended
  <1>8. s.ti > m \/ s.ti <= m
    BY <1>1
  <1> HIDE DEF matches, starts
  <1>9. QED
    BY <1>3, <1>4, <1>5, <1>6, <1>7, <1>8

\* After as many turns as GlobTurns the walk has ended.
LEMMA WalkHasEnded ==
    ASSUME NEW p, NEW t, Len(p) \in Nat, Len(t) \in Nat, \A j \in 1..Len(t) : t[j] # "*",
           NEW f, FromPlaces(f, p, t, 1), NEW g, Turns(g, p, t, GlobTurns(p, t))
    PROVE  LET end == g[GlobTurns(p, t)]
           IN WalkFits(p, t, f, end) /\ Ended(p, t, f, end)
  <1> DEFINE N == GlobTurns(p, t)
             n == Len(p)
             m == Len(t)
             far(k) == /\ WalkFits(p, t, f, g[k])
                       /\ \/ GlobStep(p, t, g[k]) = g[k] /\ Ended(p, t, f, g[k])
                          \/ Progress(p, g[k]) > k
             Bad == {k \in 0..N : ~far(k)}
  <1>1. N \in Nat /\ N = (n + 2) * (m + 2)
    BY DEF GlobTurns
  <1>2. \A k \in 0..N : g[k] = IF k = 0 THEN GlobStart ELSE GlobStep(p, t, g[k - 1])
    BY DEF Turns
  <1>3. far(0)
    <2>1. g[0] = GlobStart
      BY <1>1, <1>2
    <2>2. WalkFits(p, t, f, GlobStart)
      BY DEF WalkFits, GlobStart
    <2>3. Progress(p, GlobStart) = 1
      BY DEF Progress, GlobStart
    <2>4. QED
      BY <2>1, <2>2, <2>3
  <1>4. ASSUME NEW k \in 1..N, far(k - 1)
        PROVE  far(k)
    <2> DEFINE s == g[k - 1]
    <2>1. g[k] = GlobStep(p, t, s) /\ WalkFits(p, t, f, s) /\ k - 1 \in Nat
      BY <1>1, <1>2, <1>4
    <2>2. WalkFits(p, t, f, g[k])
      BY <2>1, TurnFits
    <2>3. CASE GlobStep(p, t, s) = s /\ Ended(p, t, f, s)
      BY <2>1, <2>2, <2>3
    <2>4. CASE ~(GlobStep(p, t, s) = s /\ Ended(p, t, f, s))
      <3>1. Progress(p, s) > k - 1 /\ Progress(p, g[k]) > Progress(p, s)
        BY <1>4, <2>1, <2>4, WalkMovesOn
      <3>2. Progress(p, s) \in Int /\ Progress(p, g[k]) \in Int
        BY <2>1, <2>2, BackInText DEF Progress
      <3>3. Progress(p, g[k]) > k
        BY <3>1, <3>2
      <3>4. QED
        BY <2>2, <3>3
    <2>5. QED
      BY <2>3, <2>4
  <1>5. ASSUME Bad # {}
        PROVE  FALSE
    <2>1. PICK k \in Bad : \A j \in Bad : k <= j
      <3>1. Bad \in SUBSET Nat
        OBVIOUS
      <3> HIDE DEF Bad
      <3>2. QED
        BY <1>5, <3>1, LeastNatural
    <2>2. k \in 0..N /\ ~far(k)
      BY <2>1
    <2> HIDE DEF far
    <2>3. k \in 1..N /\ k - 1 \in 0..N /\ ~(k <= k - 1)
      BY <1>1, <1>3, <2>2
    <2>4. far(k - 1)
      BY <2>1, <2>3
    <2>5. QED
      BY <1>4, <2>2, <2>3, <2>4
  <1>6. far(N)
    <2>1. N \in 0..N
      BY <1>1
    <2> HIDE DEF far, N
    <2>2. QED
      BY <1>5, <2>1
  <1> DEFINE e == g[N]
  <1>7. WalkFits(p, t, f, e)
    BY <1>6
  <1>8. ~(Progress(p, e) > N)
    <2>1. e.st \in 0..(m + 1) /\ e.pi \in 1..(n + 1)
      BY <1>7 DEF WalkFits
    <2>2. e.st * (n + 2) <= (m + 1) * (n + 2)
      <3>1. \A a, b, c \in Nat : a <= b => a * c <= b * c
        OBVIOUS
      <3>2. e.st \in Nat /\ m + 1 \in Nat /\ n + 2 \in Nat /\ e.st <= m + 1
        BY <2>1
      <3>3. QED
        BY <3>1, <3>2
    <2>3. /\ (m + 1) * (n + 2) + (n + 2) = (n + 2) * (m + 2)
          /\ (m + 1) * (n + 2) \in Int /\ e.st * (n + 2) \in Int
      BY <2>1
    <2>4. e.st * (n + 2) + e.pi < N
      BY <1>1, <2>1, <2>2, <2>3
    <2>5. e.st * (n + 2) + e.pi \in Int
      BY <2>1, <2>3
    <2>6. QED
      BY <1>1, <2>4, <2>5 DEF Progress
  <1> HIDE DEF N
  <1>9. QED
    BY <1>6, <1>8 DEF N

\* The walk accepts what the pattern generates.
LEMMA GlobIsRight ==
    ASSUME NEW p, NEW t, Len(p) \in Nat, Len(t) \in Nat, \A j \in 1..Len(t) : t[j] # "*"
    PROVE  GlobWalk(p, t) <=> Generates(p, t)
  <1> DEFINE N == GlobTurns(p, t)
             n == Len(p)
             m == Len(t)
  <1>1. N \in Nat
    BY DEF GlobTurns
  <1>2. PICK f : FromPlaces(f, p, t, 1) /\ (Generates(p, t) <=> 1 \in f[1])
    BY GeneratesUnfolds
  <1> HIDE DEF N
  <1>3. PICK g : /\ Turns(g, p, t, N)
                 /\ GlobWalk(p, t) <=> g[N].ti > m /\ \A k \in g[N].pi..n : p[k] = "*"
    BY <1>1, WalkEnds DEF N
  <1> DEFINE e == g[N]
  <1>4. WalkFits(p, t, f, e) /\ Ended(p, t, f, e)
    BY <1>2, <1>3, WalkHasEnded DEF N
  <1> HIDE DEF e
  <1>5. /\ e.pi \in 1..(n + 1) /\ e.ti \in 1..(m + 1)
        /\ 1 \in f[1] <=> e.ti \in f[e.pi] \/ (e.sp # 0 /\ \E k \in f[e.sp + 1] : k > e.st)
    BY <1>4 DEF WalkFits
  <1>6. CASE e.ti > m
    <2>1. e.ti = m + 1
      BY <1>5, <1>6
    <2>2. f[e.pi] \subseteq 1..(m + 1)
      BY <1>2, <1>5, PlaceByPlace
    <2>3. ASSUME e.sp # 0, NEW k \in f[e.sp + 1], k > e.st
          PROVE  FALSE
      <3>1. PICK j \in f[e.pi] : j > e.ti
        BY <1>2, <1>4, <2>3, BackIsBehind
      <3>2. QED
        BY <2>1, <2>2, <3>1
    <2>4. Generates(p, t) <=> m + 1 \in f[e.pi]
      BY <1>2, <1>5, <2>1, <2>3
    <2>5. m + 1 \in f[e.pi] <=> \A i \in e.pi..n : p[i] = "*"
      BY <1>2, <1>5, NothingLeft
    <2>6. QED
      BY <1>3, <1>6, <2>4, <2>5 DEF e
  <1>7. CASE ~(e.ti > m)
    <2>1. e.sp = 0 /\ e.ti \notin f[e.pi]
      BY <1>4, <1>7 DEF Ended
    <2>2. QED
      BY <1>2, <1>3, <1>5, <1>7, <2>1 DEF e
  <1>8. QED
    BY <1>6, <1>7

\* A pattern accepts the names it generates (glob).
LEMMA PatternsMeanWhatTheySay ==
    ASSUME MayAsk(request), ReadsFit
    PROVE  GlobAcceptsWhatItGenerates
  <1> DEFINE p == request.pattern
             t == request.text
  <1>1. SUFFICES ASSUME Answers("name") PROVE response.matches <=> Generates(p, t)
    BY DEF GlobAcceptsWhatItGenerates
  <1>2. /\ p \in Seq(Range(p)) /\ t \in Seq(Range(t)) /\ "*" \notin Range(t)
        /\ response.matches = GlobWalk(p, t)
    BY <1>1 DEF MayAsk, ReadsFit, Answers
  <1> HIDE DEF p, t
  <1>3. Len(p) \in Nat /\ Len(t) \in Nat /\ DOMAIN t = 1..Len(t)
    BY <1>2
  <1>4. \A j \in 1..Len(t) : t[j] # "*"
    BY <1>2, <1>3 DEF Range
  <1>5. GlobWalk(p, t) <=> Generates(p, t)
    BY <1>3, <1>4, GlobIsRight
  <1>6. QED
    BY <1>2, <1>5

\* What `exclude_fields` begins is gone, and what `fields` begins and it does not
\* touch is as it was (VarSelect::host, keep_path, remove_path).
LEMMA PathsMean ==
    ASSUME MayAsk(request), ReadsFit
    PROVE  PathsMeanTheSame
  <1> DEFINE q == request.q
             held == request.vars
             gone(p) == \E i \in DOMAIN q.exclude : IsPrefix(q.exclude[i], p)
             cut(p) == \E i \in DOMAIN q.exclude : IsPrefix(p, q.exclude[i])
             named(p) == \E i \in DOMAIN q.fields : IsPrefix(q.fields[i], p)
             both(p) == \E k \in DOMAIN held : Len(k) > 1 /\ (IsPrefix(k, p) \/ IsPrefix(p, k))
             left == ShapeHost(q, held)
  <1>1. SUFFICES ASSUME Answers("vars"), NEW p \in request.paths, ~both(p)
                 PROVE  /\ gone(p) => Lookup(response.vars, p) = None
                        /\ (q.fields = None \/ named(p)) /\ ~gone(p) /\ ~cut(p) =>
                              Lookup(response.vars, p) = Lookup(held, p)
    BY DEF PathsMeanTheSame
  <1>2. /\ HoldsValues(held) /\ IsName(p) /\ IsNameList(q.exclude)
        /\ q.fields # None => IsNameList(q.fields)
    BY <1>1 DEF MayAsk, Answers, HoldsValues, ListsNames
  <1>3. response.vars = left
    BY <1>1 DEF ReadsFit
  <1>4. Clear(held, p)
    BY <1>1 DEF Clear
  <1> DEFINE kept == IF q.fields = None THEN held ELSE KeepPaths(held, q.fields)
  <1>5. left = DropPaths(kept, q.exclude)
    BY DEF ShapeHost
  <1> HIDE DEF q, held, left
  <1>6. /\ HoldsValues(kept) /\ Clear(kept, p)
        /\ q.fields = None \/ named(p) => Lookup(kept, p) = Lookup(held, p)
    <2>1. CASE q.fields = None
      BY <1>2, <1>4, <2>1
    <2>2. CASE q.fields # None
      <3>1. kept = KeepPaths(held, q.fields)
        BY <2>2
      <3>2. /\ KeptOf(kept, held)
            /\ named(p) => Lookup(kept, p) = Lookup(held, p)
        BY <1>2, <1>4, <2>2, <3>1, KeepsWhole
      <3>3. HoldsValues(kept) /\ Clear(kept, p)
        BY <1>2, <1>4, <3>2 DEF KeptOf, HoldsValues, Clear
      <3>4. QED
        BY <2>2, <3>2, <3>3
    <2>3. QED
      BY <2>1, <2>2
  <1> HIDE DEF kept
  <1>7. /\ gone(p) => Lookup(left, p) = None
        /\ (\A i \in DOMAIN q.exclude :
               ~IsPrefix(q.exclude[i], p) /\ ~IsPrefix(p, q.exclude[i]))
              => Lookup(left, p) = Lookup(kept, p)
    BY <1>2, <1>5, <1>6, DropsAway
  <1>8. QED
    BY <1>3, <1>6, <1>7

\* A view serves each host from the first member that claims it, with that
\* member's variables; a view of one source reads like the source; statuses and
\* groups speak of what is served (View::owner_of, merged_groups, host_status).
THEOREM ViewsAnswerForTheirMembers == RulesSpec => []ViewsServeTheirMembers
  <1>1. AnswersFit => ViewsServeTheirMembers
    BY ViewsServe DEF AnswersFit
  <1>2. QED
    BY <1>1, RulesInvariant, PTL

\* Pages leave out no selected host and give none twice, the groups kept for a
\* page are those with a host of it and those above them, `fields` and
\* `exclude_fields` do to each name what they say, and a pattern accepts exactly
\* the names it generates (page, group_trim::matching, VarSelect::host, glob).
THEOREM SelectionsAreWhatTheySay == RulesSpec => []SelectionsMeanWhatTheySay
  <1>1. AnswersFit => SelectionsMeanWhatTheySay
    BY PagesCover, MatchingGroups, PathsMean, PatternsMeanWhatTheySay
       DEF AnswersFit, SelectionsMeanWhatTheySay
  <1>2. QED
    BY <1>1, RulesInvariant, PTL
=============================================================================
