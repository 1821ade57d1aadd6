-------------------------- MODULE SourceSyncProofs --------------------------
(***************************************************************************)
(* Proofs about SourceSync for any set of callers and hosts, either sync   *)
(* mode and any bound on the calls.                                        *)
(***************************************************************************)
EXTENDS SourceSync, SequenceTheorems, TLAPS

-----------------------------------------------------------------------------
(* The FIFO queue of the mutex.                                            *)

\* Joining the queue puts the newcomer in it, last, and nobody else.
LEMMA QueueAppend ==
    ASSUME NEW S, NEW q \in Seq(S), NEW c \in S,
           NoRepeat(q), ~InQueue(q, c)
    PROVE  /\ Append(q, c) \in Seq(S)
           /\ NoRepeat(Append(q, c))
           /\ \A d \in S : InQueue(Append(q, c), d) <=> InQueue(q, d) \/ d = c
  <1> DEFINE r == Append(q, c)
  <1>1. /\ r \in Seq(S)
        /\ Len(r) = Len(q) + 1
        /\ \A i \in 1 .. Len(q) : r[i] = q[i]
        /\ r[Len(q) + 1] = c
    OBVIOUS
  <1>2. /\ Len(q) \in Nat
        /\ DOMAIN q = 1 .. Len(q)
        /\ DOMAIN r = 1 .. Len(q) + 1
    BY <1>1
  <1> HIDE DEF r
  <1>3. NoRepeat(r)
    BY <1>1, <1>2 DEF NoRepeat, InQueue
  <1>4. \A d \in S : InQueue(r, d) <=> InQueue(q, d) \/ d = c
    BY <1>1, <1>2 DEF InQueue
  <1>5. QED
    BY <1>1, <1>3, <1>4 DEF r

\* Serving the head of the queue takes it out, and nobody else.
LEMMA QueueTail ==
    ASSUME NEW S, NEW q \in Seq(S), q # <<>>, NoRepeat(q)
    PROVE  /\ Tail(q) \in Seq(S)
           /\ NoRepeat(Tail(q))
           /\ \A d \in S : InQueue(Tail(q), d) <=> InQueue(q, d) /\ d # Head(q)
  <1> DEFINE r == Tail(q)
  <1>1. /\ Len(q) \in Nat \ {0}
        /\ DOMAIN q = 1 .. Len(q)
        /\ r \in Seq(S)
        /\ Len(r) = Len(q) - 1
        /\ DOMAIN r = 1 .. Len(q) - 1
        /\ \A i \in 1 .. Len(q) - 1 : r[i] = q[i + 1]
        /\ Head(q) = q[1]
    BY EmptySeq
  <1> HIDE DEF r
  <1>2. NoRepeat(r)
    <2> SUFFICES ASSUME NEW i \in 1 .. Len(q) - 1, NEW j \in 1 .. Len(q) - 1, r[i] = r[j]
                 PROVE  i = j
      BY <1>1 DEF NoRepeat
    <2>1. i + 1 \in DOMAIN q /\ j + 1 \in DOMAIN q /\ q[i + 1] = q[j + 1]
      BY <1>1
    <2>2. i + 1 = j + 1
      BY <2>1 DEF NoRepeat
    <2>3. QED
      BY <2>2
  <1>3. \A d \in S : InQueue(r, d) => InQueue(q, d) /\ d # q[1]
    <2> SUFFICES ASSUME NEW d \in S, NEW i \in DOMAIN r, r[i] = d
                 PROVE  InQueue(q, d) /\ d # q[1]
      BY DEF InQueue
    <2>1. i + 1 \in DOMAIN q /\ q[i + 1] = d /\ i + 1 # 1 /\ 1 \in DOMAIN q
      BY <1>1
    <2>2. QED
      BY <2>1 DEF InQueue, NoRepeat
  <1>4. \A d \in S : InQueue(q, d) /\ d # q[1] => InQueue(r, d)
    <2> SUFFICES ASSUME NEW d \in S, NEW i \in DOMAIN q, q[i] = d, d # q[1]
                 PROVE  InQueue(r, d)
      BY DEF InQueue
    <2>1. i - 1 \in DOMAIN r /\ r[i - 1] = d
      BY <1>1
    <2>2. QED
      BY <2>1 DEF InQueue
  <1>5. QED
    BY <1>1, <1>2, <1>3, <1>4 DEF r

\* A caller dropped from anywhere in the queue leaves it; the others stay,
\* in their order.
LEMMA QueueRemove ==
    ASSUME queue \in Seq(Callers), NoRepeat(queue),
           NEW c \in Callers, InQueue(queue, c)
    PROVE  /\ RemoveFromQueue(c) \in Seq(Callers)
           /\ NoRepeat(RemoveFromQueue(c))
           /\ \A d \in Callers :
                 InQueue(RemoveFromQueue(c), d) <=> InQueue(queue, d) /\ d # c
  <1> DEFINE at == CHOOSE i \in DOMAIN queue : queue[i] = c
             n == Len(queue)
             r == [i \in 1 .. n - 1 |-> IF i < at THEN queue[i] ELSE queue[i + 1]]
  <1>1. at \in DOMAIN queue /\ queue[at] = c
    BY DEF InQueue
  <1>2. n \in Nat /\ DOMAIN queue = 1 .. n /\ \A i \in 1 .. n : queue[i] \in Callers
    BY LenProperties, ElementOfSeq
  <1> HIDE DEF at, n
  <1>3. n - 1 \in Nat /\ r \in [1 .. n - 1 -> Callers]
    BY <1>1, <1>2
  <1>4. r \in Seq(Callers)
    BY <1>3, SeqDef
  <1>5. /\ DOMAIN r = 1 .. n - 1
        /\ \A i \in 1 .. n - 1 : r[i] = IF i < at THEN queue[i] ELSE queue[i + 1]
    OBVIOUS
  <1> HIDE DEF r
  <1>6. NoRepeat(r)
    <2> SUFFICES ASSUME NEW i \in 1 .. n - 1, NEW j \in 1 .. n - 1, r[i] = r[j]
                 PROVE  i = j
      BY <1>5 DEF NoRepeat
    <2> DEFINE up(k) == IF k < at THEN k ELSE k + 1
    <2>1. up(i) \in 1 .. n /\ up(j) \in 1 .. n /\ r[i] = queue[up(i)] /\ r[j] = queue[up(j)]
      BY <1>1, <1>2, <1>5
    <2>2. up(i) = up(j)
      BY <2>1, <1>2 DEF NoRepeat
    <2>3. QED
      BY <2>2, <1>1, <1>2
  <1>7. ASSUME NEW d \in Callers
        PROVE  InQueue(r, d) => InQueue(queue, d) /\ d # c
    <2> SUFFICES ASSUME NEW i \in 1 .. n - 1, r[i] = d
                 PROVE  InQueue(queue, d) /\ d # c
      BY <1>5 DEF InQueue
    <2>1. PICK k \in 1 .. n : k # at /\ queue[k] = d
      <3> DEFINE k == IF i < at THEN i ELSE i + 1
      <3>1. k \in 1 .. n /\ k # at
        BY <1>1, <1>2
      <3>2. queue[k] = d
        BY <1>5
      <3> HIDE DEF k
      <3>3. QED
        BY <3>1, <3>2
    <2>2. QED
      BY <2>1, <1>1, <1>2 DEF InQueue, NoRepeat
  <1>8. ASSUME NEW d \in Callers
        PROVE  InQueue(queue, d) /\ d # c => InQueue(r, d)
    <2> SUFFICES ASSUME NEW k \in 1 .. n, queue[k] = d, d # c
                 PROVE  InQueue(r, d)
      BY <1>2 DEF InQueue
    <2>1. CASE k < at
      <3>1. k \in 1 .. n - 1 /\ r[k] = d
        BY <2>1, <1>1, <1>2, <1>5
      <3>2. QED
        BY <3>1, <1>5 DEF InQueue
    <2>2. CASE k > at
      <3>1. k - 1 \in 1 .. n - 1 /\ ~(k - 1 < at) /\ (k - 1) + 1 = k
        BY <2>2, <1>1, <1>2
      <3>2. r[k - 1] = d
        BY <3>1, <1>5
      <3>3. QED
        BY <3>1, <3>2, <1>5 DEF InQueue
    <2>3. k # at
      BY <1>1
    <2>4. QED
      BY <2>1, <2>2, <2>3, <1>1, <1>2
  <1>9. RemoveFromQueue(c) = r
    BY DEF RemoveFromQueue, r, at, n
  <1>10. QED
    BY <1>4, <1>6, <1>7, <1>8, <1>9

-----------------------------------------------------------------------------
(* The inductive invariant.                                                *)

\* Nothing in the entry, and nothing a caller remembers, is newer than the
\* newest run; an absent entry holds nothing.
Ages ==
    /\ \A h \in Hosts : entry.host[h] <= started
    /\ entry.full <= started
    /\ claim <= started
    /\ \A c \in Callers : asked[c] <= started /\ seen[c] <= fullSyncs
    /\ \A c \in Callers : pc[c] \in InSync => gid[c] # 0
    /\ ~entry.present => entry.full = 0

\* The only complete entry without a full gather behind it is the one a
\* scoped sync is about to mark partial.
CompleteOrMarking ==
    (entry.present /\ entry.complete /\ entry.full = 0)
        => \E c \in Callers : pc[c] = "marking"

\* A full sync that has written the cache is still the entry's last full
\* gather when it returns, because it holds the mutex until then.
LandedFull ==
    \A c \in Callers :
        (pc[c] \in {"marking", "recording", "enriching"} /\ req[c].scope = "full")
            => entry.present /\ entry.full = gid[c]

\* A waiting caller whose counter has moved finds a full gather in the
\* entry no older than the newest run at the time of its request.
MovedCounter ==
    \A c \in Callers :
        (pc[c] \in {"asking", "queued"} /\ seen[c] # fullSyncs)
            => entry.present /\ entry.full >= asked[c]

\* A plain full sync that returned while a caller waited moved the counter
\* past what the caller saw.
OvertakenMoves ==
    \A c \in Callers :
        (pc[c] \in {"asking", "queued"} /\ overtaken[c] # {}) => seen[c] < fullSyncs

IInv ==
    /\ TypeOK
    /\ OneSyncAtATime
    /\ Ages
    /\ CompleteOrMarking
    /\ LandedIsRecorded
    /\ LandedFull
    /\ MovedCounter
    /\ OvertakenMoves
    /\ BurstGathersOnce

-----------------------------------------------------------------------------

\* What one cache write does to the entry: it keeps its type, gives hosts
\* the run's data or leaves what they had, never makes an entry disappear,
\* and dates the last full gather exactly when it is one.
LEMMA FirstWriteFacts ==
    ASSUME entry \in Entries, ~entry.present => entry.full = 0,
           SyncMode \in {"replace", "merge"},
           NEW r \in Requests, NEW g \in Nat,
           NEW got \in SUBSET Hosts, NEW rest \in SUBSET Hosts,
           NEW members \in SUBSET Hosts
    PROVE  LET e == FirstWrite(r, got, rest, members, g)
           IN  /\ e \in Entries
               /\ \A h \in Hosts : e.host[h] \in {0, g, entry.host[h]}
               /\ e = entry \/ e.present
               /\ r.scope = "full" => e.present /\ e.full = g
               /\ r.scope # "full" => e.full = entry.full
               /\ r.scope # "full" /\ ~OwesMark(r, got)
                    => e.complete = entry.complete /\ e.present = entry.present
  <1> DEFINE e == FirstWrite(r, got, rest, members, g)
             updates == IF r.scope = "hosts" THEN r.targets \cap got
                                             ELSE members \cap got
  <1>1. r.scope \in {"full", "hosts", "group"} /\ r.targets \in SUBSET Hosts
    BY DEF Requests, Scopes
  <1>2. /\ entry.host \in [Hosts -> Nat] /\ entry.full \in Nat
        /\ entry.present \in BOOLEAN /\ entry.complete \in BOOLEAN
    BY DEF Entries
  <1>3. CASE r.scope = "full"
    <2> DEFINE hosts == [h \in Hosts |->
                            IF SyncMode = "merge" /\ entry.present /\ h \in rest THEN 0
                            ELSE IF h \in got THEN g
                            ELSE IF SyncMode = "merge" \/ h \in rest THEN entry.host[h]
                            ELSE 0]
    <2>1. e = [present |-> TRUE, complete |-> TRUE, full |-> g, host |-> hosts]
      BY <1>3 DEF FirstWrite, ApplyFull, NewEntry
    <2>2. hosts \in [Hosts -> Nat] /\ \A h \in Hosts : hosts[h] \in {0, g, entry.host[h]}
      BY <1>2
    <2> HIDE DEF e, hosts
    <2>3. e \in Entries
      BY <2>1, <2>2 DEF Entries
    <2>4. e.present /\ e.full = g /\ e.host = hosts
      BY <2>1
    <2>5. QED
      BY <2>2, <2>3, <2>4, <1>3 DEF e
  <1>4. CASE r.scope = "hosts" /\ updates = {}
    <2>1. e = entry
      BY <1>4 DEF FirstWrite
    <2>2. QED
      BY <2>1, <1>2, <1>4
  <1>5. CASE r.scope # "full" /\ ~entry.present /\ (r.scope = "group" \/ updates # {})
    <2>1. e = NewEntry(got, g, 0)
      BY <1>1, <1>5 DEF FirstWrite
    <2>2. OwesMark(r, got)
      BY <1>1, <1>5 DEF OwesMark
    <2>3. entry.full = 0
      BY <1>5
    <2>4. QED
      BY <2>1, <2>2, <2>3, <1>2, <1>5 DEF NewEntry, Entries
  <1>6. CASE r.scope # "full" /\ entry.present /\ ~(r.scope = "hosts" /\ updates = {})
    <2> DEFINE hosts == [h \in Hosts |-> IF h \in updates THEN g ELSE entry.host[h]]
    <2>1. e = [entry EXCEPT !.host = hosts]
      BY <1>1, <1>6 DEF FirstWrite, ApplyScoped
    <2>2. hosts \in [Hosts -> Nat] /\ \A h \in Hosts : hosts[h] \in {0, g, entry.host[h]}
      BY <1>2
    <2> HIDE DEF e, hosts, updates
    <2>3. e \in Entries
      BY <2>1, <2>2 DEF Entries
    <2>4. /\ e.present = entry.present /\ e.complete = entry.complete
          /\ e.full = entry.full /\ e.host = hosts
      BY <2>1 DEF Entries
    <2>5. QED
      BY <2>2, <2>3, <2>4, <1>6 DEF e
  <1>7. QED
    BY <1>1, <1>2, <1>3, <1>4, <1>5, <1>6

-----------------------------------------------------------------------------
(* The initial states satisfy the invariant.                               *)

LEMMA InitInvariant == Init => IInv
  <1> SUFFICES ASSUME Init PROVE IInv
    OBVIOUS
  <1>1. TypeOK
    BY SourceSyncAssumption, EmptySeq
    DEF Init, TypeOK, Steps, Requests, Scopes, Outcomes, Entries, NoEntry
  <1>2. OneSyncAtATime
    <2>1. \A c \in Callers : pc[c] = "idle" /\ holder # c
      BY SourceSyncAssumption DEF Init
    <2>2. DOMAIN queue = {}
      BY DEF Init
    <2>3. QED
      BY <2>1, <2>2 DEF OneSyncAtATime, InSync, InQueue, NoRepeat
  <1>3. Ages
    BY DEF Init, Ages, InSync, NoEntry
  <1>4. CompleteOrMarking /\ LandedIsRecorded
    BY DEF Init, CompleteOrMarking, LandedIsRecorded, Cached, NoEntry
  <1>5. LandedFull /\ MovedCounter /\ OvertakenMoves /\ BurstGathersOnce
    BY DEF Init, LandedFull, MovedCounter, OvertakenMoves, BurstGathersOnce, InSync
  <1>6. QED
    BY <1>1, <1>2, <1>3, <1>4, <1>5 DEF IInv

-----------------------------------------------------------------------------
(* Every action preserves it.                                              *)

\* The steps under the mutex and outside it that touch neither the queue
\* nor the entry.
LEMMA AskInvariant ==
    ASSUME IInv, NEW c \in Callers, NEW r \in ValidRequests, Ask(c, r)
    PROVE  IInv'
  <1> USE DEF IInv, Ask, Step
  <1>1. TypeOK'
    BY DEF TypeOK, Steps, ValidRequests, Outcomes
  <1>2. OneSyncAtATime'
    BY DEF TypeOK, OneSyncAtATime, InSync, Steps
  <1>3. Ages'
    BY DEF TypeOK, Ages, InSync
  <1>4. CompleteOrMarking' /\ LandedIsRecorded'
    BY DEF TypeOK, CompleteOrMarking, LandedIsRecorded, Cached
  <1>5. LandedFull' /\ MovedCounter' /\ OvertakenMoves' /\ BurstGathersOnce'
    BY DEF TypeOK, LandedFull, MovedCounter, OvertakenMoves, BurstGathersOnce, InSync
  <1>6. QED
    BY <1>1, <1>2, <1>3, <1>4, <1>5

LEMMA QueueInvariant ==
    ASSUME IInv, NEW c \in Callers, Queue(c)
    PROVE  IInv'
  <1> USE DEF IInv, Queue, Step
  <1>1. /\ queue' \in Seq(Callers) /\ NoRepeat(queue')
        /\ \A d \in Callers : InQueue(queue', d) <=> InQueue(queue, d) \/ d = c
    <2>1. ~InQueue(queue, c)
      BY DEF OneSyncAtATime
    <2>2. QED
      BY <2>1, QueueAppend DEF TypeOK, OneSyncAtATime
  <1>2. TypeOK'
    BY <1>1 DEF TypeOK, Steps
  <1>3. OneSyncAtATime'
    BY <1>1 DEF TypeOK, OneSyncAtATime, InSync
  <1>4. Ages'
    BY DEF TypeOK, Ages, InSync
  <1>5. CompleteOrMarking' /\ LandedIsRecorded'
    BY DEF TypeOK, CompleteOrMarking, LandedIsRecorded, Cached
  <1>6. LandedFull' /\ MovedCounter' /\ OvertakenMoves' /\ BurstGathersOnce'
    BY DEF TypeOK, LandedFull, MovedCounter, OvertakenMoves, BurstGathersOnce, InSync
  <1>7. QED
    BY <1>2, <1>3, <1>4, <1>5, <1>6

\* The head of the queue is served: it is the caller that leaves, and it is
\* nowhere else in the queue.
LEMMA ServedHead ==
    ASSUME IInv, NEW c \in Callers, MayEnter(c), queue' = Tail(queue)
    PROVE  /\ queue' \in Seq(Callers) /\ NoRepeat(queue')
           /\ \A d \in Callers : InQueue(queue', d) <=> InQueue(queue, d) /\ d # c
           /\ \A d \in Callers : pc[d] \notin InSync
  <1>1. \A d \in Callers : pc[d] \notin InSync
    BY SourceSyncAssumption DEF IInv, OneSyncAtATime, MayEnter
  <1>2. QED
    BY <1>1, QueueTail DEF IInv, TypeOK, OneSyncAtATime, MayEnter

LEMMA CoalesceInvariant ==
    ASSUME IInv, NEW c \in Callers, Coalesce(c)
    PROVE  IInv'
  <1> USE DEF IInv, Coalesce, Step
  <1>1. /\ queue' \in Seq(Callers) /\ NoRepeat(queue')
        /\ \A d \in Callers : InQueue(queue', d) <=> InQueue(queue, d) /\ d # c
    BY ServedHead
  <1>2. TypeOK'
    BY <1>1 DEF TypeOK, Steps, Outcomes
  <1>3. OneSyncAtATime'
    BY <1>1 DEF TypeOK, OneSyncAtATime, InSync
  <1>4. Ages'
    BY DEF TypeOK, Ages, InSync
  <1>5. CompleteOrMarking' /\ LandedIsRecorded'
    BY DEF TypeOK, CompleteOrMarking, LandedIsRecorded, Cached
  <1>6. LandedFull' /\ MovedCounter' /\ OvertakenMoves' /\ BurstGathersOnce'
    BY DEF TypeOK, LandedFull, MovedCounter, OvertakenMoves, BurstGathersOnce, InSync
  <1>7. QED
    BY <1>2, <1>3, <1>4, <1>5, <1>6

LEMMA RefuseEarlyInvariant ==
    ASSUME IInv, NEW c \in Callers, RefuseEarly(c)
    PROVE  IInv'
  <1> USE DEF IInv, RefuseEarly, Step
  <1>1. /\ queue' \in Seq(Callers) /\ NoRepeat(queue')
        /\ \A d \in Callers : InQueue(queue', d) <=> InQueue(queue, d) /\ d # c
    BY ServedHead
  <1>2. TypeOK'
    BY <1>1 DEF TypeOK, Steps, Outcomes
  <1>3. OneSyncAtATime'
    BY <1>1 DEF TypeOK, OneSyncAtATime, InSync
  <1>4. Ages'
    BY DEF TypeOK, Ages, InSync
  <1>5. CompleteOrMarking' /\ LandedIsRecorded'
    BY DEF TypeOK, CompleteOrMarking, LandedIsRecorded, Cached
  <1>6. LandedFull' /\ MovedCounter' /\ OvertakenMoves' /\ BurstGathersOnce'
    BY DEF TypeOK, LandedFull, MovedCounter, OvertakenMoves, BurstGathersOnce, InSync
  <1>7. QED
    BY <1>2, <1>3, <1>4, <1>5, <1>6

LEMMA StartGatherInvariant ==
    ASSUME IInv, NEW c \in Callers, StartGather(c)
    PROVE  IInv'
  <1> USE DEF IInv, StartGather, Step
  <1>1. /\ queue' \in Seq(Callers) /\ NoRepeat(queue')
        /\ \A d \in Callers : InQueue(queue', d) <=> InQueue(queue, d) /\ d # c
        /\ \A d \in Callers : pc[d] \notin InSync
    BY ServedHead
  <1>2. TypeOK'
    BY <1>1 DEF TypeOK, Steps
  <1>3. OneSyncAtATime'
    BY <1>1 DEF TypeOK, OneSyncAtATime, InSync
  <1>4. Ages'
    BY DEF TypeOK, Ages, InSync, Entries
  <1>5. CompleteOrMarking' /\ LandedIsRecorded'
    BY <1>1 DEF TypeOK, CompleteOrMarking, LandedIsRecorded, Cached, InSync
  <1>6. LandedFull' /\ MovedCounter' /\ OvertakenMoves'
    BY DEF TypeOK, LandedFull, MovedCounter, OvertakenMoves
  <1>7. BurstGathersOnce'
    <2>1. /\ pc[c] = "queued" /\ seen[c] \in Nat /\ fullSyncs \in Nat
          /\ coalescable(req[c]) => fullSyncs = seen[c]
      BY DEF MustGather, TypeOK
    <2>2. overtaken[c] # {} => seen[c] < fullSyncs
      BY <2>1 DEF OvertakenMoves
    <2>3. coalescable(req[c]) => overtaken[c] = {}
      BY <2>1, <2>2
    <2>4. QED
      BY <2>3 DEF BurstGathersOnce, TypeOK, InSync
  <1>8. QED
    BY <1>2, <1>3, <1>4, <1>5, <1>6, <1>7

LEMMA GatherOkInvariant ==
    ASSUME IInv, NEW c \in Callers,
           NEW got \in SUBSET Hosts, NEW rest \in SUBSET Hosts,
           NEW members \in SUBSET Hosts, NEW advertised \in BOOLEAN,
           GatherOk(c, got, rest, members, advertised)
    PROVE  IInv'
  <1> USE DEF IInv
  <1>1. /\ c = holder /\ gid[c] = started /\ gid[c] # 0
        /\ \A d \in Callers : pc[d] \in InSync => d = c
    BY DEF GatherOk, OneSyncAtATime, Ages, InSync
  <1>2. /\ entry \in Entries /\ started \in Nat /\ req[c] \in Requests
        /\ ~entry.present => entry.full = 0
    BY DEF TypeOK, Ages
  <1>3. /\ entry' \in Entries
        /\ \A h \in Hosts : entry'.host[h] \in {0, started, entry.host[h]}
        /\ entry' = entry \/ entry'.present
        /\ req[c].scope = "full" => entry'.present /\ entry'.full = started
        /\ req[c].scope # "full" => entry'.full = entry.full
        /\ req[c].scope # "full" /\ ~OwesMark(req[c], got)
             => entry'.complete = entry.complete /\ entry'.present = entry.present
    <2>1. entry' = FirstWrite(req[c], got, rest, members, started)
      BY <1>1 DEF GatherOk
    <2>2. SyncMode \in {"replace", "merge"}
      BY SourceSyncAssumption
    <2> DEFINE e == FirstWrite(req[c], got, rest, members, started)
    <2>3. /\ e \in Entries
          /\ \A h \in Hosts : e.host[h] \in {0, started, entry.host[h]}
          /\ e = entry \/ e.present
          /\ req[c].scope = "full" => e.present /\ e.full = started
          /\ req[c].scope # "full" => e.full = entry.full
          /\ req[c].scope # "full" /\ ~OwesMark(req[c], got)
               => e.complete = entry.complete /\ e.present = entry.present
      BY ONLY <1>2, <2>2, FirstWriteFacts
    <2>4. entry' = e
      BY <2>1
    <2> HIDE DEF e
    <2>5. QED
      BY <2>3, <2>4
  <1>4. /\ pc' = [pc EXCEPT ![c] = pc'[c]] /\ pc[c] = "gathering"
        /\ pc'[c] = IF OwesMark(req[c], got) THEN "marking" ELSE "recording"
        /\ claim' \in {claim, started}
        /\ UNCHANGED <<req, seen, outcome, queue, holder, fullSyncs, health, gid,
                       started, asks, asked, okRuns, overtaken>>
    BY <1>1 DEF GatherOk, TypeOK
  <1>5. TypeOK'
    BY <1>2, <1>3, <1>4 DEF TypeOK, Steps
  <1>6. OneSyncAtATime'
    BY <1>1, <1>4 DEF TypeOK, OneSyncAtATime, InSync
  <1>7. Ages'
    <2>1. /\ \A h \in Hosts : entry'.host[h] <= started
          /\ entry'.full <= started /\ claim' <= started
      BY <1>2, <1>3, <1>4 DEF Ages
    <2>2. ~entry'.present => entry'.full = 0
      BY <1>2, <1>3
    <2>3. QED
      BY <1>4, <2>1, <2>2, <1>1 DEF Ages, TypeOK, InSync, NoEntry
  <1>8. CompleteOrMarking'
    <2>1. CASE req[c].scope = "full"
      BY <2>1, <1>1, <1>3 DEF CompleteOrMarking
    <2>2. CASE OwesMark(req[c], got)
      BY <2>2, <1>4 DEF CompleteOrMarking, TypeOK
    <2>3. CASE req[c].scope # "full" /\ ~OwesMark(req[c], got)
      BY <2>3, <1>1, <1>3, <1>4 DEF CompleteOrMarking, InSync
    <2>4. QED
      BY <2>1, <2>2, <2>3
  <1>9. LandedIsRecorded'
    <2> SUFFICES ASSUME NEW h \in Hosts, entry'.host[h] # 0
                 PROVE  \/ entry'.host[h] \in okRuns'
                        \/ \E d \in Callers : /\ gid'[d] = entry'.host[h]
                                              /\ pc'[d] \in {"marking", "recording"}
      BY DEF LandedIsRecorded, Cached
    <2>1. CASE entry'.host[h] = started
      BY <2>1, <1>1, <1>4 DEF TypeOK
    <2>2. CASE entry'.host[h] = entry.host[h]
      <3>1. h \in Cached
        BY <2>2 DEF Cached
      <3>2. \A d \in Callers : pc[d] \notin {"marking", "recording"}
        BY <1>1, <1>4 DEF InSync
      <3>3. entry.host[h] \in okRuns
        BY <3>1, <3>2 DEF LandedIsRecorded
      <3>4. QED
        BY <2>2, <3>3, <1>4
    <2>3. QED
      BY <2>1, <2>2, <1>3
  <1>10. LandedFull'
    <2> SUFFICES ASSUME NEW d \in Callers,
                        pc'[d] \in {"marking", "recording", "enriching"},
                        req'[d].scope = "full"
                 PROVE  entry'.present /\ entry'.full = gid'[d]
      BY DEF LandedFull
    <2>1. CASE d = c
      BY <2>1, <1>1, <1>3, <1>4
    <2>2. CASE d # c
      <3>1. pc'[d] = pc[d]
        BY <2>2, <1>4 DEF TypeOK
      <3>2. QED
        BY <3>1, <2>2, <1>1 DEF InSync
    <2>3. QED
      BY <2>1, <2>2
  <1>11. MovedCounter' /\ OvertakenMoves'
    <2>1. \A d \in Callers : pc'[d] \in {"asking", "queued"} => pc[d] \in {"asking", "queued"}
      BY <1>4 DEF TypeOK
    <2>2. entry.present => entry'.present
      BY <1>3
    <2>3. entry'.full \in {entry.full, started}
      BY <1>3
    <2>4. \A d \in Callers : asked[d] \in Nat /\ asked[d] <= started
      BY DEF TypeOK, Ages
    <2>5. MovedCounter'
      <3> SUFFICES ASSUME NEW d \in Callers,
                          pc'[d] \in {"asking", "queued"}, seen'[d] # fullSyncs'
                   PROVE  entry'.present /\ entry'.full >= asked'[d]
        BY DEF MovedCounter
      <3>1. entry.present /\ entry.full >= asked[d]
        BY <2>1, <1>4 DEF MovedCounter
      <3>2. QED
        BY <3>1, <2>2, <2>3, <2>4, <1>2, <1>4
    <2>6. OvertakenMoves'
      BY <2>1, <1>4 DEF OvertakenMoves
    <2>7. QED
      BY <2>5, <2>6
  <1>12. BurstGathersOnce'
    BY <1>4 DEF BurstGathersOnce, TypeOK, InSync
  <1>13. QED
    BY <1>5, <1>6, <1>7, <1>8, <1>9, <1>10, <1>11, <1>12

LEMMA MarkPartialInvariant ==
    ASSUME IInv, NEW c \in Callers, MarkPartial(c)
    PROVE  IInv'
  <1> USE DEF IInv, MarkPartial, Step
  <1>1. /\ entry' \in Entries /\ entry'.host = entry.host
        /\ entry'.full = entry.full /\ entry'.present = entry.present
        /\ entry'.complete = FALSE
    BY DEF TypeOK, Entries
  <1>2. TypeOK'
    BY <1>1 DEF TypeOK, Steps
  <1>3. OneSyncAtATime'
    BY DEF TypeOK, OneSyncAtATime, InSync
  <1>4. Ages'
    BY <1>1 DEF TypeOK, Ages, InSync
  <1>5. CompleteOrMarking'
    BY <1>1 DEF CompleteOrMarking
  <1>6. LandedIsRecorded'
    <2>1. Cached' = Cached
      BY <1>1 DEF Cached
    <2>2. \A d \in Callers : pc[d] \in {"marking", "recording"}
                                => pc'[d] \in {"marking", "recording"}
      BY DEF TypeOK
    <2>3. okRuns' = okRuns /\ gid' = gid
      OBVIOUS
    <2>4. QED
      BY <1>1, <2>1, <2>2, <2>3 DEF LandedIsRecorded
  <1>7. LandedFull' /\ MovedCounter' /\ OvertakenMoves' /\ BurstGathersOnce'
    <2>1. LandedFull'
      BY <1>1 DEF TypeOK, LandedFull
    <2>2. QED
      BY <1>1, <2>1 DEF TypeOK, MovedCounter, OvertakenMoves,
                        BurstGathersOnce, InSync
  <1>8. QED
    BY <1>2, <1>3, <1>4, <1>5, <1>6, <1>7

LEMMA RecordSuccessInvariant ==
    ASSUME IInv, NEW c \in Callers, RecordSuccess(c)
    PROVE  IInv'
  <1> USE DEF IInv, RecordSuccess, Step
  <1>1. TypeOK'
    BY DEF TypeOK, Steps
  <1>2. OneSyncAtATime'
    BY DEF TypeOK, OneSyncAtATime, InSync
  <1>3. Ages'
    BY DEF TypeOK, Ages, InSync
  <1>4. /\ pc[c] = "recording" /\ entry' = entry /\ gid' = gid
        /\ okRuns' = okRuns \cup {gid[c]}
        /\ \A d \in Callers : d # c => pc'[d] = pc[d]
    BY DEF TypeOK
  <1>5. CompleteOrMarking'
    BY <1>4 DEF CompleteOrMarking
  <1>6. LandedIsRecorded'
    <2> SUFFICES ASSUME NEW h \in Cached
                 PROVE  \/ entry.host[h] \in okRuns'
                        \/ \E d \in Callers : /\ gid[d] = entry.host[h]
                                              /\ pc'[d] \in {"marking", "recording"}
      BY <1>4 DEF LandedIsRecorded, Cached
    <2>1. CASE entry.host[h] \in okRuns
      BY <2>1, <1>4
    <2>2. ASSUME NEW d \in Callers, gid[d] = entry.host[h], pc[d] \in {"marking", "recording"}
          PROVE  \/ entry.host[h] \in okRuns'
                 \/ pc'[d] \in {"marking", "recording"}
      BY <2>2, <1>4
    <2>3. QED
      BY <2>1, <2>2 DEF LandedIsRecorded
  <1>7. LandedFull' /\ MovedCounter' /\ OvertakenMoves' /\ BurstGathersOnce'
    BY DEF TypeOK, LandedFull, MovedCounter, OvertakenMoves, BurstGathersOnce, InSync
  <1>8. QED
    BY <1>1, <1>2, <1>3, <1>5, <1>6, <1>7

LEMMA FailInvariant ==
    ASSUME IInv, NEW c \in Callers, Fail(c)
    PROVE  IInv'
  <1> USE DEF IInv, Fail, Step
  <1>1. TypeOK'
    BY DEF TypeOK, Steps, Outcomes
  <1>2. OneSyncAtATime'
    BY SourceSyncAssumption DEF TypeOK, OneSyncAtATime, InSync
  <1>3. Ages'
    BY DEF TypeOK, Ages, InSync
  <1>4. CompleteOrMarking' /\ LandedIsRecorded'
    BY DEF TypeOK, CompleteOrMarking, LandedIsRecorded, Cached
  <1>5. LandedFull' /\ MovedCounter' /\ OvertakenMoves' /\ BurstGathersOnce'
    BY DEF TypeOK, LandedFull, MovedCounter, OvertakenMoves, BurstGathersOnce, InSync
  <1>6. QED
    BY <1>1, <1>2, <1>3, <1>4, <1>5

LEMMA ReturnInvariant ==
    ASSUME IInv, NEW c \in Callers, Return(c)
    PROVE  IInv'
  <1> USE DEF IInv, Return, Step
  <1>1. /\ gid[c] = started /\ pc[c] = "enriching"
        /\ \A d \in Callers : pc[d] \in InSync => d = c
    BY DEF OneSyncAtATime, InSync
  <1>2. TypeOK'
    BY DEF TypeOK, Steps, Outcomes
  <1>3. OneSyncAtATime'
    BY SourceSyncAssumption DEF TypeOK, OneSyncAtATime, InSync
  <1>4. Ages'
    BY DEF TypeOK, Ages, InSync
  <1>5. CompleteOrMarking' /\ LandedIsRecorded'
    BY DEF TypeOK, CompleteOrMarking, LandedIsRecorded, Cached
  <1>6. LandedFull' /\ BurstGathersOnce'
    BY <1>1 DEF TypeOK, LandedFull, BurstGathersOnce, InSync
  <1>7. CASE coalescable(req[c])
    <2>1. fullSyncs' = fullSyncs + 1 /\ entry' = entry
      BY <1>7
    <2>2. entry.present /\ entry.full = started
      BY <1>1, <1>7 DEF LandedFull, coalescable
    <2>3. MovedCounter'
      BY <2>1, <2>2 DEF MovedCounter, Ages, TypeOK
    <2>4. OvertakenMoves'
      BY <2>1 DEF OvertakenMoves, Ages, TypeOK
    <2>5. QED
      BY <1>2, <1>3, <1>4, <1>5, <1>6, <2>3, <2>4
  <1>8. CASE ~coalescable(req[c])
    <2>1. fullSyncs' = fullSyncs /\ entry' = entry /\ overtaken' = overtaken
      BY <1>8 DEF TypeOK
    <2>2. MovedCounter' /\ OvertakenMoves'
      BY <2>1 DEF MovedCounter, OvertakenMoves, TypeOK
    <2>3. QED
      BY <1>2, <1>3, <1>4, <1>5, <1>6, <2>2
  <1>9. QED
    BY <1>7, <1>8

\* A caller that leaves for "idle" from where it holds nothing unrecorded
\* disturbs only what TypeOK and OneSyncAtATime say.
LEMMA DroppedLeavesTheRest ==
    ASSUME IInv, NEW c \in Callers, TypeOK', OneSyncAtATime',
           pc[c] \in {"queued", "gathering", "enriching"},
           pc' = [pc EXCEPT ![c] = "idle"],
           UNCHANGED <<req, seen, fullSyncs, entry, claim, gid, started, asked,
                       okRuns, overtaken>>
    PROVE  IInv'
  <1>1. /\ pc'[c] = "idle"
        /\ \A d \in Callers : d # c => pc'[d] = pc[d]
    BY DEF IInv, TypeOK
  <1>2. \A d \in Callers, S \in {{"marking"}, {"marking", "recording"}} :
            pc[d] \in S => pc'[d] \in S
    BY <1>1
  <1>3. \A d \in Callers : pc'[d] # "idle" => pc'[d] = pc[d]
    BY <1>1
  <1>4. Ages'
    BY <1>3 DEF IInv, Ages, InSync
  <1>5. CompleteOrMarking'
    BY <1>2 DEF IInv, CompleteOrMarking
  <1>6. LandedIsRecorded'
    BY <1>2 DEF IInv, LandedIsRecorded, Cached
  <1>7. LandedFull'
    BY <1>3 DEF IInv, LandedFull
  <1>8. MovedCounter' /\ OvertakenMoves'
    BY <1>3 DEF IInv, MovedCounter, OvertakenMoves
  <1>9. BurstGathersOnce'
    BY <1>3 DEF IInv, BurstGathersOnce, InSync, coalescable
  <1>10. QED
    BY <1>4, <1>5, <1>6, <1>7, <1>8, <1>9 DEF IInv

LEMMA DropInvariant ==
    ASSUME IInv, NEW c \in Callers, Drop(c)
    PROVE  IInv'
  <1>0. /\ pc[c] \in {"queued", "gathering", "enriching"}
        /\ pc' = [pc EXCEPT ![c] = "idle"]
        /\ UNCHANGED <<req, seen, fullSyncs, entry, claim, gid, started, asked,
                       okRuns, overtaken>>
    BY DEF Drop, Awaiting
  <1> USE DEF IInv, Drop
  <1>1. CASE pc[c] = "queued"
    <2>1. /\ queue' \in Seq(Callers) /\ NoRepeat(queue')
          /\ \A d \in Callers : InQueue(queue', d) <=> InQueue(queue, d) /\ d # c
      BY <1>1, QueueRemove DEF TypeOK, OneSyncAtATime
    <2>2. TypeOK'
      BY <1>1, <2>1 DEF TypeOK, Steps
    <2>3. OneSyncAtATime'
      BY <1>1, <2>1 DEF TypeOK, OneSyncAtATime, InSync
    <2>4. IInv'
      BY <1>1, <1>0, <2>2, <2>3, DroppedLeavesTheRest
    <2>5. QED
      BY <2>4
  <1>2. CASE pc[c] # "queued"
    <2>1. /\ pc[c] \in {"gathering", "enriching"} /\ holder' = NoCaller
          /\ queue' = queue
      BY <1>2 DEF Awaiting
    <2>2. TypeOK'
      BY <2>1 DEF TypeOK, Steps
    <2>3. OneSyncAtATime'
      BY <2>1, SourceSyncAssumption DEF TypeOK, OneSyncAtATime, InSync
    <2>4. IInv'
      BY <2>1, <1>0, <2>2, <2>3, DroppedLeavesTheRest
    <2>5. QED
      BY <2>4
  <1>3. QED
    BY <1>1, <1>2

LEMMA StutterInvariant ==
    ASSUME IInv, UNCHANGED vars
    PROVE  IInv'
  BY DEF vars, IInv, TypeOK, OneSyncAtATime, Ages, CompleteOrMarking, LandedIsRecorded,
         Cached, LandedFull, MovedCounter, OvertakenMoves, BurstGathersOnce,
         InQueue, NoRepeat, InSync

LEMMA StepInvariant == IInv /\ [Next]_vars => IInv'
  <1> SUFFICES ASSUME IInv, [Next]_vars PROVE IInv'
    OBVIOUS
  <1>1. ASSUME NEW c \in Callers, NEW r \in ValidRequests, Ask(c, r) PROVE IInv'
    BY <1>1, AskInvariant
  <1>2. ASSUME NEW c \in Callers, Advance(c) PROVE IInv'
    BY <1>2, QueueInvariant, CoalesceInvariant, RefuseEarlyInvariant,
       StartGatherInvariant, MarkPartialInvariant, RecordSuccessInvariant,
       ReturnInvariant DEF Advance
  <1>3. ASSUME NEW c \in Callers, NEW got \in SUBSET Hosts, NEW rest \in SUBSET Hosts,
               NEW members \in SUBSET Hosts, NEW advertised \in BOOLEAN,
               GatherOk(c, got, rest, members, advertised)
        PROVE  IInv'
    BY <1>3, GatherOkInvariant
  <1>4. ASSUME NEW c \in Callers, GatherError(c) \/ GatherTimeout(c) PROVE IInv'
    BY <1>4, FailInvariant DEF GatherError, GatherTimeout
  <1>5. ASSUME NEW c \in Callers, Drop(c) PROVE IInv'
    BY <1>5, DropInvariant
  <1>6. CASE Finished \/ UNCHANGED vars
    BY <1>6, StutterInvariant DEF Finished
  <1>7. QED
    BY <1>1, <1>2, <1>3, <1>4, <1>5, <1>6 DEF Next

-----------------------------------------------------------------------------
(* The theorems.                                                           *)

\* The invariant holds in every behaviour.
THEOREM InvariantHolds == Spec => []IInv
  BY InitInvariant, StepInvariant, PTL DEF Spec

\* Type correctness.
THEOREM Typing == Spec => []TypeOK
  BY InvariantHolds, PTL DEF IInv

\* Two syncs of the source never overlap, however callers queue, fail, time
\* out and are dropped (SyncCoordinator).
THEOREM SyncsAreSerial == Spec => []OneSyncAtATime
  BY InvariantHolds, PTL DEF IInv

\* An entry nobody is syncing is complete only after a full gather.
THEOREM Completeness == Spec => []CompleteIsEarned
  <1>1. IInv => CompleteIsEarned
    <2> SUFFICES ASSUME IInv, holder = NoCaller, entry.present, entry.complete
                 PROVE  entry.full # 0
      BY DEF CompleteIsEarned
    <2>1. \A c \in Callers : pc[c] # "marking"
      BY SourceSyncAssumption DEF IInv, OneSyncAtATime, InSync
    <2>2. QED
      BY <2>1 DEF IInv, CompleteOrMarking
  <1>2. QED
    BY <1>1, InvariantHolds, PTL

\* A run whose data is in the cache is recorded as a success, even for a
\* caller dropped while enrichment runs.
THEOREM LandedRunsAreRecorded == Spec => []LandedIsRecorded
  BY InvariantHolds, PTL DEF IInv

\* No plain full sync gathers again what was gathered while it waited.
THEOREM BurstsGatherOnce == Spec => []BurstGathersOnce
  BY InvariantHolds, PTL DEF IInv

\* Under the invariant a cache write never takes a host back to an older run.
LEMMA StepNeverOlder == IInv /\ [Next]_vars => [NoOlderGatherWins]_vars
  <1> SUFFICES ASSUME IInv, Next, NEW h \in Hosts, entry.host[h] # 0, entry'.host[h] # 0
               PROVE  entry.host[h] <= entry'.host[h]
    BY DEF NoOlderGatherWins
  <1>1. entry.host[h] \in Nat
    BY DEF IInv, TypeOK, Entries
  <1>2. ASSUME NEW c \in Callers, NEW got \in SUBSET Hosts, NEW rest \in SUBSET Hosts,
               NEW members \in SUBSET Hosts, NEW advertised \in BOOLEAN,
               GatherOk(c, got, rest, members, advertised)
        PROVE  entry.host[h] <= entry'.host[h]
    <2> DEFINE e == FirstWrite(req[c], got, rest, members, started)
    <2>1. gid[c] = started /\ entry.host[h] <= started
      BY <1>2 DEF IInv, GatherOk, OneSyncAtATime, InSync, Ages
    <2>2. /\ entry \in Entries /\ started \in Nat /\ req[c] \in Requests
          /\ ~entry.present => entry.full = 0
          /\ SyncMode \in {"replace", "merge"}
      BY SourceSyncAssumption DEF IInv, TypeOK, Ages
    <2>3. \A k \in Hosts : e.host[k] \in {0, started, entry.host[k]}
      BY ONLY <2>2, FirstWriteFacts
    <2>4. entry' = e
      BY <1>2, <2>1 DEF GatherOk
    <2> HIDE DEF e
    <2>5. QED
      BY <2>1, <2>3, <2>4, <1>1
  <1>3. ASSUME NEW c \in Callers, MarkPartial(c)
        PROVE  entry.host[h] <= entry'.host[h]
    BY <1>1, <1>3 DEF MarkPartial, IInv, TypeOK, Entries
  <1>4. CASE UNCHANGED entry
    BY <1>1, <1>4
  <1>5. QED
    BY <1>2, <1>3, <1>4 DEF Next, Advance, Ask, Queue, Coalesce, RefuseEarly, StartGather,
       RecordSuccess, Return, GatherError, GatherTimeout, Fail, Drop, Finished, vars

\* The reason the mutex exists: the newest gather wins.
THEOREM NewestGatherWins == Spec => NeverAnOlderGather
  BY InvariantHolds, StepNeverOlder, PTL DEF Spec, NeverAnOlderGather

\* A coalesced answer is no older than the run that was the newest when the
\* request began.
THEOREM CoalescedAnswersAreCurrent == Spec => CoalescedIsCurrent
  <1>1. IInv /\ [Next]_vars =>
            [\A c \in Callers : CoalescedNow(c) => entry.present /\ entry.full >= asked[c]]_vars
    <2> SUFFICES ASSUME IInv, Next, NEW c \in Callers, CoalescedNow(c)
                 PROVE  entry.present /\ entry.full >= asked[c]
      OBVIOUS
    <2>1. outcome \in [Callers -> Outcomes]
      BY DEF IInv, TypeOK
    <2>2. Coalesce(c)
      BY <2>1 DEF CoalescedNow, Next, Advance, Ask, Queue, Coalesce, RefuseEarly, StartGather,
         GatherOk, MarkPartial, RecordSuccess, Return, GatherError, GatherTimeout, Fail,
         Drop, Finished, vars
    <2>3. pc[c] = "queued" /\ seen[c] # fullSyncs
      BY <2>2 DEF Coalesce, MayEnter
    <2>4. QED
      BY <2>3 DEF IInv, MovedCounter
  <1>2. QED
    BY <1>1, InvariantHolds, PTL DEF Spec, CoalescedIsCurrent
=============================================================================
