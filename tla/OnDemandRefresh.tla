--------------------------- MODULE OnDemandRefresh ---------------------------
(***************************************************************************)
(* Reads that may refresh first (application/refresh.rs), for one source:  *)
(* a read names hosts, locks the stale ones in order, re-checks them, takes*)
(* a permit of the RefreshLimiter and syncs them within a budget.          *)
(* sync_source is reduced to what a refresh sees of it: the source's FIFO  *)
(* lock, shared with syncs of other origins, the gather, and the time      *)
(* after the data landed in which enrichment is re-applied.                *)
(*                                                                         *)
(* A read is a future: it can be dropped wherever it awaits, and its       *)
(* guards and its permit go with it.                                       *)
(***************************************************************************)
EXTENDS Naturals, Sequences, FiniteSets

CONSTANTS
    Readers,    \* concurrent reads with refresh=true
    Hosts,      \* hosts of the source, in the order of their names
    HostLists,   \* host lists a read may name
    Others,     \* syncs of other origins: "scheduled", "downstream"
    Sizes,      \* values refresh_max_concurrent is configured with
    Ttl,        \* ttl_seconds
    Never,      \* no instant yet
    MaxTime,    \* bound: the clock
    MaxReads,   \* bound: reads
    MaxSyncs,   \* bound: syncs of other origins
    MaxResizes  \* bound: reloads that change the limit

ASSUME OnDemandRefreshAssumption ==
    /\ Hosts \subseteq Nat /\ Sizes \subseteq Nat /\ Never \notin Nat
    /\ HostLists \subseteq Seq(Hosts)
    /\ Others \subseteq {"scheduled", "downstream"} /\ Readers \cap Others = {}
    /\ Ttl \in Nat /\ MaxTime \in Nat /\ MaxReads \in Nat /\ MaxSyncs \in Nat /\ MaxResizes \in Nat

VARIABLES
    capacity, debt, available, queue, at,   \* the limiter
    pc,         \* where each read is
    order,      \* the hosts it locks, in order
    taken,      \* how many of those locks it holds
    still,      \* the hosts found stale under the locks
    hostLock,   \* per host: the guard that holds it and those that wait
    sourceLock, \* the source's: who holds it, then who waits
    stamps,     \* when each host was gathered
    now,
    newest,     \* the newest row of the source's history, numbered
    before,     \* its number when the read's budget began
    used,       \* reads, syncs and resizes made so far
    answer,     \* history: how each read last ended, and if its data landed
    gathered,   \* history: when a refresh last set out to gather each host
    refreshed,  \* history: when one last brought it back
    watch,      \* history: the reads already waiting when a budget began
    overdue     \* history: reads that saw a whole budget begin and expire

limiter == <<capacity, debt, available, queue, at>>
read == <<pc, order, taken, still, hostLock, sourceLock, before>>
data == <<stamps, newest>>
history == <<answer, gathered, refreshed, watch, overdue>>
vars == <<limiter, read, data, history, now, used>>

L == INSTANCE RefreshLimiter WITH Callers <- Readers

Waiting == {"syncing", "gathering", "landed"}    \* within the budget

\* The lock of a host.  Guard number i of read r stands for its place there.
Unlocked == [holder |-> <<>>, waiting |-> <<>>]

Guard(r, i) == <<r, i>>

Join(lock, guard) ==
    IF lock.holder = <<>>
    THEN [holder |-> guard, waiting |-> lock.waiting]
    ELSE [holder |-> lock.holder, waiting |-> Append(lock.waiting, guard)]

\* A read's guards are dropped: the lock goes to the first that waits.
Leave(lock, r) ==
    LET others == SelectSeq(lock.waiting, LAMBDA guard : guard[1] # r)
    IN  IF lock.holder # <<>> /\ lock.holder[1] # r
        THEN [holder |-> lock.holder, waiting |-> others]
        ELSE IF others = <<>>
             THEN Unlocked
             ELSE [holder |-> Head(others), waiting |-> Tail(others)]

TypeOK ==
    /\ L!LimiterTypeOK
    /\ pc \in [Readers -> {"idle", "locking", "acquiring"} \cup Waiting]
    /\ order \in [Readers -> Seq(Hosts)]
    /\ taken \in [Readers -> Nat]
    /\ still \in [Readers -> SUBSET Hosts]
    /\ sourceLock \in Seq(Readers \cup Others)
    /\ \A r \in Readers : /\ taken[r] <= Len(order[r])
                          /\ pc[r] = "idle" => at[r] = "away" /\ order[r] = <<>>
                          /\ pc[r] \in Waiting => at[r] = "holding"
                          /\ pc[r] \in Waiting <=> \E i \in DOMAIN sourceLock : sourceLock[i] = r
    /\ now \in Nat
    /\ stamps \in [Hosts -> 0 .. now \cup {Never}]

Init ==
    /\ L!LimiterInit
    /\ pc = [r \in Readers |-> "idle"]
    /\ order = [r \in Readers |-> <<>>]
    /\ taken = [r \in Readers |-> 0]
    /\ still = [r \in Readers |-> {}]
    /\ hostLock = [h \in Hosts |-> Unlocked]
    /\ sourceLock = <<>>
    /\ stamps = [h \in Hosts |-> Never]
    /\ now = 0
    /\ newest = [run |-> 0, kind |-> "none", scope |-> {}]
    /\ before = [r \in Readers |-> 0]
    /\ used = [reads |-> 0, syncs |-> 0, resizes |-> 0]
    /\ answer = [r \in Readers |-> [how |-> "none", landed |-> FALSE]]
    /\ gathered = [h \in Hosts |-> Never]
    /\ refreshed = [h \in Hosts |-> Never]
    /\ watch = [r \in Readers |-> {}]
    /\ overdue = {}

-----------------------------------------------------------------------------

Stale(h) == stamps[h] = Never \/ now - stamps[h] >= Ttl

\* Faulty variant: the locks are taken as they come.
Sorted_Skipped(hosts) == TRUE

\* ordered.sort(): what makes overlapping reads safe.
Sorted(hosts) == \A i, j \in DOMAIN hosts : i < j => hosts[i] <= hosts[j]

Named(hosts) == {hosts[i] : i \in DOMAIN hosts}

Times(h, hosts) == Cardinality({i \in DOMAIN hosts : hosts[i] = h})

\* The stale hosts of a list, each as often as it is named, in order.
ToLock(named) ==
    {hosts \in UNION {[1 .. n -> Hosts] : n \in 0 .. Len(named)} :
        /\ Sorted(hosts)
        /\ \A h \in Hosts : Times(h, hosts) = IF Stale(h) THEN Times(h, named) ELSE 0}

AtFront(lock, x) == lock # <<>> /\ Head(lock) = x

\* Faulty variant: the permit is returned whether or not one is held.
Depart_FreesPermit(r, how, row) ==
    /\ pc' = [pc EXCEPT ![r] = "idle"]
    /\ order' = [order EXCEPT ![r] = <<>>]
    /\ taken' = [taken EXCEPT ![r] = 0]
    /\ still' = [still EXCEPT ![r] = {}]
    /\ before' = [before EXCEPT ![r] = 0]
    /\ hostLock' = [h \in Hosts |-> Leave(hostLock[h], r)]
    /\ sourceLock' = IF pc[r] \in Waiting THEN L!Without(sourceLock, r) ELSE sourceLock
    /\ answer' = [answer EXCEPT ![r].how = how]
    /\ newest' = row
    /\ watch' = [s \in Readers |-> IF s = r THEN {} ELSE watch[s] \ {r}]
    /\ at' = [at EXCEPT ![r] = "away"]
    /\ available' = IF at[r] = "holding" THEN available + 1 ELSE available
    /\ queue' = SelectSeq(queue, LAMBDA c : c # r)
    /\ UNCHANGED <<capacity, debt, now, gathered, refreshed, used>>

\* A read ends: its answer, its guards, its permit, and its place in every
\* queue.  `row` is the newest row of the history when it is done.
Depart(r, how, row) ==
    /\ pc' = [pc EXCEPT ![r] = "idle"]
    /\ order' = [order EXCEPT ![r] = <<>>]
    /\ taken' = [taken EXCEPT ![r] = 0]
    /\ still' = [still EXCEPT ![r] = {}]
    /\ before' = [before EXCEPT ![r] = 0]
    /\ hostLock' = [h \in Hosts |-> Leave(hostLock[h], r)]
    /\ sourceLock' = IF pc[r] \in Waiting THEN L!Without(sourceLock, r) ELSE sourceLock
    /\ answer' = [answer EXCEPT ![r].how = how]
    /\ newest' = row
    /\ watch' = [s \in Readers |-> IF s = r THEN {} ELSE watch[s] \ {r}]
    /\ CASE at[r] = "holding" -> L!Release(r)
         [] at[r] = "waiting" -> L!Abandon(r)
         [] OTHER -> UNCHANGED limiter
    /\ UNCHANGED <<now, gathered, refreshed, used>>

\* The hosts named that are stale; none: answered at once.
Ask(r, named) ==
    /\ pc[r] = "idle" /\ used.reads < MaxReads
    /\ used' = [used EXCEPT !.reads = @ + 1]
    /\ overdue' = overdue \ {r}
    /\ \E stale \in ToLock(named) :
          IF stale = <<>>
          THEN /\ answer' = [answer EXCEPT ![r] = [how |-> "fresh", landed |-> FALSE]]
               /\ UNCHANGED read
          ELSE /\ pc' = [pc EXCEPT ![r] = "locking"]
               /\ order' = [order EXCEPT ![r] = stale]
               /\ hostLock' = [hostLock EXCEPT ![stale[1]] = Join(@, Guard(r, 1))]
               /\ answer' = [answer EXCEPT ![r] = [how |-> "none", landed |-> FALSE]]
               /\ UNCHANGED <<taken, still, sourceLock, before>>
    /\ UNCHANGED <<limiter, data, now, gathered, refreshed, watch>>

\* Its turn for the lock it waits for.
HasLock(r) ==
    /\ pc[r] = "locking"
    /\ hostLock[order[r][taken[r] + 1]].holder = Guard(r, taken[r] + 1)

NextLock(r) ==
    /\ HasLock(r) /\ taken[r] + 1 < Len(order[r])
    /\ taken' = [taken EXCEPT ![r] = @ + 1]
    /\ hostLock' = [hostLock EXCEPT ![order[r][taken[r] + 2]] = Join(@, Guard(r, taken[r] + 2))]
    /\ UNCHANGED <<limiter, pc, order, still, sourceLock, before, data, history, now, used>>

\* Faulty variant: what was stale before the wait is taken as stale still.
StaleUnderLocks_Snapshot(r) == Named(order[r])

\* Under all the locks it looks again: whoever held them may have refreshed
\* these very hosts.
StaleUnderLocks(r) == {h \in Named(order[r]) : Stale(h)}

Recheck(r) ==
    /\ HasLock(r) /\ taken[r] + 1 = Len(order[r])
    /\ IF StaleUnderLocks(r) = {}
       THEN /\ Depart(r, "coalesced", newest)
            /\ UNCHANGED <<stamps, overdue>>
       ELSE /\ pc' = [pc EXCEPT ![r] = "acquiring"]
            /\ taken' = [taken EXCEPT ![r] = @ + 1]
            /\ still' = [still EXCEPT ![r] = StaleUnderLocks(r)]
            /\ L!Settle(r)
            /\ UNCHANGED <<order, hostLock, sourceLock, before, data, history, now, used>>

AcquirePermit(r) ==
    /\ pc[r] = "acquiring"
    /\ L!Acquire(r)
    /\ UNCHANGED <<read, data, history, now, used>>

\* With the permit the budget begins, and the wait for the source's lock.
BeginBudget(r) ==
    /\ pc[r] = "acquiring" /\ at[r] = "holding"
    /\ pc' = [pc EXCEPT ![r] = "syncing"]
    /\ before' = [before EXCEPT ![r] = newest.run]
    /\ sourceLock' = Append(sourceLock, r)
    /\ watch' = [watch EXCEPT ![r] = {s \in Readers : pc[s] # "idle"}]
    /\ UNCHANGED <<limiter, order, taken, still, hostLock, data, answer, gathered,
                   refreshed, overdue, now, used>>

StartGather(r) ==
    /\ pc[r] = "syncing" /\ AtFront(sourceLock, r)
    /\ pc' = [pc EXCEPT ![r] = "gathering"]
    /\ gathered' = [h \in Hosts |-> IF h \in still[r] THEN now ELSE gathered[h]]
    /\ UNCHANGED <<limiter, order, taken, still, hostLock, sourceLock, before, data,
                   answer, refreshed, watch, overdue, now, used>>

Row(kind, scope) == [run |-> newest.run + 1, kind |-> kind, scope |-> scope]

\* The hosts that came back are written and the run is recorded; enrichment
\* is re-applied next, still within the budget.
GatherLands(r, came) ==
    /\ pc[r] = "gathering" /\ came \subseteq still[r]
    /\ pc' = [pc EXCEPT ![r] = "landed"]
    /\ stamps' = [h \in Hosts |-> IF h \in came THEN now ELSE stamps[h]]
    /\ refreshed' = [h \in Hosts |-> IF h \in came THEN now ELSE refreshed[h]]
    /\ newest' = Row("refresh", still[r])
    /\ answer' = [answer EXCEPT ![r].landed = TRUE]
    /\ UNCHANGED <<limiter, order, taken, still, hostLock, sourceLock, before, gathered,
                   watch, overdue, now, used>>

Refreshed(r) ==
    /\ pc[r] = "landed"
    /\ Depart(r, "refreshed", newest)
    /\ UNCHANGED <<stamps, overdue>>

GatherFails(r) ==
    /\ pc[r] = "gathering"
    /\ Depart(r, "failed", Row("refresh", still[r]))
    /\ UNCHANGED <<stamps, overdue>>

\* The budget is over.  The history says whether the data landed: a newer row
\* than the one before, of this kind and scope.  If not, the read leaves a row
\* of its own.
LooksLanded(r) ==
    newest.run # before[r] /\ newest.kind = "refresh" /\ newest.scope = still[r]

Timeout(r) ==
    /\ pc[r] \in Waiting
    /\ Depart(r, "timeout", IF LooksLanded(r) THEN newest ELSE Row("refresh", still[r]))
    /\ overdue' = (overdue \cup watch[r]) \ {r}
    /\ UNCHANGED stamps

\* The consumer hangs up.  Nothing is awaited between settling and acquiring.
Drop(r) ==
    /\ pc[r] # "idle" /\ at[r] # "settled"
    /\ Depart(r, "none", newest)
    /\ overdue' = overdue \ {r}
    /\ UNCHANGED stamps

\* A sync somebody else asks for: the scheduler of the whole source, a
\* downstream instance of one host, which it records as a refresh.
OtherAsks(o) ==
    /\ used.syncs < MaxSyncs
    /\ \A i \in DOMAIN sourceLock : sourceLock[i] # o
    /\ used' = [used EXCEPT !.syncs = @ + 1]
    /\ sourceLock' = Append(sourceLock, o)
    /\ UNCHANGED <<limiter, pc, order, taken, still, hostLock, before, data, history, now>>

OtherEnds(o, hosts, came) ==
    /\ AtFront(sourceLock, o)
    /\ came \subseteq hosts
    /\ IF o = "scheduled" THEN hosts = Hosts ELSE hosts # {}
    /\ sourceLock' = L!Without(sourceLock, o)
    /\ stamps' = [h \in Hosts |-> IF h \in came THEN now ELSE stamps[h]]
    /\ newest' = IF o = "scheduled" THEN Row("scheduled", Hosts) ELSE Row("refresh", hosts)
    /\ UNCHANGED <<limiter, pc, order, taken, still, hostLock, before, history, now, used>>

Resize(n) ==
    /\ used.resizes < MaxResizes
    /\ used' = [used EXCEPT !.resizes = @ + 1]
    /\ L!Resize(n)
    /\ UNCHANGED <<read, data, history, now>>

Tick ==
    /\ now < MaxTime
    /\ now' = now + 1
    /\ UNCHANGED <<limiter, read, data, history, used>>

\* What a read does by itself once it has asked.
Proceed(r) ==
    \/ NextLock(r) \/ Recheck(r) \/ AcquirePermit(r) \/ BeginBudget(r)
    \/ StartGather(r) \/ Refreshed(r)

OtherSync(o) == OtherAsks(o) \/ \E hosts, came \in SUBSET Hosts : OtherEnds(o, hosts, came)

Next ==
    \/ \E r \in Readers :
          \/ \E named \in HostLists : Ask(r, named)
          \/ Proceed(r)
          \/ \E came \in SUBSET Hosts : GatherLands(r, came)
          \/ GatherFails(r) \/ Timeout(r) \/ Drop(r)
    \/ \E o \in Others : OtherSync(o)
    \/ \E n \in Sizes : Resize(n)
    \/ Tick

Spec == Init /\ [][Next]_vars

\* A future that can run runs, the budget's timer fires, and the syncs of
\* others have a timeout of their own.  A gather may never answer, and no
\* consumer is bound to hang up.
Fairness ==
    /\ \A r \in Readers : WF_vars(Proceed(r)) /\ WF_vars(Timeout(r))
    /\ \A o \in Others : WF_vars(\E hosts, came \in SUBSET Hosts : OtherEnds(o, hosts, came))

FairSpec == Spec /\ Fairness

-----------------------------------------------------------------------------
(* Properties.                                                             *)

\* No read sets out for a host that another refresh brought back within the
\* TTL: those that waited find it fresh.
RefreshedOncePerTtl ==
    [][\A r \in Readers : (pc[r] = "syncing" /\ pc'[r] = "gathering") =>
          \A h \in still[r] : refreshed[h] # Never => now - refreshed[h] >= Ttl]_vars

\* A host is gathered for one read, and its data serves the others
\* (application/refresh.rs).
RefreshesAreShared == []TypeOK /\ RefreshedOncePerTtl

\* Whatever overlaps, stalls, is resized or hangs up, a read is answered.
EveryReadAnswers == \A r \in Readers : pc[r] # "idle" ~> pc[r] = "idle"

\* Reads use the limiter as it is meant: every step is one of its steps or
\* none of its business.
ImplementsLimiter == L!LimiterSpec

-----------------------------------------------------------------------------
(* What the comments and documents of the program say and the code does    *)
(* not do.                                                                 *)

\* "ceiling: ONE gather per host per TTL window" (docs/on-demand-refresh.md):
\* a gather that fails, times out or misses the host is repeated by each read
\* that waited for it.
OneGatherPerTtl ==
    [][\A r \in Readers : (pc[r] = "syncing" /\ pc'[r] = "gathering") =>
          \A h \in still[r] : gathered[h] # Never => now - gathered[h] >= Ttl]_vars

\* "How long a READ may wait for a refresh before it gives up and serves
\* cache": a read that waited through a whole budget of another begins its
\* own.
OneBudgetPerRead == \A r \in overdue : pc[r] \notin Waiting

\* "the data DID land and the run is already recorded as what it was: nothing
\* to add": a read whose data landed leaves no failure behind.
LandedIsNoFailure ==
    [][\A r \in Readers : (pc[r] = "landed" /\ answer'[r].how = "timeout") => newest' = newest]_vars

\* "A refresh that outlasts its budget is a row too" (docs/api.md).
TimeoutIsARow ==
    [][\A r \in Readers : (pc[r] # "landed" /\ pc[r] # "idle" /\ answer'[r].how = "timeout" /\ pc'[r] = "idle")
          => newest' # newest]_vars
=============================================================================
