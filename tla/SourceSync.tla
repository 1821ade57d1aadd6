----------------------------- MODULE SourceSync -----------------------------
(***************************************************************************)
(* The use case "sync a source" (application/sync.rs) for ONE source, with *)
(* every caller that can be inside it at once: the scheduler's task, POST  *)
(* /sync handlers, on-demand refreshes.  The SyncCoordinator gives the     *)
(* source one FIFO mutex and a counter of completed plain full syncs.      *)
(*                                                                         *)
(* Data is abstracted to its age: each run of the connector has a number   *)
(* (its position in the order in which runs started), and a host's         *)
(* variables in the cache are the number of the run that gathered them.    *)
(* What an entry holds besides (groups, clocks, TTL) is in CacheEntry.     *)
(*                                                                         *)
(* A caller is a future: it can be dropped wherever it awaits (the         *)
(* refresh budget ran out, the HTTP client hung up, the task was           *)
(* aborted), and only there.                                               *)
(***************************************************************************)
EXTENDS Naturals, Sequences, FiniteSets

CONSTANTS
    Callers,    \* concurrent callers of sync_source
    Hosts,      \* hosts of the source
    SyncMode,   \* the source's sync_mode
    NoCaller,   \* the mutex is free
    MaxAsks     \* bound: calls of sync_source in a behaviour

ASSUME SourceSyncAssumption ==
    /\ SyncMode \in {"replace", "merge"}
    /\ NoCaller \notin Callers
    /\ MaxAsks \in Nat

VARIABLES
    pc,         \* where each caller is in sync_source
    req,        \* its SyncRequest
    seen,       \* its full_syncs_before
    outcome,    \* the SyncOutcome it last returned
    queue,      \* callers waiting in lock_owned().await, oldest first
    holder,     \* the caller that holds the mutex
    fullSyncs,  \* SourceSync::full_syncs
    entry,      \* the source's entry in the cache
    claim,      \* run whose advertised scope is the last known one (0: none)
    health,     \* the last attempt recorded in SyncHealthRegistry
    gid,        \* number of each caller's run
    started,    \* runs of the connector started so far
    asks,       \* calls made so far
    asked,      \* history: `started` when the caller's request began
    okRuns,     \* history: runs recorded as a success
    overtaken   \* history: plain full syncs that returned since it asked

vars == <<pc, req, seen, outcome, queue, holder, fullSyncs, entry, claim,
          health, gid, started, asks, asked, okRuns, overtaken>>

-----------------------------------------------------------------------------

Scopes == {"full", "hosts", "group"}
Requests == [scope : Scopes, targets : SUBSET Hosts, origin : BOOLEAN]

\* A full or group request names no host; the group's members are the
\* connector's and the entry's business.
ValidRequests ==
    {r \in Requests : (r.scope = "hosts") <=> (r.targets # {})}

Steps == {"idle", "asking", "queued", "gathering", "marking", "recording",
          "enriching"}

\* Under the mutex, and past the coalescing check.
InSync == {"gathering", "marking", "recording", "enriching"}

\* Where the future is suspended, so where it can be dropped.
Awaiting == {"queued", "gathering", "enriching"}

Outcomes == {"none", "ok", "failed", "coalesced"}

Entries == [present : BOOLEAN, complete : BOOLEAN, full : Nat,
            host : [Hosts -> Nat]]

NoEntry == [present |-> FALSE, complete |-> FALSE, full |-> 0,
            host |-> [h \in Hosts |-> 0]]

Cached == {h \in Hosts : entry.host[h] # 0}

coalescable(r) == r.scope = "full" /\ ~r.origin
-----------------------------------------------------------------------------
(* What the connector's output does to the entry.                          *)

\* CacheEntry::new: the dataset as the run g returned it, complete.
NewEntry(got, g, full) ==
    [present |-> TRUE, complete |-> TRUE, full |-> full,
     host |-> [h \in Hosts |-> IF h \in got THEN g ELSE 0]]

\* A full sync.  `rest` is what the output names besides its hosts: in
\* replace mode the hosts that could not be reached, which keep what they
\* had; in merge mode the hosts to remove, from an entry that exists.
ApplyFull(got, rest, g) ==
    LET kept == IF SyncMode = "merge" THEN Hosts ELSE rest
        gone == IF SyncMode = "merge" /\ entry.present THEN rest ELSE {}
    IN  [NewEntry(got, g, g) EXCEPT
            !.host = [h \in Hosts |-> IF h \in gone THEN 0
                                      ELSE IF h \in got THEN g
                                      ELSE IF h \in kept THEN entry.host[h]
                                      ELSE 0]]

\* Scoped sync of an existing entry: only the hosts in `updates`.
ApplyScoped(updates, g) ==
    [entry EXCEPT !.host = [h \in Hosts |-> IF h \in updates THEN g
                                            ELSE entry.host[h]]]

\* apply_to_cache up to its first cache operation.  A host request updates
\* the requested hosts that were returned, and writes nothing if there are
\* none; a group request updates the members of the group.
FirstWrite(r, got, rest, members, g) ==
    LET updates == IF r.scope = "hosts" THEN r.targets \cap got
                                        ELSE members \cap got
    IN  CASE r.scope = "full" -> ApplyFull(got, rest, g)
          [] r.scope = "hosts" /\ updates = {} -> entry
          [] r.scope # "full" /\ ~entry.present /\ (r.scope = "group" \/ updates # {})
               -> NewEntry(got, g, 0)
          [] OTHER -> ApplyScoped(updates, g)

\* Faulty variant: only host requests are marked partial on a cold cache.
OwesMark_HostsOnly(r, got) ==
    ~entry.present /\ r.scope = "hosts" /\ r.targets \cap got # {}

\* A scoped sync that found no entry inserted the dataset as a complete
\* one and owes it mark_partial, in a second cache operation.
OwesMark(r, got) ==
    /\ ~entry.present
    /\ \/ r.scope = "group"
       \/ r.scope = "hosts" /\ r.targets \cap got # {}
-----------------------------------------------------------------------------

TypeOK ==
    /\ pc \in [Callers -> Steps]
    /\ req \in [Callers -> Requests]
    /\ seen \in [Callers -> Nat]
    /\ outcome \in [Callers -> Outcomes]
    /\ queue \in Seq(Callers)
    /\ holder \in Callers \cup {NoCaller}
    /\ fullSyncs \in Nat
    /\ entry \in Entries
    /\ claim \in Nat
    /\ health \in {"none", "ok", "failed"}
    /\ gid \in [Callers -> Nat]
    /\ started \in Nat
    /\ asks \in Nat
    /\ asked \in [Callers -> Nat]
    /\ okRuns \subseteq Nat
    /\ overtaken \in [Callers -> SUBSET Nat]

Init ==
    /\ pc = [c \in Callers |-> "idle"]
    /\ req = [c \in Callers |-> [scope |-> "full", targets |-> {}, origin |-> FALSE]]
    /\ seen = [c \in Callers |-> 0]
    /\ outcome = [c \in Callers |-> "none"]
    /\ queue = <<>>
    /\ holder = NoCaller
    /\ fullSyncs = 0
    /\ entry = NoEntry
    /\ claim = 0
    /\ health = "none"
    /\ gid = [c \in Callers |-> 0]
    /\ started = 0
    /\ asks = 0
    /\ asked = [c \in Callers |-> 0]
    /\ okRuns = {}
    /\ overtaken = [c \in Callers |-> {}]

Step(c, from, to) == pc[c] = from /\ pc' = [pc EXCEPT ![c] = to]

\* sync_source is called: full_syncs is read first ...
Ask(c, r) ==
    /\ asks < MaxAsks
    /\ Step(c, "idle", "asking")
    /\ req' = [req EXCEPT ![c] = r]
    /\ seen' = [seen EXCEPT ![c] = fullSyncs]
    /\ outcome' = [outcome EXCEPT ![c] = "none"]
    /\ asks' = asks + 1
    /\ asked' = [asked EXCEPT ![c] = started]
    /\ overtaken' = [overtaken EXCEPT ![c] = {}]
    /\ UNCHANGED <<queue, holder, fullSyncs, entry, claim, health, gid, started,
                   okRuns>>

\* Faulty variant: the counter is read once the caller is in the queue.
Queue_ReadsCounter(c) ==
    /\ Step(c, "asking", "queued")
    /\ queue' = Append(queue, c)
    /\ seen' = [seen EXCEPT ![c] = fullSyncs]
    /\ UNCHANGED <<req, outcome, holder, fullSyncs, entry, claim, health, gid,
                   started, asks, asked, okRuns, overtaken>>

\* ... and the caller joins the mutex's queue after it.
Queue(c) ==
    /\ Step(c, "asking", "queued")
    /\ queue' = Append(queue, c)
    /\ UNCHANGED <<req, seen, outcome, holder, fullSyncs, entry, claim, health,
                   gid, started, asks, asked, okRuns, overtaken>>

\* Faulty variant: no mutual exclusion between syncs of the source.
MayEnter_Unlocked(c) == pc[c] = "queued" /\ queue # <<>> /\ Head(queue) = c

\* The mutex is free and c is next in line.
MayEnter(c) == pc[c] = "queued" /\ holder = NoCaller /\ queue # <<>> /\ Head(queue) = c

\* A full sync was completed while c waited: answer from the cache, record
\* nothing, and let go of the mutex.
Coalesce(c) ==
    /\ MayEnter(c)
    /\ coalescable(req[c])
    /\ fullSyncs # seen[c]
    /\ Step(c, "queued", "idle")
    /\ outcome' = [outcome EXCEPT ![c] = "coalesced"]
    /\ queue' = Tail(queue)
    /\ UNCHANGED <<req, seen, holder, fullSyncs, entry, claim, health, gid,
                   started, asks, asked, okRuns, overtaken>>

MustGather(c) == ~(coalescable(req[c]) /\ fullSyncs # seen[c])

\* The host list or a credential could not be resolved: the connector never
\* runs, the failure is recorded.
RefuseEarly(c) ==
    /\ MayEnter(c)
    /\ MustGather(c)
    /\ Step(c, "queued", "idle")
    /\ outcome' = [outcome EXCEPT ![c] = "failed"]
    /\ queue' = Tail(queue)
    /\ health' = "failed"
    /\ UNCHANGED <<req, seen, holder, fullSyncs, entry, claim, gid, started,
                   asks, asked, okRuns, overtaken>>

\* The connector starts to run.
StartGather(c) ==
    /\ MayEnter(c)
    /\ MustGather(c)
    /\ Step(c, "queued", "gathering")
    /\ queue' = Tail(queue)
    /\ holder' = c
    /\ started' = started + 1
    /\ gid' = [gid EXCEPT ![c] = started + 1]
    /\ UNCHANGED <<req, seen, outcome, fullSyncs, entry, claim, health, asks,
                   asked, okRuns, overtaken>>

\* The connector answered in time: the advertised scope is recorded if
\* there is one, and the dataset is applied.
GatherOk(c, got, rest, members, advertised) ==
    /\ pc[c] = "gathering"
    /\ pc' = [pc EXCEPT ![c] = IF OwesMark(req[c], got) THEN "marking" ELSE "recording"]
    /\ claim' = IF advertised THEN gid[c] ELSE claim
    /\ entry' = FirstWrite(req[c], got, rest, members, gid[c])
    /\ UNCHANGED <<req, seen, outcome, queue, holder, fullSyncs, health, gid,
                   started, asks, asked, okRuns, overtaken>>

\* The second cache operation of a scoped sync on a cold cache.
MarkPartial(c) ==
    /\ Step(c, "marking", "recording")
    /\ entry' = [entry EXCEPT !.complete = FALSE]
    /\ UNCHANGED <<req, seen, outcome, queue, holder, fullSyncs, claim, health,
                   gid, started, asks, asked, okRuns, overtaken>>

\* Faulty variant: enrichment runs first, the outcome is left for later.
RecordSuccess_AfterEnrichment(c) ==
    /\ Step(c, "recording", "enriching")
    /\ UNCHANGED <<req, seen, outcome, queue, holder, fullSyncs, entry, claim,
                   health, gid, started, asks, asked, okRuns, overtaken>>

\* The outcome is recorded before enrichment, which awaits.
RecordSuccess(c) ==
    /\ Step(c, "recording", "enriching")
    /\ health' = "ok"
    /\ okRuns' = okRuns \cup {gid[c]}
    /\ UNCHANGED <<req, seen, outcome, queue, holder, fullSyncs, entry, claim,
                   gid, started, asks, asked, overtaken>>

\* The connector failed, or its timeout passed.
Fail(c) ==
    /\ Step(c, "gathering", "idle")
    /\ outcome' = [outcome EXCEPT ![c] = "failed"]
    /\ holder' = NoCaller
    /\ health' = "failed"
    /\ UNCHANGED <<req, seen, queue, fullSyncs, entry, claim, gid, started, asks,
                   asked, okRuns, overtaken>>

GatherError(c) == Fail(c)

\* Faulty variant: nothing bounds the connector.
GatherTimeout_Never(c) == FALSE

GatherTimeout(c) == Fail(c)

\* Faulty variant: any successful sync counts as a full one.
Return_CountsScoped(c) ==
    /\ Step(c, "enriching", "idle")
    /\ outcome' = [outcome EXCEPT ![c] = "ok"]
    /\ holder' = NoCaller
    /\ fullSyncs' = fullSyncs + 1
    /\ UNCHANGED <<req, seen, queue, entry, claim, health, gid, started, asks,
                   asked, okRuns, overtaken>>

\* The target's enrichers have run; the counter moves for a plain full sync
\* and the mutex is released.
Return(c) ==
    /\ Step(c, "enriching", "idle")
    /\ outcome' = [outcome EXCEPT ![c] = "ok"]
    /\ holder' = NoCaller
    /\ fullSyncs' = IF coalescable(req[c]) THEN fullSyncs + 1 ELSE fullSyncs
    /\ overtaken' = [d \in Callers |->
                        IF coalescable(req[c]) /\ pc[d] \in {"asking", "queued"}
                        THEN overtaken[d] \cup {gid[c]} ELSE overtaken[d]]
    /\ UNCHANGED <<req, seen, queue, entry, claim, health, gid, started, asks,
                   asked, okRuns>>

\* The future is dropped where it awaits: it leaves the queue, or its guard
\* releases the mutex.
RemoveFromQueue(c) ==
    LET at == CHOOSE i \in DOMAIN queue : queue[i] = c
    IN  [i \in 1 .. Len(queue) - 1 |-> IF i < at THEN queue[i] ELSE queue[i + 1]]

Drop(c) ==
    /\ pc[c] \in Awaiting
    /\ pc' = [pc EXCEPT ![c] = "idle"]
    /\ queue' = IF pc[c] = "queued" THEN RemoveFromQueue(c) ELSE queue
    /\ holder' = IF pc[c] = "queued" THEN holder ELSE NoCaller
    /\ UNCHANGED <<req, seen, outcome, fullSyncs, entry, claim, health, gid,
                   started, asks, asked, okRuns, overtaken>>

\* All the calls of a bounded behaviour have been made and answered.
Finished ==
    /\ asks = MaxAsks
    /\ \A c \in Callers : pc[c] = "idle"
    /\ UNCHANGED vars

Advance(c) ==
    \/ Queue(c) \/ Coalesce(c) \/ RefuseEarly(c) \/ StartGather(c)
    \/ MarkPartial(c) \/ RecordSuccess(c) \/ Return(c)

Next ==
    \/ \E c \in Callers :
        \/ \E r \in ValidRequests : Ask(c, r)
        \/ Advance(c)
        \/ \E got, rest, members \in SUBSET Hosts, advertised \in BOOLEAN :
              GatherOk(c, got, rest, members, advertised)
        \/ GatherError(c) \/ GatherTimeout(c)
        \/ Drop(c)
    \/ Finished

\* tokio runs a future that is ready, the connector's timeout fires, and the
\* enrichers (each under a timeout of its own) come to an end.  Nothing makes
\* a connector answer.
Fairness == \A c \in Callers : WF_vars(Advance(c)) /\ WF_vars(GatherTimeout(c))

Spec == Init /\ [][Next]_vars
FairSpec == Spec /\ Fairness

-----------------------------------------------------------------------------
(* Properties.                                                             *)

InQueue(q, c) == \E i \in DOMAIN q : q[i] = c

NoRepeat(q) == \A i, j \in DOMAIN q : q[i] = q[j] => i = j

\* One sync of the source is inside the mutex, it is its holder, and it is
\* the newest run; the queue holds exactly the waiting callers, once each.
\* (SyncCoordinator: "two syncs of the same source run one after the other".)
OneSyncAtATime ==
    /\ \A c \in Callers : pc[c] \in InSync <=> holder = c
    /\ \A c \in Callers : holder = c => gid[c] = started
    /\ \A c \in Callers : pc[c] = "queued" <=> InQueue(queue, c)
    /\ NoRepeat(queue)

\* What lets an older gather win is two syncs overlapping: a host that stays
\* in the entry never goes back to the data of a run that started earlier,
\* whatever the scopes, failures and dropped callers.
NoOlderGatherWins ==
    \A h \in Hosts : (entry.host[h] # 0 /\ entry'.host[h] # 0)
                        => entry.host[h] <= entry'.host[h]

NeverAnOlderGather == [][NoOlderGatherWins]_vars

\* Once the mutex is free, an entry that presents itself as a complete
\* gather of the source is one: scoped syncs on a cold cache, interrupted or
\* not, never pass for a full sync (CacheEntry::complete).
CompleteIsEarned ==
    (holder = NoCaller /\ entry.present /\ entry.complete) => entry.full # 0

\* Every run whose data is in the cache is recorded as a success, or is about
\* to be with no await in between: a caller that gives up during enrichment
\* finds its sync recorded as what it was.
LandedIsRecorded ==
    \A h \in Cached :
        \/ entry.host[h] \in okRuns
        \/ \E c \in Callers : gid[c] = entry.host[h] /\ pc[c] \in {"marking", "recording"}

\* A burst of plain full requests costs one more gather, not one each: no
\* caller gathers the whole source when a plain full sync was completed while
\* it waited.
BurstGathersOnce ==
    \A c \in Callers :
        (pc[c] \in InSync /\ coalescable(req[c])) => overtaken[c] = {}

\* A coalesced answer comes from an entry whose last full gather is at least
\* as new as the run that was the newest when the request began.
CoalescedNow(c) == outcome[c] # "coalesced" /\ outcome'[c] = "coalesced"

CoalescedIsCurrent ==
    [][\A c \in Callers : CoalescedNow(c) => entry.present /\ entry.full >= asked[c]]_vars

\* Every call is answered (or dropped): a connector that never answers runs
\* into its timeout, and the mutex is handed on in arrival order.
EveryCallEnds == \A c \in Callers : pc[c] # "idle" ~> pc[c] = "idle"

-----------------------------------------------------------------------------
(* What the comments and documents of the program say and the code does    *)
(* not do.                                                                 *)

\* "a sync that STARTED after its request began, which is everything it could
\* have asked for" (SyncCoordinator, SyncOutcome::coalesced).
CoalescedStartedAfterRequest ==
    [][\A c \in Callers : CoalescedNow(c) => entry.full > asked[c]]_vars

\* "the entry is marked partial, so it reports dataset_is_fresh: false until a
\* full sync lands" (docs/caching.md), at every moment.
PartialUntilFullSync == (entry.present /\ entry.complete) => entry.full # 0
=============================================================================
