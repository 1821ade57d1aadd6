----------------------------- MODULE Enrichment -----------------------------
(***************************************************************************)
(* Enrichers at work on one target while it is synced, edited and evicted  *)
(* (application/enrich.rs).  A run has no lock over the target:            *)
(*   script        get the entry, give it to the script, merge what comes  *)
(*                 back into whatever is cached by then, or give up        *)
(*   declarative   get the target, get the source, merge the fields        *)
(* Runs come from each enricher's own task and, inside every successful    *)
(* sync of the target and under the lock of its syncs, one after another   *)
(* in the order of their ids.  A reader past its budget drops that sync.   *)
(*                                                                         *)
(* A host's variables are the instant they were gathered or written, `at`, *)
(* and the value of one field that every declarative enricher claims: who  *)
(* wrote it and which version of the source it is from.                    *)
(***************************************************************************)
EXTENDS Naturals

CONSTANTS
    Hosts,
    Enrichers,   \* the enrichers of the target, by id
    Scripts,     \* those that run a script; the others are declarative
    Tasks,       \* the enrichers with an interval or a schedule
    Known,       \* hosts the declarative enrichers' source has
    NoData,      \* nothing cached, or no such field
    MaxTime,     \* bound: the clock, which each write of gathered data moves
    MaxVersions, \* bound: syncs of the source of the declarative enrichers
    MaxEvictions \* bound: evictions of the target

\* Who runs enrichers: the task of each, and the sync that re-applies all.
Sync == 0
Runners == Tasks \cup {Sync}

ASSUME EnrichmentAssumption ==
    /\ Enrichers \subseteq Nat \ {Sync} /\ Scripts \subseteq Enrichers
    /\ Tasks \subseteq Enrichers /\ Known \subseteq Hosts
    /\ {MaxTime, MaxVersions, MaxEvictions} \subseteq Nat

VARIABLES
    now,       \* the clock
    target,    \* the target's entry, or NoData: [vars, stamps]
    other,     \* the version of the source's entry, or NoData
    run,       \* what each runner is doing
    due,       \* enrichers the sync in progress has still to apply
    evictions, \* evictions so far
    overtaken, \* history: hosts on which a run wrote what had been replaced
    alone,     \* history: the sync in progress shared the target with nobody
    did        \* history: the step just made

\* What a step was is read only by the properties of that step.
state == <<now, target, other, run, due, evictions, overtaken, alone>>
vars == <<state, did>>

-----------------------------------------------------------------------------

Idle == [at |-> "idle"]
Field == [by : Enrichers, version : 1 .. MaxVersions]
Gathered(at) == [at |-> at, field |-> NoData]
Entry(hosts, at) == [vars |-> [h \in hosts |-> Gathered(at)], stamps |-> [h \in hosts |-> at]]
Cached == target # NoData
Present == IF Cached THEN DOMAIN target.vars ELSE {}

Over(f, g) == [h \in DOMAIN f \cup DOMAIN g |-> IF h \in DOMAIN g THEN g[h] ELSE f[h]]
Less(f, gone) == [h \in DOMAIN f \ gone |-> f[h]]

Variables == [at : 0 .. MaxTime, field : Field \cup {NoData}]
EntriesOf(hosts) == [vars : [hosts -> Variables], stamps : [hosts -> 0 .. MaxTime]]
Entries == UNION {EntriesOf(hosts) : hosts \in SUBSET Hosts}

\* What is absent is told from what is there.
ASSUME NoDataAssumption == NoData \notin Entries \cup Field \cup 1 .. MaxVersions

Init ==
    /\ now = 0
    /\ target = NoData
    /\ other = NoData
    /\ run = [r \in Runners |-> Idle]
    /\ due = {}
    /\ evictions = 0
    /\ overtaken = {}
    /\ alone = FALSE
    /\ did = "none"

-----------------------------------------------------------------------------
(* Runs.                                                                   *)

\* The sync runs those that are due in the order of their ids; a task runs
\* its own enricher.
First == CHOOSE e \in due : \A d \in due : e <= d
Running(r) == IF r = Sync THEN First ELSE r
MayRun(r) == r = Sync => due # {}

\* Faulty variant: the sync forgets the enrichers left when one has failed.
Done_StopsAtFailure(r, outcome) ==
    /\ run' = [run EXCEPT ![r] = Idle]
    /\ due' = IF r # Sync THEN due ELSE IF outcome = "failed" THEN {} ELSE due \ {First}
    /\ did' = outcome

\* run_enricher returns: the sync goes on with the next one whatever happened.
Done(r, outcome) ==
    /\ run' = [run EXCEPT ![r] = Idle]
    /\ due' = IF r = Sync THEN due \ {First} ELSE due
    /\ did' = outcome

\* The target is taken from the cache; when it is not there the run fails.
Begin(r) ==
    /\ run[r] = Idle /\ MayRun(r)
    /\ IF Cached
       THEN /\ run' = [run EXCEPT ![r] =
                          [at   |-> IF Running(r) \in Scripts THEN "script" ELSE "fields",
                           read |-> target]]
            /\ did' = "begin"
            /\ UNCHANGED due
       ELSE Done(r, "failed")
    /\ alone' = (alone /\ r = Sync)
    /\ UNCHANGED <<now, target, other, evictions, overtaken>>

\* The declarative enricher takes its source; without one it fails.
ReadOther(r) ==
    /\ run[r].at = "fields"
    /\ IF other # NoData
       THEN /\ run' = [run EXCEPT ![r] = [at |-> "merge", hosts |-> DOMAIN @.read.vars \cap Known,
                                          version |-> other]]
            /\ did' = "read"
            /\ UNCHANGED due
       ELSE Done(r, "failed")
    /\ UNCHANGED <<now, target, other, evictions, overtaken, alone>>

\* merge_hostvar_fields: the field of the hosts that are still there.
MergeFields(r, fresh) ==
    [vars   |-> [h \in DOMAIN target.vars |->
                   IF h \in fresh
                   THEN [at    |-> target.vars[h].at,
                         field |-> [by |-> Running(r), version |-> run[r].version]]
                   ELSE target.vars[h]],
     stamps |-> target.stamps]

\* Written under the lock of the shard; an entry that has gone is no error.
Merge(r) ==
    /\ run[r].at = "merge"
    /\ target' = IF Cached THEN MergeFields(r, run[r].hosts) ELSE NoData
    /\ Done(r, "merged")
    /\ UNCHANGED <<now, other, evictions, overtaken, alone>>

\* Faulty variant: a host the script returns is dated as gathered now.
MergeScript_Restamps(answer, removed) ==
    [vars   |-> Less(Over(target.vars, answer), removed),
     stamps |-> Less(Over(target.stamps, [h \in DOMAIN answer |-> now]), removed)]

\* merge_enrichment: the maps replace those there are, a host that was not
\* there is dated now, and remove_hosts leave.
MergeScript(answer, removed) ==
    [vars   |-> Less(Over(target.vars, answer), removed),
     stamps |-> Less(Over([h \in DOMAIN answer |-> now], target.stamps), removed)]

\* The script's answer: maps it read, hosts of its own, hosts to remove.
Answer(r, touched, introduced, removed) ==
    LET read == run[r].read
        answer == [h \in touched \cup introduced |->
                      IF h \in touched THEN read.vars[h] ELSE Gathered(now)]
    IN  /\ run[r].at = "script"
        /\ touched \subseteq DOMAIN read.vars
        /\ introduced \cap DOMAIN read.vars = {}
        /\ removed \cap (touched \cup introduced) = {}
        /\ target' = IF Cached THEN MergeScript(answer, removed) ELSE NoData
        /\ overtaken' = IF Cached
              THEN overtaken \cup {h \in touched :
                                    h \notin Present \/ read.vars[h].at < target.vars[h].at}
              ELSE overtaken
        /\ Done(r, "merged")
        /\ UNCHANGED <<now, other, evictions, alone>>

\* The script fails, or runs past its timeout and is killed: nothing of it
\* is written.
Fail(r) ==
    /\ run[r].at = "script"
    /\ Done(r, "failed")
    /\ UNCHANGED <<now, target, other, evictions, overtaken, alone>>

-----------------------------------------------------------------------------
(* What else writes the target.                                            *)

Syncing == due # {}

\* A sync of the target lands: its dataset replaces the entry, and the
\* enrichers are re-applied before the sync lets the next one in.
Gather(hosts) ==
    /\ ~Syncing
    /\ now < MaxTime
    /\ now' = now + 1
    /\ target' = Entry(hosts, now + 1)
    /\ due' = Enrichers
    /\ overtaken' = {}
    /\ alone' = (other # NoData /\ \A r \in Runners : run[r] = Idle)
    /\ did' = "gather"
    /\ UNCHANGED <<other, run, evictions>>

\* The reader the sync was for gives up while a script runs.
GiveUp ==
    /\ run[Sync].at = "script"
    /\ run' = [run EXCEPT ![Sync] = Idle]
    /\ due' = {}
    /\ alone' = FALSE
    /\ did' = "give_up"
    /\ UNCHANGED <<now, target, other, evictions, overtaken>>

\* A host written, or deleted, by hand.
Put(h) ==
    /\ Cached /\ now < MaxTime
    /\ now' = now + 1
    /\ target' = [vars   |-> Over(target.vars, [x \in {h} |-> Gathered(now + 1)]),
                  stamps |-> Over(target.stamps, [x \in {h} |-> now + 1])]
    /\ overtaken' = overtaken \ {h}
    /\ alone' = FALSE
    /\ did' = "put"
    /\ UNCHANGED <<other, run, due, evictions>>

Delete(h) ==
    /\ h \in Present /\ now < MaxTime
    /\ now' = now + 1
    /\ target' = [vars |-> Less(target.vars, {h}), stamps |-> Less(target.stamps, {h})]
    /\ overtaken' = overtaken \ {h}
    /\ alone' = FALSE
    /\ did' = "delete"
    /\ UNCHANGED <<other, run, due, evictions>>

Evict ==
    /\ Cached /\ evictions < MaxEvictions
    /\ evictions' = evictions + 1
    /\ target' = NoData
    /\ overtaken' = {}
    /\ alone' = FALSE
    /\ did' = "evict"
    /\ UNCHANGED <<now, other, run, due>>

\* The source of the declarative enrichers is synced.
SyncOther ==
    /\ LET version == IF other = NoData THEN 1 ELSE other + 1
       IN  version <= MaxVersions /\ other' = version
    /\ did' = "other"
    /\ UNCHANGED <<now, target, run, due, evictions, overtaken, alone>>

-----------------------------------------------------------------------------

Tick ==
    /\ now < MaxTime
    /\ now' = now + 1
    /\ did' = "tick"
    /\ UNCHANGED <<target, other, run, due, evictions, overtaken, alone>>

Step(r) ==
    \/ Begin(r) \/ ReadOther(r) \/ Merge(r) \/ Fail(r)
    \/ \E touched, introduced, removed \in SUBSET Hosts : Answer(r, touched, introduced, removed)

Next ==
    \/ \E r \in Runners : Step(r)
    \/ \E hosts \in SUBSET Hosts : Gather(hosts)
    \/ \E h \in Hosts : Put(h) \/ Delete(h)
    \/ GiveUp \/ Evict \/ SyncOther \/ Tick

\* A task runs its enricher again and again, a sync goes through what is due,
\* and a script is answered for or killed.
Spec == Init /\ [][Next]_vars /\ \A r \in Runners : WF_vars(Step(r))

-----------------------------------------------------------------------------
(* Properties.                                                             *)

TypeOK ==
    /\ now \in 0 .. MaxTime
    /\ target \in Entries \cup {NoData}
    /\ other \in 1 .. MaxVersions \cup {NoData}
    /\ \A r \in Runners : run[r].at \in {"idle", "fields", "merge", "script"}
    /\ due \subseteq Enrichers
    /\ run[Sync] # Idle => Syncing

\* "Enrichment must never disguise stale data as fresh" (docs/enrichers.md):
\* a host's timestamp is no later than the instant its variables were
\* gathered, whoever enriched it and whatever was synced or edited while the
\* enricher ran, except on hosts where the answer of a run has overtaken what
\* it was computed from (see NeverDisguised).
HonestUnlessOvertaken ==
    /\ TypeOK
    /\ \A h \in Present \ overtaken : target.stamps[h] <= target.vars[h].at

\* When a sync returns every host the enrichers' source knows carries the
\* field again, and the enricher with the last id has written it: two that
\* claim one key are settled by their ids, if no task came in between.
SyncReturns == did' \in {"merged", "failed"} /\ Syncing /\ due' = {}

LastId == CHOOSE e \in Enrichers \ Scripts : \A d \in Enrichers \ Scripts : d <= e

ReturnsEnriched ==
    (SyncReturns /\ alone) =>
        \A h \in DOMAIN target'.vars \cap Known :
            target'.vars[h].field # NoData /\ target'.vars[h].field.by = LastId

SyncReturnsEnriched == [][ReturnsEnriched]_vars

\* Whatever scripts, syncs, edits and evictions did to it, a host the
\* enrichers' source knows gets the current value of the field again and
\* again: the tasks repair the writes that come without a re-apply.
FieldIsCurrent(h) ==
    (h \in Present /\ other # NoData) =>
        target.vars[h].field # NoData /\ target.vars[h].field.version = other

FieldsCatchUp == \A h \in Known : []<>FieldIsCurrent(h)

\* Enrichment reaches what is cached: at once after a sync, in the end after
\* any other write.
DataIsEnriched == SyncReturnsEnriched /\ FieldsCatchUp

-----------------------------------------------------------------------------
(* What the documents say and the code does not do.                        *)

\* The same without exception: a script that answers after a sync puts the
\* old variables under the new timestamp, and a host the sync dropped comes
\* back dated now.
NeverDisguised == \A h \in Present : target.stamps[h] <= target.vars[h].at

\* "the winner is the stable id order - a documented rule rather than
\* whichever task finished last" (docs/enrichers.md): two tasks settle it in
\* the order they finish.
IdOrderWins ==
    [][(did' = "merged" /\ due' = {} /\ \A r \in Runners : run'[r] = Idle) =>
          \A h \in Hosts \cap (IF target' = NoData THEN {} ELSE DOMAIN target'.vars) :
              target'.vars[h].field # NoData => target'.vars[h].field.by = LastId]_vars

\* "A target missing from the cache counts as a failure".
SuccessWrote == [][did' = "merged" => Cached]_vars
=============================================================================
