-------------------------- MODULE TaskGenerations --------------------------
(***************************************************************************)
(* A configuration reload against running work: the supervisor replaces    *)
(* one generation of scheduler tasks by the next, the outgoing one drains, *)
(* and a pruner drops what it may have written back                        *)
(* (adapters/in/scheduler/mod.rs, application/config.rs).                  *)
(*                                                                         *)
(* A source's settings are a number, larger for newer settings and 0 when  *)
(* it is not configured; the cache holds the settings its data was         *)
(* gathered with.  Syncs of one source queue on its mutex, and a full sync *)
(* is answered by one that ended while it queued (SourceSync).             *)
(***************************************************************************)
EXTENDS Naturals, Sequences

CONSTANTS
    Sources,
    StopsInReload,  \* may the shutdown signal come while a reload is unnoticed
    MaxReloads,     \* bound on the reloads
    MaxRuns         \* bound on the runs

ASSUME TaskGenerationsAssumption ==
    StopsInReload \in BOOLEAN /\ {MaxReloads, MaxRuns} \subseteq Nat

VARIABLES
    config,         \* [Sources -> settings in force]
    cache,          \* [Sources -> settings the entry was gathered with]
    applying,       \* where the reload is: "no" | "listing" | "removing"
    bumps,          \* ReloadNotifier's counter
    noticed,        \* the value the supervisor has seen
    supervisor,     \* "spawning" | "waiting" | "returned"
    shutdown,       \* the shutdown signal was sent
    gen,            \* the running generation
    alive,          \* [Gens -> sources whose task has not returned]
    fallback,       \* [Gens -> the settings each task was spawned with]
    stopped,        \* generations told to stop
    pruner,         \* [Gens -> where the pruner of that generation is]
    known,          \* [droppers -> configured sources, as it read them]
    victims,        \* [droppers -> entries it is about to remove]
    queue,          \* [Sources -> runs queued on the mutex, oldest first]
    gathering,      \* sources whose first queued run has entered
    stray,          \* sources whose entry a request wrote after their removal
    runs,
    routed,         \* members a view's read has still to refresh
    panicked        \* that read found a member gone

dropping == <<known, victims>>
tasks == <<alive, fallback, stopped>>
supervising == <<supervisor, noticed, gen>>
syncing == <<queue, gathering, runs>>
store == <<cache, stray>>
reading == <<routed, panicked>>
vars == <<config, store, applying, bumps, shutdown, supervising, tasks, pruner, dropping, syncing,
          reading>>

Gens == 1 .. MaxReloads + 1
Http == 0
Apply == 0      \* the reload's own drop_unconfigured_entries

Configured == {s \in Sources : config[s] # 0}
Cached == {s \in Sources : cache[s] # 0}
Settings == 0 .. MaxReloads + 1
\* A run: who started it, with which settings, whether its source was gone
\* then, and whether a sync of it ended since.
Runs == [by : Gens \cup {Http}, settings : Settings, orphan : BOOLEAN, overtaken : BOOLEAN]

TypeOK ==
    /\ config \in [Sources -> Settings] /\ cache \in [Sources -> Settings]
    /\ applying \in {"no", "listing", "removing"}
    /\ noticed \in 0 .. bumps /\ bumps \in 0 .. MaxReloads
    /\ supervisor \in {"spawning", "waiting", "returned"} /\ shutdown \in BOOLEAN
    /\ gen \in 0 .. noticed + 1
    /\ alive \in [Gens -> SUBSET Sources] /\ fallback \in [Gens -> [Sources -> Settings]]
    /\ \A g \in Gens : g > gen => alive[g] = {}
    /\ stopped \subseteq 1 .. gen
    /\ pruner \in [Gens -> {"none", "awaiting", "listing", "removing", "done"}]
    /\ known \in [{Apply} \cup Gens -> SUBSET Sources]
    /\ victims \in [{Apply} \cup Gens -> SUBSET Sources]
    /\ queue \in [Sources -> Seq(Runs)]
    /\ gathering \subseteq {s \in Sources : queue[s] # <<>>}
    /\ stray \subseteq Cached
    /\ runs \in 0 .. MaxRuns
    /\ routed \subseteq Sources /\ panicked \in BOOLEAN

Init ==
    /\ \E conf \in SUBSET Sources : config = [s \in Sources |-> IF s \in conf THEN 1 ELSE 0]
    /\ cache = [s \in Sources |-> 0]
    /\ applying = "no" /\ bumps = 0 /\ noticed = 0 /\ supervisor = "spawning" /\ shutdown = FALSE
    /\ gen = 0 /\ stopped = {} /\ alive = [g \in Gens |-> {}]
    /\ fallback = [g \in Gens |-> [s \in Sources |-> 0]]
    /\ pruner = [g \in Gens |-> "none"]
    /\ known = [d \in {Apply} \cup Gens |-> {}] /\ victims = [d \in {Apply} \cup Gens |-> {}]
    /\ queue = [s \in Sources |-> <<>>] /\ gathering = {} /\ stray = {} /\ runs = 0
    /\ routed = {} /\ panicked = FALSE

-----------------------------------------------------------------------------
(* The reload, application::config::apply.                                 *)

\* drop_unconfigured_entries reads the configuration, lists the cache and
\* removes entry by entry; other threads run in between.
List(d) == victims' = [victims EXCEPT ![d] = Cached \ known[d]]

RemoveOne(d) ==
    \E s \in victims[d] :
        /\ cache' = [cache EXCEPT ![s] = 0]
        /\ stray' = stray \ {s}
        /\ victims' = [victims EXCEPT ![d] = @ \ {s}]

\* swap_config: each source keeps its settings, gets new ones or goes.
Swap ==
    /\ applying = "no" /\ bumps < MaxReloads /\ ~shutdown
    /\ config' \in {c \in [Sources -> {0, bumps + 2} \cup {config[s] : s \in Sources}] :
                       \A s \in Sources : c[s] \in {0, bumps + 2, config[s]}}
    /\ config' # config
    /\ applying' = "listing"
    /\ known' = [known EXCEPT ![Apply] = {s \in Sources : config'[s] # 0}]
    /\ UNCHANGED <<store, bumps, shutdown, supervising, tasks, pruner, victims, syncing, reading>>

ListStale ==
    /\ applying = "listing"
    /\ List(Apply)
    /\ applying' = "removing"
    /\ UNCHANGED <<config, store, bumps, shutdown, supervising, tasks, pruner, known, syncing,
                   reading>>

RemoveStale ==
    /\ applying = "removing" /\ RemoveOne(Apply)
    /\ UNCHANGED <<config, applying, bumps, shutdown, supervising, tasks, pruner, known, syncing,
                   reading>>

\* Last: the tasks restart against a state that is fully swapped.
BumpReload ==
    /\ applying = "removing" /\ victims[Apply] = {}
    /\ bumps' = bumps + 1
    /\ applying' = "no"
    /\ UNCHANGED <<config, store, shutdown, supervising, tasks, pruner, dropping, syncing, reading>>

-----------------------------------------------------------------------------
(* The supervisor.                                                         *)

Spawn ==
    /\ supervisor = "spawning" /\ ~shutdown
    /\ gen' = gen + 1
    /\ alive' = [alive EXCEPT ![gen + 1] = Configured]
    /\ fallback' = [fallback EXCEPT ![gen + 1] = config]
    /\ supervisor' = "waiting"
    /\ UNCHANGED <<config, store, applying, bumps, shutdown, noticed, stopped, pruner, dropping,
                   syncing, reading>>

\* Faulty variant: the outgoing generation is not told to stop.
Notice_WithoutStop ==
    /\ supervisor = "waiting" /\ bumps # noticed
    /\ noticed' = bumps
    /\ pruner' = [pruner EXCEPT ![gen] = "awaiting"]
    /\ supervisor' = "spawning"
    /\ UNCHANGED <<config, store, applying, bumps, shutdown, gen, tasks, dropping, syncing,
                   reading>>

\* Faulty variant: a reload is dropped while another one drains.
Notice_OnceDrained ==
    /\ supervisor = "waiting" /\ bumps # noticed
    /\ noticed' = bumps
    /\ IF \E g \in Gens : pruner[g] = "awaiting"
       THEN UNCHANGED <<stopped, pruner, supervisor>>
       ELSE /\ stopped' = stopped \cup {gen}
            /\ pruner' = [pruner EXCEPT ![gen] = "awaiting"]
            /\ supervisor' = "spawning"
    /\ UNCHANGED <<config, store, applying, bumps, shutdown, gen, alive, fallback, dropping,
                   syncing, reading>>

\* A reload: the generation is told to stop, and a pruner awaits it.
Notice ==
    /\ supervisor = "waiting" /\ bumps # noticed
    /\ noticed' = bumps
    /\ stopped' = stopped \cup {gen}
    /\ pruner' = [pruner EXCEPT ![gen] = "awaiting"]
    /\ supervisor' = "spawning"
    /\ UNCHANGED <<config, store, applying, bumps, shutdown, gen, alive, fallback, dropping,
                   syncing, reading>>

HandlesDone(g) == alive[g] = {}

PrunerReads(g) ==
    /\ pruner[g] = "awaiting" /\ HandlesDone(g)
    /\ pruner' = [pruner EXCEPT ![g] = "listing"]
    /\ known' = [known EXCEPT ![g] = Configured]
    /\ UNCHANGED <<config, store, applying, bumps, shutdown, supervising, tasks, victims, syncing,
                   reading>>

PrunerLists(g) ==
    /\ pruner[g] = "listing"
    /\ List(g)
    /\ pruner' = [pruner EXCEPT ![g] = "removing"]
    /\ UNCHANGED <<config, store, applying, bumps, shutdown, supervising, tasks, known, syncing,
                   reading>>

PrunerRemoves(g) ==
    /\ pruner[g] = "removing" /\ RemoveOne(g)
    /\ UNCHANGED <<config, applying, bumps, shutdown, supervising, tasks, pruner, known, syncing,
                   reading>>

PrunerEnds(g) ==
    /\ pruner[g] = "removing" /\ victims[g] = {}
    /\ pruner' = [pruner EXCEPT ![g] = "done"]
    /\ UNCHANGED <<config, store, applying, bumps, shutdown, supervising, tasks, dropping, syncing,
                   reading>>

InHttp(s) == \E i \in DOMAIN queue[s] : queue[s][i].by = Http

\* The signal is sent when the requests, a reload among them, are answered.
Shutdown ==
    /\ ~shutdown /\ shutdown' = TRUE
    /\ applying = "no" /\ routed = {} /\ \A s \in Sources : ~InHttp(s)
    /\ StopsInReload \/ (bumps = noticed /\ (supervisor = "waiting" \/ gen = 0))
    /\ UNCHANGED <<config, store, applying, bumps, supervising, tasks, pruner, dropping, syncing,
                   reading>>

StopAll ==
    /\ shutdown /\ supervisor = "waiting" /\ gen \notin stopped
    /\ stopped' = stopped \cup {gen}
    /\ UNCHANGED <<config, store, applying, bumps, shutdown, supervising, alive, fallback, pruner,
                   dropping, syncing, reading>>

\* The running generation and the draining ones.
Awaited == Gens

\* Everything is awaited, unless select! took a reload over the signal: at the
\* head of the loop the supervisor then returns, and what drains is left alone.
Return ==
    /\ shutdown
    /\ \/ supervisor = "spawning"
       \/ /\ supervisor = "waiting" /\ gen \in stopped
          /\ \A g \in Awaited : alive[g] = {} /\ pruner[g] \in {"none", "done"}
    /\ supervisor' = "returned"
    /\ UNCHANGED <<config, store, applying, bumps, shutdown, noticed, gen, tasks, pruner, dropping,
                   syncing, reading>>

-----------------------------------------------------------------------------
(* The runs.                                                               *)

InRun(g, s) == \E i \in DOMAIN queue[s] : queue[s][i].by = g

\* The mutex of a source is fair.
Ask(s, by, settings) ==
    /\ queue' = [queue EXCEPT ![s] = Append(@,
                    [by |-> by, settings |-> settings, orphan |-> config[s] = 0, overtaken |-> FALSE])]
    /\ runs < MaxRuns /\ runs' = runs + 1

\* Faulty variant: a task keeps the settings it was spawned with.
Resolved_AtSpawn(g, s) == fallback[g][s]

\* A task resolves its source anew, and takes the settings it was spawned with
\* when that source is gone.
Resolved(g, s) == IF config[s] # 0 THEN config[s] ELSE fallback[g][s]

\* A task may pick a tick over the stop signal.  Resolving and queueing have
\* no await between them.
StartTaskRun(g, s) ==
    /\ s \in alive[g] /\ ~InRun(g, s)
    /\ Ask(s, g, Resolved(g, s))
    /\ UNCHANGED <<config, store, applying, bumps, shutdown, supervising, tasks, pruner, dropping,
                   gathering, reading>>

StartHttpRun(s) ==
    /\ ~shutdown /\ config[s] # 0 /\ ~InHttp(s)
    /\ Ask(s, Http, config[s])
    /\ UNCHANGED <<config, store, applying, bumps, shutdown, supervising, tasks, pruner, dropping,
                   gathering, reading>>

\* The mutex is taken: gather, unless a full sync landed while this one waited.
Enter(s) ==
    /\ queue[s] # <<>> /\ s \notin gathering
    /\ ~Head(queue[s]).overtaken
    /\ gathering' = gathering \cup {s}
    /\ UNCHANGED <<config, store, applying, bumps, shutdown, supervising, tasks, pruner, dropping,
                   queue, runs, reading>>

Coalesce(s) ==
    /\ queue[s] # <<>> /\ s \notin gathering
    /\ Head(queue[s]).overtaken
    /\ queue' = [queue EXCEPT ![s] = Tail(@)]
    /\ UNCHANGED <<config, store, applying, bumps, shutdown, supervising, tasks, pruner, dropping,
                   gathering, runs, reading>>

Land(s) ==
    /\ s \in gathering
    /\ cache' = [cache EXCEPT ![s] = Head(queue[s]).settings]
    /\ stray' = IF Head(queue[s]).by = Http /\ config[s] = 0 THEN stray \cup {s} ELSE stray \ {s}
    /\ queue' = [queue EXCEPT ![s] = [i \in DOMAIN Tail(@) |-> [Tail(@)[i] EXCEPT !.overtaken = TRUE]]]
    /\ gathering' = gathering \ {s}
    /\ UNCHANGED <<config, applying, bumps, shutdown, supervising, tasks, pruner, dropping, runs,
                   reading>>

Fail(s) ==
    /\ s \in gathering
    /\ queue' = [queue EXCEPT ![s] = Tail(@)]
    /\ gathering' = gathering \ {s}
    /\ UNCHANGED <<config, store, applying, bumps, shutdown, supervising, tasks, pruner, dropping,
                   runs, reading>>

StopTask(g, s) ==
    /\ g \in stopped /\ s \in alive[g] /\ ~InRun(g, s)
    /\ alive' = [alive EXCEPT ![g] = @ \ {s}]
    /\ UNCHANGED <<config, store, applying, bumps, shutdown, supervising, fallback, stopped, pruner,
                   dropping, syncing, reading>>

-----------------------------------------------------------------------------
(* A view's read that refreshes the members of the hosts it names.         *)

\* The members come from the configuration the read began with.
ViewRoutes ==
    /\ ~shutdown /\ routed = {} /\ ~panicked
    /\ routed' \in SUBSET Configured \ {{}}
    /\ UNCHANGED <<config, store, applying, bumps, shutdown, supervising, tasks, pruner, dropping,
                   syncing, panicked>>

\* One after another they are looked up in the configuration in force, and
\* their refreshes awaited: a member that has gone in between is a panic.
ViewRefreshes(s) ==
    /\ s \in routed
    /\ IF config[s] = 0 THEN routed' = {} /\ panicked' = TRUE
                        ELSE routed' = routed \ {s} /\ UNCHANGED panicked
    /\ UNCHANGED <<config, store, applying, bumps, shutdown, supervising, tasks, pruner, dropping,
                   syncing>>

Next ==
    \/ Swap \/ ListStale \/ RemoveStale \/ BumpReload
    \/ Spawn \/ Notice \/ Shutdown \/ StopAll \/ Return
    \/ \E g \in Gens :
          \/ PrunerReads(g) \/ PrunerLists(g) \/ PrunerRemoves(g) \/ PrunerEnds(g)
          \/ \E s \in Sources : StartTaskRun(g, s) \/ StopTask(g, s)
    \/ ViewRoutes
    \/ \E s \in Sources : ViewRefreshes(s) \/ StartHttpRun(s) \/ Enter(s) \/ Coalesce(s)
                          \/ Land(s) \/ Fail(s)

Spec == Init /\ [][Next]_vars

\* Runs end (every gather has a timeout) and nothing that runs stops halfway.
\* Nobody is bound to reload, to shut down or to start a run.
Fairness ==
    /\ WF_vars(ListStale) /\ WF_vars(RemoveStale) /\ WF_vars(BumpReload)
    /\ WF_vars(Spawn) /\ WF_vars(Notice) /\ WF_vars(StopAll) /\ WF_vars(Return)
    /\ \A g \in Gens :
          /\ WF_vars(PrunerReads(g)) /\ WF_vars(PrunerLists(g))
          /\ WF_vars(PrunerRemoves(g)) /\ WF_vars(PrunerEnds(g))
          /\ \A s \in Sources : WF_vars(StopTask(g, s))
    /\ \A s \in Sources : WF_vars(Enter(s)) /\ WF_vars(Coalesce(s)) /\ WF_vars(Land(s) \/ Fail(s))

FairSpec == Spec /\ Fairness

-----------------------------------------------------------------------------
(* Properties.                                                             *)

Drained(g) == alive[g] = {} /\ pruner[g] \in {"none", "done"}

\* Nothing is under way: every reload was noticed, what it replaced has
\* drained and was pruned, and no run is queued.
Quiet ==
    /\ applying = "no" /\ bumps = noticed /\ supervisor = "waiting"
    /\ \A g \in Gens \ {gen} : Drained(g)
    /\ \A s \in Sources : queue[s] = <<>>

\* A source that was removed keeps no data once the work its reload found
\* under way is over, whichever way reloads and late runs interleave: but for
\* what a request that outlived the reload wrote, which nothing prunes.
RemovedKeepsNoData == Quiet => Cached \subseteq Configured \cup stray

\* The tasks that run are the ones of the configuration in force: no reload,
\* however it falls into a restart of the tasks, leaves old settings running.
TasksFollowConfig == (applying = "no" /\ bumps = noticed /\ supervisor = "waiting")
                        => fallback[gen] = config

\* Data of older settings never replaces data of newer ones, although the
\* outgoing and the incoming generation, and requests, sync the same source.
\* Only a task that found its source removed, and fell back on what it was
\* spawned with, can put older data back.
OlderSettingsNeverWin ==
    [][\A s \in Sources : cache'[s] # 0 /\ cache'[s] < cache[s] => Head(queue[s]).orphan]_vars

\* A shutdown ends, and drains every generation before it does.
ShutdownReturns == shutdown ~> (supervisor = "returned")

ReturnsDrained == supervisor = "returned" => \A g \in Gens : Drained(g)

\* However reloads, runs and the shutdown interleave, generations leave neither
\* data nor settings nor tasks behind.
GenerationsLeaveNothing ==
    TypeOK /\ RemovedKeepsNoData /\ TasksFollowConfig /\ ReturnsDrained

-----------------------------------------------------------------------------
(* What the docs and comments say and the code does not do.                *)

\* "a removed source keeps no data, here or after a reload" (docs/caching.md).
RemovedLosesItsData == Quiet => Cached \subseteq Configured

\* "changed ones restart on the new settings" (docs/config-api.md): a run that
\* is answered without gathering finds data of its settings, or newer.
AnsweredWithItsSettings ==
    [][\A s \in Sources :
          (queue[s] # <<>> /\ Head(queue[s]).overtaken /\ queue'[s] = Tail(queue[s]) /\ cache[s] # 0)
              => cache[s] >= Head(queue[s]).settings]_vars

\* "Members come from the snapshot's sources, so the id is always configured"
\* (http/views.rs:648): it is looked up in a later configuration.
ViewReadsFindTheirMembers == ~panicked

\* "Removes every cache entry whose source is not configured"
\* (drop_unconfigured_entries): and no other.
OnlyTheUnconfiguredGo == [][\A s \in Sources : (cache[s] # 0 /\ cache'[s] = 0) => config[s] = 0]_vars
=============================================================================
