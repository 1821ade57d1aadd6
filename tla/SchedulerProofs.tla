--------------------------- MODULE SchedulerProofs ---------------------------
(***************************************************************************)
(* Proofs about TaskGenerations for any set of sources and any bounds on   *)
(* the reloads and the runs, and about ScheduledTasks for any tasks, any   *)
(* sources they read and any bounds on the failures and the panics.        *)
(***************************************************************************)
EXTENDS TaskGenerations, ScheduledTasks, WellFoundedInduction, TLAPS

\* The newest settings anything can hold.
Newest == IF applying = "no" THEN bumps + 1 ELSE bumps + 2

\* Reloads are bounded, and the supervisor's steps keep pace with them.
Reloads ==
    /\ applying # "no" => bumps < MaxReloads
    /\ supervisor = "spawning" => gen <= noticed
    /\ supervisor = "waiting" => gen > 0
    /\ supervisor = "returned" => shutdown

\* Every generation but the one the supervisor watches has its pruner, and a
\* pruner past its wait finds no task of its generation.
Watched ==
    /\ \A g \in Gens : g > gen => pruner[g] = "none"
    /\ \A g \in Gens : g < gen => pruner[g] # "none"
    /\ (supervisor = "spawning" /\ gen > 0) => pruner[gen] # "none"
    /\ supervisor = "waiting" => pruner[gen] = "none"
    /\ \A g \in Gens : pruner[g] \in {"listing", "removing", "done"} => alive[g] = {}

\* A run of a task keeps that task alive, and a task has settings.
TasksOwnTheirRuns ==
    /\ \A s \in Sources : \A i \in DOMAIN queue[s] :
          /\ queue[s][i].by # Http => s \in alive[queue[s][i].by]
          /\ queue[s][i].settings # 0
    /\ \A g \in Gens : \A s \in alive[g] : fallback[g][s] # 0

\* A pruner that will come to s.
Prunes(g, s) ==
    \/ pruner[g] = "awaiting"
    \/ pruner[g] = "listing" /\ s \notin known[g]
    \/ pruner[g] = "removing" /\ s \in victims[g]

\* Data of a removed source is in the sight of a pruner, or of a reload that
\* will bring one.
RemovedIsInSight ==
    \A s \in Cached \ (Configured \cup stray) :
        \/ applying # "no" \/ bumps # noticed \/ supervisor = "returned"
        \/ \E g \in Gens : Prunes(g, s)

\* Nothing holds settings newer than the newest.
NothingIsNewer ==
    \A s \in Sources :
        /\ config[s] <= Newest /\ cache[s] <= Newest
        /\ \A g \in Gens : fallback[g][s] <= Newest
        /\ \A i \in DOMAIN queue[s] : queue[s][i].settings <= Newest

\* A source's runs q are in order with the settings in force and those of the
\* data held: while the source is configured nothing is newer than conf, and
\* a run that is no orphan is as new as the cache and every run before it.
InOrder(q, conf, held) ==
    /\ conf # 0 => /\ held <= conf
                   /\ \A i \in DOMAIN q : q[i].settings <= conf
    /\ \A j \in DOMAIN q : ~q[j].orphan =>
          /\ held <= q[j].settings
          /\ \A i \in 1 .. j - 1 : q[i].settings <= q[j].settings

SettingsAreOrdered == \A s \in Sources : InOrder(queue[s], config[s], cache[s])

\* Where the signal waits for the reload, a supervisor that spawns after it has
\* nothing to drain.
StopsBetweenReloads ==
    ~StopsInReload =>
        /\ shutdown => applying = "no" /\ bumps = noticed /\ (supervisor = "spawning" => gen = 0)
        /\ ReturnsDrained

IInv ==
    /\ TypeOK /\ Reloads /\ Watched /\ TasksOwnTheirRuns /\ RemovedIsInSight
    /\ TasksFollowConfig /\ NothingIsNewer /\ SettingsAreOrdered /\ StopsBetweenReloads

-----------------------------------------------------------------------------
(* The queue of a source.                                                  *)

\* r is q without its oldest run; what a run remembers of syncs may change.
Shortened(q, r) ==
    /\ r \in Seq(Runs) /\ Len(r) = Len(q) - 1
    /\ DOMAIN r = 1 .. Len(q) - 1 /\ DOMAIN q = 1 .. Len(q) /\ Len(q) \in Nat
    /\ \A i \in DOMAIN r : /\ r[i].by = q[i + 1].by
                           /\ r[i].settings = q[i + 1].settings
                           /\ r[i].orphan = q[i + 1].orphan

\* A queue whose oldest run is over, with or without data.
LEMMA Shortens ==
    ASSUME NEW q \in Seq(Runs), q # <<>>
    PROVE  /\ Shortened(q, Tail(q))
           /\ Shortened(q, [i \in DOMAIN Tail(q) |-> [Tail(q)[i] EXCEPT !.overtaken = TRUE]])
           /\ Head(q) = q[1] /\ 1 \in DOMAIN q /\ q[1] \in Runs
  <1> DEFINE t == Tail(q)
             r == [i \in DOMAIN t |-> [t[i] EXCEPT !.overtaken = TRUE]]
  <1>1. /\ Len(q) \in Nat /\ Len(q) > 0 /\ DOMAIN q = 1 .. Len(q)
        /\ \A i \in 1 .. Len(q) : q[i] \in Runs
        /\ Head(q) = q[1]
    OBVIOUS
  <1>2. /\ t \in Seq(Runs) /\ Len(t) = Len(q) - 1 /\ DOMAIN t = 1 .. Len(q) - 1
        /\ \A i \in 1 .. Len(q) - 1 : t[i] = q[i + 1]
    BY <1>1
  <1> HIDE DEF t
  <1>3. \A i \in 1 .. Len(q) - 1 : t[i] \in Runs
    BY <1>1, <1>2
  <1>4. \A i \in 1 .. Len(q) - 1 :
          /\ r[i] \in Runs
          /\ r[i].by = t[i].by /\ r[i].settings = t[i].settings /\ r[i].orphan = t[i].orphan
    BY <1>2, <1>3 DEF Runs
  <1>5. r \in Seq(Runs) /\ Len(r) = Len(q) - 1 /\ DOMAIN r = 1 .. Len(q) - 1
    <2>1. Len(q) - 1 \in Nat /\ DOMAIN r = 1 .. Len(q) - 1
      BY <1>1, <1>2
    <2>2. r \in [1 .. Len(q) - 1 -> Runs]
      BY <1>4, <2>1
    <2> HIDE DEF r
    <2>3. QED
      BY <2>1, <2>2
  <1> HIDE DEF r
  <1>6. Shortened(q, t) /\ Shortened(q, r)
    BY <1>1, <1>2, <1>4, <1>5 DEF Shortened
  <1>7. 1 \in DOMAIN q /\ q[1] \in Runs
    BY <1>1
  <1>8. QED
    BY <1>1, <1>6, <1>7, Zenon DEF t, r

\* A queue that a run joins.
LEMMA Lengthens ==
    ASSUME NEW q \in Seq(Runs), NEW run \in Runs
    PROVE  /\ Append(q, run) \in Seq(Runs) /\ Append(q, run) # <<>>
           /\ Len(q) \in Nat /\ DOMAIN q = 1 .. Len(q)
           /\ DOMAIN Append(q, run) = 1 .. Len(q) + 1
           /\ \A i \in 1 .. Len(q) : Append(q, run)[i] = q[i]
           /\ Append(q, run)[Len(q) + 1] = run
  OBVIOUS

\* Every run in a queue is one.
LEMMA QueuedRuns ==
    ASSUME TypeOK, NEW s \in Sources, NEW i \in DOMAIN queue[s]
    PROVE  /\ queue[s][i] \in Runs /\ queue[s][i].by \in Gens \cup {Http}
           /\ queue[s][i].settings \in Nat
  <1>1. queue[s] \in Seq(Runs)
    BY DEF TypeOK
  <1>2. queue[s][i] \in Runs
    BY <1>1
  <1>3. QED
    BY <1>2, TaskGenerationsAssumption DEF Runs, Settings

\* A run joins the queue of s with the settings in force, or with those its
\* task was spawned with when s is gone; nothing else happens.
Joins(s, run) ==
    /\ queue' = [queue EXCEPT ![s] = Append(@, run)]
    /\ run.settings # 0 /\ run.settings \in {config[s]} \cup {fallback[g][s] : g \in Gens}
    /\ run.by # Http => s \in alive[run.by]
    /\ run.orphan <=> config[s] = 0
    /\ config[s] # 0 => run.settings = config[s]
    /\ runs' \in 0 .. MaxRuns
    /\ UNCHANGED <<config, store, applying, bumps, shutdown, supervising, tasks, pruner, dropping,
                   gathering, reading>>

\* The runs of a task, which is alive and was spawned with settings.
LEMMA TaskRunJoins ==
    ASSUME TypeOK, TasksOwnTheirRuns, NEW s \in Sources, NEW g \in Gens, StartTaskRun(g, s)
    PROVE  \E run \in Runs : Joins(s, run)
  <1> DEFINE run == [by |-> g, settings |-> Resolved(g, s),
                     orphan |-> config[s] = 0, overtaken |-> FALSE]
  <1>1. /\ s \in alive[g] /\ Resolved(g, s) \in Settings /\ Resolved(g, s) # 0
        /\ Resolved(g, s) \in {config[s]} \cup {fallback[h][s] : h \in Gens}
        /\ config[s] # 0 => Resolved(g, s) = config[s]
    BY DEF StartTaskRun, Resolved, TypeOK, TasksOwnTheirRuns
  <1>2. run \in Runs
    BY <1>1 DEF Runs
  <1>3. runs' \in 0 .. MaxRuns
    BY TaskGenerationsAssumption DEF StartTaskRun, Ask, TypeOK
  <1>4. queue' = [queue EXCEPT ![s] = Append(@, run)]
    BY <1>2 DEF StartTaskRun, Ask
  <1>5. Joins(s, run)
    BY <1>1, <1>3, <1>4 DEF Joins, StartTaskRun
  <1>6. QED
    BY <1>2, <1>5

\* The runs of requests, which look their source up first.
LEMMA HttpRunJoins ==
    ASSUME TypeOK, NEW s \in Sources, StartHttpRun(s)
    PROVE  \E run \in Runs : Joins(s, run)
  <1> DEFINE run == [by |-> Http, settings |-> config[s],
                     orphan |-> config[s] = 0, overtaken |-> FALSE]
  <1>1. config[s] \in Settings /\ config[s] # 0
    BY DEF StartHttpRun, TypeOK
  <1>2. run \in Runs
    BY <1>1 DEF Runs
  <1>3. runs' \in 0 .. MaxRuns
    BY TaskGenerationsAssumption DEF StartHttpRun, Ask, TypeOK
  <1>4. queue' = [queue EXCEPT ![s] = Append(@, run)]
    BY <1>2 DEF StartHttpRun, Ask
  <1>5. Joins(s, run)
    BY <1>1, <1>3, <1>4 DEF Joins, StartHttpRun
  <1>6. QED
    BY <1>2, <1>5

\* The oldest run of s is over; its data is cached or not.
Leaves(s) ==
    /\ queue[s] # <<>> /\ Head(queue[s]) = queue[s][1] /\ 1 \in DOMAIN queue[s]
    /\ Shortened(queue[s], queue'[s])
    /\ queue' = [queue EXCEPT ![s] = queue'[s]]
    /\ cache' \in {cache, [cache EXCEPT ![s] = queue[s][1].settings]}
    /\ UNCHANGED <<config, alive, fallback, applying, bumps>>

\* Every end of a run, a coalesced, a failed or a landed one.
LEMMA RunLeaves ==
    ASSUME TypeOK, NEW s \in Sources, Coalesce(s) \/ Land(s) \/ Fail(s)
    PROVE  Leaves(s)
  <1>1. queue[s] \in Seq(Runs) /\ queue[s] # <<>> /\ queue \in [Sources -> Seq(Runs)]
    BY DEF Coalesce, Land, Fail, TypeOK
  <1>2. Head(queue[s]) = queue[s][1] /\ 1 \in DOMAIN queue[s]
    BY <1>1, Shortens
  <1>3. Shortened(queue[s], queue'[s]) /\ queue' = [queue EXCEPT ![s] = queue'[s]]
    <2>1. CASE Coalesce(s) \/ Fail(s)
      BY <1>1, <2>1, Shortens DEF Coalesce, Fail
    <2>2. CASE Land(s)
      BY <1>1, <2>2, Shortens DEF Land
    <2>3. QED
      BY <2>1, <2>2
  <1>4. /\ cache' \in {cache, [cache EXCEPT ![s] = queue[s][1].settings]}
        /\ UNCHANGED <<config, alive, fallback, applying, bumps>>
    BY <1>2 DEF Coalesce, Land, Fail, store, tasks
  <1>5. QED
    BY <1>1, <1>2, <1>3, <1>4 DEF Leaves

-----------------------------------------------------------------------------
(* Each part of the invariant, kept by every step.                         *)

\* Type correctness: the reloads in flight bound the settings and generations,
\* and a run that lands brings settings, so a stray entry is a cached one.
LEMMA TypingKept ==
    ASSUME TypeOK, Reloads, TasksOwnTheirRuns, [Next]_vars
    PROVE  TypeOK'
  <1> USE DEF TypeOK, Cached, store, dropping, tasks, supervising, syncing, reading
  <1>1. CASE Swap
    <2>1. config' \in [Sources -> Settings]
      <3>1. bumps + 2 \in Settings /\ 0 \in Settings
        BY <1>1, TaskGenerationsAssumption DEF Swap, Reloads, Settings
      <3>2. \A s \in Sources : config'[s] \in {0, bumps + 2, config[s]}
        BY <1>1 DEF Swap
      <3>3. config' \in [Sources -> {0, bumps + 2} \cup {config[s] : s \in Sources}]
        BY <1>1 DEF Swap
      <3>4. {0, bumps + 2} \cup {config[s] : s \in Sources} \subseteq Settings
        BY <3>1
      <3>5. QED
        BY <3>3, <3>4
    <2>2. known' \in [{Apply} \cup Gens -> SUBSET Sources]
      <3>1. {s \in Sources : config'[s] # 0} \in SUBSET Sources
        OBVIOUS
      <3> DEFINE k == {s \in Sources : config'[s] # 0}
      <3> HIDE DEF k
      <3>2. known' = [known EXCEPT ![Apply] = k]
        BY <1>1 DEF Swap, k
      <3>3. QED
        BY <3>1, <3>2 DEF k
    <2>3. applying' = "listing"
      BY <1>1 DEF Swap
    <2>4. QED
      BY <1>1, <2>1, <2>2, <2>3 DEF Swap
  <1>2. CASE ListStale
    BY <1>2 DEF ListStale, List
  <1>3. CASE RemoveStale
    <2> PICK s \in victims[Apply] : /\ cache' = [cache EXCEPT ![s] = 0]
                               /\ stray' = stray \ {s}
                               /\ victims' = [victims EXCEPT ![Apply] = @ \ {s}]
      BY <1>3 DEF RemoveStale, RemoveOne
    <2>1. cache' \in [Sources -> Settings] /\ victims' \in [{Apply} \cup Gens -> SUBSET Sources]
      BY TaskGenerationsAssumption DEF Settings
    <2>2. stray' \subseteq Cached'
      BY DEF Cached
    <2>3. QED
      BY <1>3, <2>1, <2>2 DEF RemoveStale
  <1>4. CASE BumpReload
    <2>1. bumps' \in 0 .. MaxReloads /\ noticed' \in 0 .. bumps'
      BY <1>4, TaskGenerationsAssumption DEF BumpReload, Reloads
    <2>2. QED
      BY <1>4, <2>1 DEF BumpReload
  <1>5. CASE Spawn
    <2>1. /\ gen' \in 0 .. noticed' + 1 /\ gen + 1 \in Gens /\ gen' = gen + 1
          /\ stopped' \subseteq 1 .. gen'
      BY <1>5, TaskGenerationsAssumption DEF Spawn, Reloads, Gens
    <2>2. /\ alive' \in [Gens -> SUBSET Sources]
          /\ \A g \in Gens : g > gen' => alive'[g] = {}
      BY <1>5, <2>1 DEF Spawn, Configured, Gens
    <2>3. fallback' \in [Gens -> [Sources -> Settings]]
      BY <1>5, <2>1 DEF Spawn
    <2>4. QED
      BY <1>5, <2>1, <2>2, <2>3 DEF Spawn
  <1>6. CASE Notice
    <2>1. /\ noticed' \in 0 .. bumps' /\ gen' \in 0 .. noticed' + 1
          /\ stopped' \subseteq 1 .. gen'
      BY <1>6, TaskGenerationsAssumption DEF Notice, Reloads
    <2>2. pruner' \in [Gens -> {"none", "awaiting", "listing", "removing", "done"}]
      BY <1>6 DEF Notice
    <2>3. QED
      BY <1>6, <2>1, <2>2 DEF Notice
  <1>7. CASE Shutdown
    BY <1>7 DEF Shutdown
  <1>8. CASE StopAll
    BY <1>8 DEF StopAll, Reloads
  <1>9. CASE Return
    BY <1>9 DEF Return
  <1>10. ASSUME NEW g \in Gens, PrunerReads(g)
        PROVE  TypeOK'
    BY <1>10 DEF PrunerReads, Configured
  <1>11. ASSUME NEW g \in Gens, PrunerLists(g)
        PROVE  TypeOK'
    BY <1>11 DEF PrunerLists, List
  <1>12. ASSUME NEW g \in Gens, PrunerRemoves(g)
        PROVE  TypeOK'
    <2> PICK s \in victims[g] : /\ cache' = [cache EXCEPT ![s] = 0]
                               /\ stray' = stray \ {s}
                               /\ victims' = [victims EXCEPT ![g] = @ \ {s}]
      BY <1>12 DEF PrunerRemoves, RemoveOne
    <2>1. cache' \in [Sources -> Settings] /\ victims' \in [{Apply} \cup Gens -> SUBSET Sources]
      BY TaskGenerationsAssumption DEF Settings
    <2>2. stray' \subseteq Cached'
      BY DEF Cached
    <2>3. QED
      BY <1>12, <2>1, <2>2 DEF PrunerRemoves
  <1>13. ASSUME NEW g \in Gens, PrunerEnds(g)
        PROVE  TypeOK'
    BY <1>13 DEF PrunerEnds
  <1>14. ASSUME NEW s \in Sources, NEW run \in Runs, Joins(s, run)
        PROVE  TypeOK'
    <2> DEFINE r == Append(queue[s], run)
    <2>1. r \in Seq(Runs) /\ r # <<>> /\ queue' = [queue EXCEPT ![s] = r]
      BY <1>14, Lengthens DEF Joins
    <2> HIDE DEF r
    <2>2. /\ queue' \in [Sources -> Seq(Runs)]
          /\ gathering' \subseteq {d \in Sources : queue'[d] # <<>>}
      <3>1. gathering' = gathering
        BY <1>14 DEF Joins
      <3>2. QED
        BY <2>1, <3>1
    <2>3. QED
      BY <1>14, <2>2 DEF Joins
  <1>15. ASSUME NEW g \in Gens, NEW s \in Sources, StopTask(g, s)
        PROVE  TypeOK'
    BY <1>15 DEF StopTask
  <1>16. CASE ViewRoutes
    <2>1. routed' \subseteq Sources
      BY <1>16 DEF ViewRoutes, Configured
    <2>2. QED
      BY <1>16, <2>1 DEF ViewRoutes
  <1>17. ASSUME NEW s \in Sources, ViewRefreshes(s)
        PROVE  TypeOK'
    BY <1>17 DEF ViewRefreshes
  <1>18. ASSUME NEW s \in Sources, Enter(s)
        PROVE  TypeOK'
    BY <1>18 DEF Enter
  <1>19. ASSUME NEW s \in Sources, Coalesce(s)
        PROVE  TypeOK'
    BY <1>19 DEF Coalesce
  <1>20. ASSUME NEW s \in Sources, Land(s)
        PROVE  TypeOK'
    <2> DEFINE q == queue[s]
               r == [i \in DOMAIN Tail(q) |-> [Tail(q)[i] EXCEPT !.overtaken = TRUE]]
    <2>1. q \in Seq(Runs) /\ q # <<>>
      BY <1>20 DEF Land
    <2>2. r \in Seq(Runs) /\ Head(q) \in Runs /\ Head(q).settings # 0
      BY <1>20, <2>1, Shortens DEF Shortened, TasksOwnTheirRuns
    <2>3. queue' = [queue EXCEPT ![s] = r]
      BY <1>20 DEF Land
    <2>4. /\ cache' = [cache EXCEPT ![s] = Head(q).settings] /\ gathering' = gathering \ {s}
          /\ stray' \subseteq stray \cup {s}
      BY <1>20 DEF Land
    <2>5. UNCHANGED <<config, applying, bumps, shutdown, supervising, tasks, pruner, dropping, runs,
                      reading>>
      BY <1>20 DEF Land
    <2> HIDE DEF q, r
    <2>6. /\ queue' \in [Sources -> Seq(Runs)]
          /\ gathering' \subseteq {d \in Sources : queue'[d] # <<>>}
      BY <2>2, <2>3, <2>4
    <2>7. cache' \in [Sources -> Settings] /\ stray' \subseteq Cached'
      BY <2>2, <2>4, TaskGenerationsAssumption DEF Runs, Settings
    <2>8. QED
      BY <2>5, <2>6, <2>7
  <1>21. ASSUME NEW s \in Sources, Fail(s)
        PROVE  TypeOK'
    BY <1>21 DEF Fail
  <1>22. CASE UNCHANGED vars
    BY <1>22 DEF vars
  <1>23. QED
    BY <1>1, <1>2, <1>3, <1>4, <1>5, <1>6, <1>7, <1>8, <1>9, <1>10, <1>11, <1>12, <1>13, <1>14,
       <1>15, <1>16, <1>17, <1>18, <1>19, <1>20, <1>21, <1>22, TaskRunJoins, HttpRunJoins
       DEF Next

\* The supervisor sees a reload before it spawns the generation that follows.
LEMMA ReloadsKept ==
    ASSUME TypeOK, Reloads, [Next]_vars
    PROVE  Reloads'
  <1> USE DEF Reloads
  <1>1. CASE UNCHANGED <<applying, bumps, noticed, supervisor, gen, shutdown>>
    BY <1>1
  <1>2. CASE Swap
    BY <1>2 DEF Swap, supervising
  <1>3. CASE ListStale
    BY <1>3 DEF ListStale, supervising
  <1>4. CASE BumpReload
    BY <1>4 DEF BumpReload, supervising
  <1>5. CASE Spawn
    BY <1>5 DEF Spawn, TypeOK
  <1>6. CASE Notice
    BY <1>6 DEF Notice, TypeOK
  <1>7. CASE Shutdown
    BY <1>7 DEF Shutdown, supervising
  <1>8. CASE Return
    BY <1>8 DEF Return
  <1>9. QED
    BY <1>1, <1>2, <1>3, <1>4, <1>5, <1>6, <1>7, <1>8 DEF Next, vars, store, dropping,
       tasks, supervising, syncing, reading, RemoveStale, StopAll, PrunerReads, PrunerLists,
       PrunerRemoves, PrunerEnds, StartTaskRun, StopTask, ViewRoutes, ViewRefreshes,
       StartHttpRun, Enter, Coalesce, Land, Fail

\* A generation gets its pruner when it is replaced, and the pruner waits for
\* its tasks.
LEMMA WatchedKept ==
    ASSUME TypeOK, Reloads, Watched, [Next]_vars
    PROVE  Watched'
  <1> USE DEF Watched
  <1>1. CASE UNCHANGED <<gen, supervisor, pruner, alive>>
    BY <1>1
  <1>2. CASE Spawn
    <2>1. gen + 1 \in Gens /\ gen \in Nat
      BY <1>2, TaskGenerationsAssumption DEF Spawn, TypeOK, Reloads, Gens
    <2>2. QED
      BY <1>2, <2>1 DEF Spawn, TypeOK, Reloads, Gens
  <1>3. CASE Notice
    <2>1. gen \in Gens /\ gen \in Nat
      BY <1>3, TaskGenerationsAssumption DEF Notice, TypeOK, Reloads, Gens
    <2>2. QED
      BY <1>3, <2>1 DEF Notice, TypeOK, Gens
  <1>4. CASE Return
    BY <1>4 DEF Return, tasks
  <1>5. ASSUME NEW g \in Gens, PrunerReads(g)
        PROVE  Watched'
    BY <1>5 DEF PrunerReads, TypeOK, supervising, tasks, HandlesDone
  <1>6. ASSUME NEW g \in Gens, PrunerLists(g)
        PROVE  Watched'
    BY <1>6 DEF PrunerLists, TypeOK, supervising, tasks, HandlesDone
  <1>7. ASSUME NEW g \in Gens, PrunerEnds(g)
        PROVE  Watched'
    BY <1>7 DEF PrunerEnds, TypeOK, supervising, tasks, HandlesDone
  <1>8. ASSUME NEW g \in Gens, NEW s \in Sources, StopTask(g, s)
        PROVE  Watched'
    BY <1>8 DEF StopTask, TypeOK, supervising
  <1>9. QED
    BY <1>1, <1>2, <1>3, <1>4, <1>5, <1>6, <1>7, <1>8 DEF Next, vars, store, dropping,
       tasks, supervising, syncing, reading, Swap, ListStale, RemoveStale, BumpReload,
       Shutdown, StopAll, PrunerRemoves, StartTaskRun, ViewRoutes, ViewRefreshes,
       StartHttpRun, Enter, Coalesce, Land, Fail

\* A configuration swapped in while tasks start brings another restart.
LEMMA TasksFollowConfigKept ==
    ASSUME TypeOK, Reloads, TasksFollowConfig, [Next]_vars
    PROVE  TasksFollowConfig'
  <1> USE DEF TasksFollowConfig
  <1>1. CASE UNCHANGED <<applying, bumps, noticed, supervisor, gen, fallback, config>>
    BY <1>1
  <1>2. CASE Swap
    BY <1>2 DEF Swap
  <1>3. CASE ListStale
    BY <1>3 DEF ListStale, supervising, tasks
  <1>4. CASE BumpReload
    BY <1>4 DEF BumpReload, TypeOK, supervising
  <1>5. CASE Spawn
    <2>1. gen + 1 \in Gens /\ gen \in Nat
      BY <1>5, TaskGenerationsAssumption DEF Spawn, TypeOK, Reloads, Gens
    <2>2. QED
      BY <1>5, <2>1 DEF Spawn, TypeOK
  <1>6. CASE Notice
    BY <1>6 DEF Notice
  <1>7. CASE Return
    BY <1>7 DEF Return
  <1>8. QED
    BY <1>1, <1>2, <1>3, <1>4, <1>5, <1>6, <1>7 DEF Next, vars, store, dropping, tasks,
       supervising, syncing, reading, RemoveStale, Shutdown, StopAll, PrunerReads,
       PrunerLists, PrunerRemoves, PrunerEnds, StartTaskRun, StopTask, ViewRoutes,
       ViewRefreshes, StartHttpRun, Enter, Coalesce, Land, Fail

\* A run that ends leaves the queue in order, whether its data was cached or not.
LEMMA ShorterStaysInOrder ==
    ASSUME NEW q \in Seq(Runs), NEW r, Shortened(q, r), q # <<>>,
           NEW conf \in Nat, NEW held \in Nat, InOrder(q, conf, held)
    PROVE  InOrder(r, conf, held) /\ InOrder(r, conf, q[1].settings)
  <1>1. \A i \in DOMAIN q : q[i].settings \in Nat
    <2>1. \A i \in DOMAIN q : q[i] \in Runs
      OBVIOUS
    <2>2. QED
      BY <2>1, TaskGenerationsAssumption DEF Runs, Settings
  <1>2. 1 \in DOMAIN q
    BY Shortens
  <1> DEFINE n == Len(q)
  <1>3. /\ n \in Nat /\ DOMAIN q = 1 .. n /\ DOMAIN r = 1 .. n - 1
        /\ \A i \in 1 .. n - 1 : /\ r[i].settings = q[i + 1].settings
                                 /\ r[i].orphan = q[i + 1].orphan
    BY DEF Shortened
  <1> HIDE DEF n
  <1>4. ASSUME conf # 0
        PROVE  /\ held <= conf /\ q[1].settings <= conf
               /\ \A i \in DOMAIN r : r[i].settings <= conf
    <2>1. held <= conf /\ \A i \in DOMAIN q : q[i].settings <= conf
      BY <1>4 DEF InOrder
    <2>2. \A i \in 1 .. n - 1 : i + 1 \in DOMAIN q
      BY <1>3
    <2>3. QED
      BY <1>2, <1>3, <2>1, <2>2
  <1>5. ASSUME NEW j \in DOMAIN r, ~r[j].orphan
        PROVE  /\ held <= r[j].settings /\ q[1].settings <= r[j].settings
               /\ \A i \in 1 .. j - 1 : r[i].settings <= r[j].settings
    <2>1. j + 1 \in DOMAIN q /\ ~q[j + 1].orphan /\ q[j + 1].settings = r[j].settings
      BY <1>3, <1>5
    <2>2. /\ held <= q[j + 1].settings
          /\ \A i \in 1 .. j : q[i].settings <= q[j + 1].settings
      BY <2>1, <1>3 DEF InOrder
    <2>3. \A i \in 1 .. j - 1 : i \in DOMAIN r /\ i + 1 \in 1 .. j
      BY <1>3
    <2>4. QED
      BY <1>2, <1>3, <2>1, <2>2, <2>3
  <1>6. QED
    BY <1>4, <1>5 DEF InOrder

\* A run that starts with the settings in force joins a queue in order.
LEMMA LongerStaysInOrder ==
    ASSUME NEW q \in Seq(Runs), NEW run \in Runs,
           NEW conf \in Nat, NEW held \in Nat, InOrder(q, conf, held),
           run.orphan <=> conf = 0, conf # 0 => run.settings = conf
    PROVE  InOrder(Append(q, run), conf, held)
  <1> DEFINE r == Append(q, run)
             n == Len(q)
  <1>1. /\ n \in Nat /\ DOMAIN q = 1 .. n /\ DOMAIN r = 1 .. n + 1
        /\ \A i \in 1 .. n : r[i] = q[i]
        /\ r[n + 1] = run
    BY Lengthens
  <1> HIDE DEF r, n
  <1>2. conf # 0 => held <= conf /\ \A i \in DOMAIN r : r[i].settings <= conf
    BY <1>1 DEF InOrder
  <1>3. ASSUME NEW j \in DOMAIN r, ~r[j].orphan
        PROVE  /\ held <= r[j].settings
               /\ \A i \in 1 .. j - 1 : r[i].settings <= r[j].settings
    <2>1. CASE j = n + 1
      BY <1>1, <1>2, <1>3, <2>1
    <2>2. CASE j \in 1 .. n
      BY <1>1, <1>3, <2>2 DEF InOrder
    <2>3. QED
      BY <2>1, <2>2, <1>1
  <1>4. QED
    BY <1>2, <1>3 DEF InOrder, r

\* Only a live task queues a run, and it ends after its run.
LEMMA TasksOwnTheirRunsKept ==
    ASSUME TypeOK, Reloads, TasksOwnTheirRuns, [Next]_vars
    PROVE  TasksOwnTheirRuns'
  <1>1. CASE UNCHANGED <<queue, alive, fallback>>
    BY <1>1 DEF TasksOwnTheirRuns
  <1>2. CASE Spawn
    <2>1. gen + 1 \in Gens /\ gen \in Nat /\ alive[gen + 1] = {}
      BY <1>2, TaskGenerationsAssumption DEF Spawn, TypeOK, Reloads, Gens
    <2>2. /\ \A g \in Gens : alive[g] \subseteq alive'[g]
          /\ \A g \in Gens : \A s \in alive'[g] : fallback'[g][s] # 0
      BY <1>2, <2>1 DEF Spawn, TypeOK, Configured, TasksOwnTheirRuns
    <2>3. \A s \in Sources : \A i \in DOMAIN queue[s] : queue[s][i].by \in Gens \cup {Http}
      BY QueuedRuns
    <2>4. queue' = queue
      BY <1>2 DEF Spawn, syncing
    <2>5. QED
      BY <2>2, <2>3, <2>4 DEF TasksOwnTheirRuns
  <1>3. ASSUME NEW g \in Gens, NEW s \in Sources, StopTask(g, s)
        PROVE  TasksOwnTheirRuns'
    <2>1. /\ alive' = [alive EXCEPT ![g] = @ \ {s}] /\ ~InRun(g, s)
          /\ UNCHANGED <<queue, fallback>>
      BY <1>3 DEF StopTask, syncing
    <2>2. \A d \in Sources : \A i \in DOMAIN queue[d] :
             queue[d][i].by # Http => queue[d][i].by \in Gens /\ (queue[d][i].by = g => d # s)
      <3>1. \A d \in Sources : \A i \in DOMAIN queue[d] : queue[d][i].by \in Gens \cup {Http}
        BY QueuedRuns
      <3>2. QED
        BY <2>1, <3>1 DEF InRun
    <2>3. QED
      BY <2>1, <2>2 DEF TasksOwnTheirRuns, TypeOK
  <1>4. ASSUME NEW s \in Sources, NEW run \in Runs, Joins(s, run)
        PROVE  TasksOwnTheirRuns'
    <2> DEFINE r == Append(queue[s], run)
    <2>1. /\ queue[s] \in Seq(Runs) /\ queue \in [Sources -> Seq(Runs)]
          /\ queue' = [queue EXCEPT ![s] = r] /\ UNCHANGED <<alive, fallback>>
      BY <1>4 DEF TypeOK, Joins, store, tasks
    <2>2. /\ Len(queue[s]) \in Nat /\ DOMAIN queue[s] = 1 .. Len(queue[s])
          /\ DOMAIN r = 1 .. Len(queue[s]) + 1
          /\ \A i \in 1 .. Len(queue[s]) : r[i] = queue[s][i]
          /\ r[Len(queue[s]) + 1] = run
      BY <2>1, Lengthens
    <2> HIDE DEF r
    <2>3. \A i \in DOMAIN r : /\ r[i].by # Http => s \in alive[r[i].by]
                              /\ r[i].settings # 0
      BY <1>4, <2>2 DEF TasksOwnTheirRuns, Joins
    <2>4. QED
      BY <2>1, <2>3 DEF TasksOwnTheirRuns
  <1>5. ASSUME NEW s \in Sources, Leaves(s)
        PROVE  TasksOwnTheirRuns'
    <2> DEFINE r == queue'[s]
    <2>1. /\ Shortened(queue[s], r) /\ queue' = [queue EXCEPT ![s] = r]
          /\ queue \in [Sources -> Seq(Runs)] /\ 1 \in DOMAIN queue[s]
          /\ UNCHANGED <<alive, fallback>>
      BY <1>5 DEF Leaves, TypeOK
    <2> HIDE DEF r
    <2>2. \A i \in DOMAIN r : i + 1 \in DOMAIN queue[s]
      BY <2>1 DEF Shortened
    <2>3. \A i \in DOMAIN r : /\ r[i].by # Http => s \in alive[r[i].by]
                              /\ r[i].settings # 0
      BY <2>1, <2>2 DEF Shortened, TasksOwnTheirRuns
    <2>4. QED
      BY <2>1, <2>3 DEF TasksOwnTheirRuns
  <1>6. QED
    BY <1>1, <1>2, <1>3, <1>4, <1>5, TaskRunJoins, HttpRunJoins, RunLeaves DEF Next, vars,
       store, dropping, tasks, supervising, syncing, reading, Swap, ListStale, RemoveStale,
       BumpReload, Notice, Shutdown, StopAll, Return, PrunerReads, PrunerLists,
       PrunerRemoves, PrunerEnds, ViewRoutes, ViewRefreshes, Enter

\* What a late run writes back for a removed source is in sight of a pruner:
\* its task is alive, so its generation is the running one, with a reload still
\* to be noticed, or its pruner still waits.
LEMMA RemovedIsInSightKept ==
    ASSUME TypeOK, Reloads, Watched, TasksOwnTheirRuns, TasksFollowConfig, RemovedIsInSight,
           [Next]_vars
    PROVE  RemovedIsInSight'
  <1>1. CASE UNCHANGED <<config, cache, stray, applying, bumps, noticed, supervisor, pruner, known,
                          victims>>
    BY <1>1 DEF RemovedIsInSight, Cached, Configured, Prunes
  <1>2. CASE Swap
    <2>1. applying' # "no"
      BY <1>2 DEF Swap
    <2>2. QED
      BY <2>1 DEF RemovedIsInSight
  <1>3. CASE ListStale
    <2>1. applying' # "no"
      BY <1>3 DEF ListStale
    <2>2. QED
      BY <2>1 DEF RemovedIsInSight
  <1>4. CASE RemoveStale
    <2>1. applying' # "no"
      BY <1>4 DEF RemoveStale
    <2>2. QED
      BY <2>1 DEF RemovedIsInSight
  <1>5. CASE BumpReload
    <2>1. bumps' # noticed'
      BY <1>5 DEF BumpReload, TypeOK, supervising
    <2>2. QED
      BY <2>1 DEF RemovedIsInSight
  <1>6. CASE Spawn
    <2>1. /\ UNCHANGED <<config, cache, stray, applying, bumps, noticed, pruner, known, victims>>
          /\ supervisor = "spawning"
      BY <1>6 DEF Spawn, store, dropping
    <2>2. QED
      BY <2>1 DEF RemovedIsInSight, Cached, Configured, Prunes
  <1>7. CASE Notice
    <2>1. gen \in Gens /\ pruner'[gen] = "awaiting"
      BY <1>7, TaskGenerationsAssumption DEF Notice, TypeOK, Reloads, Gens
    <2>2. QED
      BY <2>1 DEF RemovedIsInSight, Prunes
  <1>8. CASE Return
    <2>1. supervisor' = "returned"
      BY <1>8 DEF Return
    <2>2. QED
      BY <2>1 DEF RemovedIsInSight
  <1>9. ASSUME NEW g \in Gens, PrunerReads(g)
        PROVE  RemovedIsInSight'
    <2>1. UNCHANGED <<config, cache, stray, applying, bumps, noticed, supervisor, victims>>
      BY <1>9 DEF PrunerReads, store, supervising, dropping
    <2>2. \A s \in Cached \ Configured : \A h \in Gens : Prunes(h, s) => Prunes(h, s)'
      BY <1>9, <2>1 DEF PrunerReads, Prunes, TypeOK
    <2>3. QED
      BY <2>1, <2>2 DEF RemovedIsInSight, Cached, Configured
  <1>10. ASSUME NEW g \in Gens, PrunerLists(g)
        PROVE  RemovedIsInSight'
    <2>1. UNCHANGED <<config, cache, stray, applying, bumps, noticed, supervisor, known>>
      BY <1>10 DEF PrunerLists, store, supervising, dropping
    <2>2. \A s \in Cached \ Configured : \A h \in Gens : Prunes(h, s) => Prunes(h, s)'
      BY <1>10, <2>1 DEF PrunerLists, List, Prunes, TypeOK
    <2>3. QED
      BY <2>1, <2>2 DEF RemovedIsInSight, Cached, Configured
  <1>11. ASSUME NEW g \in Gens, PrunerRemoves(g)
        PROVE  RemovedIsInSight'
    <2> PICK e \in victims[g] : /\ cache' = [cache EXCEPT ![e] = 0]
                                /\ stray' = stray \ {e}
                                /\ victims' = [victims EXCEPT ![g] = @ \ {e}]
      BY <1>11 DEF PrunerRemoves, RemoveOne
    <2>1. UNCHANGED <<config, applying, bumps, noticed, supervisor, pruner, known>>
      BY <1>11 DEF PrunerRemoves, supervising
    <2>2. /\ cache \in [Sources -> Settings] /\ victims \in [{Apply} \cup Gens -> SUBSET Sources]
          /\ e \in Sources
      BY DEF TypeOK
    <2>3. \A s \in Sources : cache'[s] # 0 => s # e /\ cache[s] # 0
      BY <2>2
    <2>4. \A h \in Gens : \A s \in Sources \ {e} : s \in victims[h] => s \in victims'[h]
      BY <2>2
    <2>5. QED
      BY <2>1, <2>3, <2>4 DEF RemovedIsInSight, Cached, Configured, Prunes
  <1>12. ASSUME NEW g \in Gens, PrunerEnds(g)
        PROVE  RemovedIsInSight'
    <2>1. UNCHANGED <<config, cache, stray, applying, bumps, noticed, supervisor, known, victims>>
      BY <1>12 DEF PrunerEnds, store, supervising, dropping
    <2>2. \A s \in Cached \ Configured : \A h \in Gens : Prunes(h, s) => Prunes(h, s)'
      BY <1>12, <2>1 DEF PrunerEnds, Prunes, TypeOK
    <2>3. QED
      BY <2>1, <2>2 DEF RemovedIsInSight, Cached, Configured
  <1>13. ASSUME NEW s \in Sources, Land(s)
        PROVE  RemovedIsInSight'
    <2> DEFINE run == Head(queue[s])
    <2>1. queue[s] \in Seq(Runs) /\ queue[s] # <<>>
      BY <1>13 DEF Land, TypeOK
    <2>2. /\ run = queue[s][1] /\ 1 \in DOMAIN queue[s] /\ run.by \in Gens \cup {Http}
      BY <2>1, Shortens, QueuedRuns
    <2>3. /\ UNCHANGED <<config, applying, bumps, noticed, supervisor, pruner, known, victims>>
          /\ cache' = [cache EXCEPT ![s] = run.settings]
          /\ stray' = IF run.by = Http /\ config[s] = 0 THEN stray \cup {s} ELSE stray \ {s}
      BY <1>13 DEF Land, supervising, dropping
    <2>4. run.by # Http => s \in alive[run.by]
      BY <2>2 DEF TasksOwnTheirRuns
    <2> HIDE DEF run
    <2>5. ASSUME run.by \in Gens, config[s] = 0
          PROVE  \/ applying # "no" \/ bumps # noticed \/ supervisor = "returned"
                 \/ pruner[run.by] = "awaiting"
      <3>1. run.by # Http
        BY <2>5 DEF Gens, Http
      <3>2. s \in alive[run.by] /\ fallback[run.by][s] # 0
        BY <2>4, <2>5, <3>1 DEF TasksOwnTheirRuns
      <3>3. run.by <= gen /\ pruner[run.by] \in {"none", "awaiting"}
        BY <2>5, <3>2 DEF TypeOK, Watched, Gens
      <3>4. CASE run.by < gen
        BY <2>5, <3>3, <3>4 DEF Watched
      <3>5. CASE run.by = gen /\ supervisor = "waiting"
        BY <2>5, <3>2, <3>5 DEF TasksFollowConfig
      <3>6. CASE run.by = gen /\ supervisor = "spawning"
        BY <2>5, <3>3, <3>6 DEF Watched, Gens
      <3>7. QED
        BY <2>5, <3>3, <3>4, <3>5, <3>6 DEF TypeOK, Gens
    <2>6. \A d \in Sources \ {s} : cache'[d] = cache[d] /\ (d \in stray' <=> d \in stray)
      BY <2>3 DEF TypeOK
    <2>7. ASSUME s \in Cached' \ (Configured' \cup stray')
          PROVE  config[s] = 0 /\ run.by \in Gens
      BY <2>2, <2>3, <2>7 DEF Configured
    <2>8. QED
      BY <2>3, <2>5, <2>6, <2>7 DEF RemovedIsInSight, Cached, Configured, Prunes
  <1>14. QED
    BY <1>1, <1>2, <1>3, <1>4, <1>5, <1>6, <1>7, <1>8, <1>9, <1>10, <1>11, <1>12, <1>13 DEF
       Next, vars, store, dropping, tasks, supervising, syncing, reading, Shutdown, StopAll,
       StartTaskRun, StopTask, ViewRoutes, ViewRefreshes, StartHttpRun, Enter, Coalesce,
       Fail

\* Nothing but a reload brings newer settings.
LEMMA NothingIsNewerKept ==
    ASSUME TypeOK, TasksOwnTheirRuns, NothingIsNewer, [Next]_vars
    PROVE  NothingIsNewer'
  <1>1. CASE UNCHANGED <<config, cache, fallback, queue, applying, bumps>>
    BY <1>1 DEF NothingIsNewer, Newest
  <1>2. CASE Swap
    <2>1. /\ Newest = bumps + 1 /\ Newest' = bumps + 2 /\ bumps \in Nat
          /\ UNCHANGED <<cache, fallback, queue>>
      BY <1>2 DEF Swap, Newest, store, tasks, syncing, TypeOK
    <2>2. \A s \in Sources : config'[s] \in {0, bumps + 2, config[s]}
      BY <1>2 DEF Swap
    <2>3. /\ \A s \in Sources : config[s] \in Nat /\ cache[s] \in Nat
          /\ \A s \in Sources : \A g \in Gens : fallback[g][s] \in Nat
          /\ \A s \in Sources : \A i \in DOMAIN queue[s] : queue[s][i].settings \in Nat
      BY QueuedRuns DEF TypeOK, Settings
    <2>4. \A n \in Nat : n <= Newest => n <= Newest'
      BY <2>1
    <2>5. \A s \in Sources : config'[s] <= Newest'
      BY <2>1, <2>2, <2>3, <2>4 DEF NothingIsNewer
    <2> HIDE DEF NothingIsNewer
    <2>6. QED
      BY <2>1, <2>3, <2>4, <2>5 DEF NothingIsNewer
  <1>3. CASE ListStale
    <2>1. /\ UNCHANGED <<config, cache, fallback, queue, bumps>> /\ bumps \in Nat
          /\ applying \in {"listing", "removing"} /\ applying' = "removing"
      BY <1>3 DEF ListStale, store, tasks, syncing, TypeOK
    <2>2. Newest' = Newest
      BY <2>1 DEF Newest
    <2>3. QED
      BY <2>1, <2>2 DEF NothingIsNewer
  <1>4. CASE RemoveStale
    <2> PICK e \in victims[Apply] : cache' = [cache EXCEPT ![e] = 0]
      BY <1>4 DEF RemoveStale, RemoveOne
    <2>1. /\ UNCHANGED <<config, fallback, queue, applying, bumps>> /\ e \in Sources
          /\ cache \in [Sources -> Settings]
      BY <1>4 DEF RemoveStale, tasks, syncing, TypeOK, Gens
    <2>2. Newest \in Nat /\ Newest' = Newest
      BY <2>1 DEF Newest, TypeOK
    <2>3. QED
      BY <2>1, <2>2 DEF NothingIsNewer
  <1>5. CASE BumpReload
    <2>1. /\ UNCHANGED <<config, cache, fallback, queue>>
          /\ Newest = bumps + 2 /\ Newest' = (bumps + 1) + 1 /\ bumps \in Nat
      BY <1>5 DEF BumpReload, Newest, store, tasks, syncing, TypeOK
    <2>2. Newest' = Newest
      BY <2>1
    <2>3. QED
      BY <2>1, <2>2 DEF NothingIsNewer
  <1>6. CASE Spawn
    <2>1. /\ UNCHANGED <<config, cache, queue, applying, bumps>>
          /\ \A g \in Gens : fallback'[g] = fallback[g] \/ fallback'[g] = config
      BY <1>6 DEF Spawn, store, syncing, TypeOK
    <2>2. QED
      BY <2>1 DEF NothingIsNewer, Newest
  <1>7. ASSUME NEW g \in Gens, PrunerRemoves(g)
        PROVE  NothingIsNewer'
    <2> PICK e \in victims[g] : cache' = [cache EXCEPT ![e] = 0]
      BY <1>7 DEF PrunerRemoves, RemoveOne
    <2>1. /\ UNCHANGED <<config, fallback, queue, applying, bumps>> /\ e \in Sources
          /\ cache \in [Sources -> Settings]
      BY <1>7 DEF PrunerRemoves, tasks, syncing, TypeOK, Gens
    <2>2. Newest \in Nat /\ Newest' = Newest
      BY <2>1 DEF Newest, TypeOK
    <2>3. QED
      BY <2>1, <2>2 DEF NothingIsNewer
  <1>8. ASSUME NEW s \in Sources, NEW run \in Runs, Joins(s, run)
        PROVE  NothingIsNewer'
    <2> DEFINE r == Append(queue[s], run)
    <2>1. /\ queue[s] \in Seq(Runs) /\ queue \in [Sources -> Seq(Runs)]
          /\ queue' = [queue EXCEPT ![s] = r]
          /\ UNCHANGED <<config, cache, fallback, applying, bumps>>
      BY <1>8 DEF TypeOK, Joins, store, tasks
    <2>2. /\ Len(queue[s]) \in Nat /\ DOMAIN queue[s] = 1 .. Len(queue[s])
          /\ DOMAIN r = 1 .. Len(queue[s]) + 1
          /\ \A i \in 1 .. Len(queue[s]) : r[i] = queue[s][i]
          /\ r[Len(queue[s]) + 1] = run
      BY <2>1, Lengthens
    <2> HIDE DEF r
    <2>3. run.settings <= Newest
      BY <1>8 DEF Joins, NothingIsNewer
    <2>4. \A i \in DOMAIN r : r[i].settings <= Newest
      BY <2>2, <2>3 DEF NothingIsNewer
    <2>5. QED
      BY <2>1, <2>4 DEF NothingIsNewer, Newest
  <1>9. ASSUME NEW s \in Sources, Leaves(s)
        PROVE  NothingIsNewer'
    <2> DEFINE r == queue'[s]
    <2>1. /\ Shortened(queue[s], r) /\ queue' = [queue EXCEPT ![s] = r]
          /\ queue \in [Sources -> Seq(Runs)] /\ 1 \in DOMAIN queue[s]
          /\ UNCHANGED <<config, fallback, applying, bumps>>
      BY <1>9 DEF Leaves, TypeOK
    <2> HIDE DEF r
    <2>2. \A i \in DOMAIN r : i + 1 \in DOMAIN queue[s]
      BY <2>1 DEF Shortened
    <2>3. \A i \in DOMAIN r : r[i].settings <= Newest
      BY <2>1, <2>2 DEF Shortened, NothingIsNewer
    <2>4. \A d \in Sources : cache'[d] <= Newest
      BY <1>9, <2>1 DEF Leaves, NothingIsNewer, TypeOK
    <2>5. QED
      BY <2>1, <2>3, <2>4 DEF NothingIsNewer, Newest
  <1>10. QED
    BY <1>1, <1>2, <1>3, <1>4, <1>5, <1>6, <1>7, <1>8, <1>9, TaskRunJoins, HttpRunJoins,
       RunLeaves DEF Next, vars, store, dropping, tasks, supervising, syncing, reading,
       Notice, Shutdown, StopAll, Return, PrunerReads, PrunerLists, PrunerEnds, StopTask,
       ViewRoutes, ViewRefreshes, Enter

\* A run that starts while its source is configured takes the newest settings.
LEMMA SettingsAreOrderedKept ==
    ASSUME TypeOK, TasksOwnTheirRuns, NothingIsNewer, SettingsAreOrdered, [Next]_vars
    PROVE  SettingsAreOrdered'
  <1>1. CASE UNCHANGED <<config, cache, queue>>
    BY <1>1 DEF SettingsAreOrdered
  <1>2. CASE Swap
    <2>1. /\ Newest = bumps + 1 /\ bumps \in Nat /\ UNCHANGED <<cache, queue>>
          /\ \A s \in Sources : config'[s] \in {0, bumps + 2, config[s]}
      BY <1>2 DEF Swap, Newest, store, syncing, TypeOK
    <2>2. /\ \A s \in Sources : config[s] \in Nat /\ cache[s] \in Nat
          /\ \A s \in Sources : \A i \in DOMAIN queue[s] : queue[s][i].settings \in Nat
      BY QueuedRuns DEF TypeOK, Settings
    <2>3. ASSUME NEW s \in Sources
          PROVE  InOrder(queue[s], config'[s], cache[s])
      <3>1. InOrder(queue[s], config[s], cache[s])
        BY DEF SettingsAreOrdered
      <3>2. CASE config'[s] = config[s]
        BY <3>1, <3>2
      <3>3. CASE config'[s] = 0
        BY <3>1, <3>3 DEF InOrder
      <3>4. CASE config'[s] = bumps + 2
        <4>1. cache[s] <= bumps + 2 /\ \A i \in DOMAIN queue[s] : queue[s][i].settings <= bumps + 2
          BY <2>1, <2>2 DEF NothingIsNewer
        <4>2. QED
          BY <3>1, <3>4, <4>1 DEF InOrder
      <3>5. QED
        BY <2>1, <3>2, <3>3, <3>4
    <2>4. QED
      BY <2>1, <2>3 DEF SettingsAreOrdered
  <1>3. CASE RemoveStale
    <2> PICK e \in victims[Apply] : cache' = [cache EXCEPT ![e] = 0]
      BY <1>3 DEF RemoveStale, RemoveOne
    <2>1. /\ UNCHANGED <<config, queue>> /\ e \in Sources
          /\ cache' \in [Sources -> Nat] /\ cache \in [Sources -> Nat]
          /\ \A s \in Sources : cache'[s] \in {0, cache[s]} /\ config[s] \in Nat
          /\ \A s \in Sources : \A i \in DOMAIN queue[s] : queue[s][i].settings \in Nat
      BY <1>3, QueuedRuns DEF RemoveStale, syncing, TypeOK, Settings
    <2>2. \A s \in Sources : cache'[s] <= cache[s]
      BY <2>1
    <2>3. ASSUME NEW s \in Sources
          PROVE  InOrder(queue[s], config[s], cache'[s])
      <3>1. InOrder(queue[s], config[s], cache[s])
        BY DEF SettingsAreOrdered
      <3>2. CASE cache'[s] = cache[s]
        BY <3>1, <3>2
      <3>3. CASE cache'[s] = 0
        BY <3>1, <3>3, <2>1 DEF InOrder
      <3>4. QED
        BY <3>2, <3>3, <2>1
    <2>4. QED
      BY <2>1, <2>3 DEF SettingsAreOrdered
  <1>4. ASSUME NEW g \in Gens, PrunerRemoves(g)
        PROVE  SettingsAreOrdered'
    <2> PICK e \in victims[g] : cache' = [cache EXCEPT ![e] = 0]
      BY <1>4 DEF PrunerRemoves, RemoveOne
    <2>1. /\ UNCHANGED <<config, queue>> /\ e \in Sources
          /\ cache' \in [Sources -> Nat] /\ cache \in [Sources -> Nat]
          /\ \A s \in Sources : cache'[s] \in {0, cache[s]} /\ config[s] \in Nat
          /\ \A s \in Sources : \A i \in DOMAIN queue[s] : queue[s][i].settings \in Nat
      BY <1>4, QueuedRuns DEF PrunerRemoves, syncing, TypeOK, Settings
    <2>2. \A s \in Sources : cache'[s] <= cache[s]
      BY <2>1
    <2>3. ASSUME NEW s \in Sources
          PROVE  InOrder(queue[s], config[s], cache'[s])
      <3>1. InOrder(queue[s], config[s], cache[s])
        BY DEF SettingsAreOrdered
      <3>2. CASE cache'[s] = cache[s]
        BY <3>1, <3>2
      <3>3. CASE cache'[s] = 0
        BY <3>1, <3>3, <2>1 DEF InOrder
      <3>4. QED
        BY <3>2, <3>3, <2>1
    <2>4. QED
      BY <2>1, <2>3 DEF SettingsAreOrdered
  <1>5. ASSUME NEW s \in Sources, NEW run \in Runs, Joins(s, run)
        PROVE  SettingsAreOrdered'
    <2>1. InOrder(Append(queue[s], run), config[s], cache[s])
      BY <1>5, LongerStaysInOrder DEF Joins, SettingsAreOrdered, TypeOK, Settings
    <2>2. QED
      BY <1>5, <2>1 DEF Joins, SettingsAreOrdered, TypeOK, store
  <1>6. ASSUME NEW s \in Sources, Leaves(s)
        PROVE  SettingsAreOrdered'
    <2>1. queue[s] \in Seq(Runs) /\ config[s] \in Nat /\ cache[s] \in Nat
      BY DEF TypeOK, Settings
    <2>2. /\ InOrder(queue'[s], config[s], cache[s])
          /\ InOrder(queue'[s], config[s], queue[s][1].settings)
      BY <1>6, <2>1, ShorterStaysInOrder DEF Leaves, SettingsAreOrdered
    <2>3. QED
      BY <1>6, <2>2 DEF Leaves, SettingsAreOrdered, TypeOK
  <1>7. QED
    BY <1>1, <1>2, <1>3, <1>4, <1>5, <1>6, TaskRunJoins, HttpRunJoins, RunLeaves DEF Next,
       vars, store, dropping, tasks, supervising, syncing, reading, ListStale, BumpReload,
       Spawn, Notice, Shutdown, StopAll, Return, PrunerReads, PrunerLists, PrunerEnds,
       StopTask, ViewRoutes, ViewRefreshes, Enter

\* A signal between reloads finds nothing under way that could outlive it.
LEMMA StopsBetweenReloadsKept ==
    ASSUME TypeOK, Reloads, Watched, StopsBetweenReloads, [Next]_vars
    PROVE  StopsBetweenReloads'
  <1> USE DEF StopsBetweenReloads, ReturnsDrained, Drained, Reloads, TypeOK, supervising, tasks,
              HandlesDone
  <1>1. CASE UNCHANGED <<shutdown, applying, bumps, noticed, supervisor, gen, alive, pruner>>
    BY <1>1 DEF StopsBetweenReloads, ReturnsDrained, Drained
  <1>2. CASE Swap
    BY <1>2 DEF Swap
  <1>3. CASE ListStale
    BY <1>3 DEF ListStale
  <1>4. CASE BumpReload
    BY <1>4 DEF BumpReload
  <1>5. CASE Spawn
    BY <1>5 DEF Spawn
  <1>6. CASE Notice
    BY <1>6 DEF Notice
  <1>7. CASE Shutdown
    BY <1>7 DEF Shutdown
  <1>8. CASE Return
    <2>1. /\ UNCHANGED <<shutdown, applying, bumps, noticed, gen, alive, pruner>>
          /\ supervisor' = "returned" /\ shutdown
      BY <1>8 DEF Return, tasks
    <2>2. CASE supervisor = "spawning" /\ ~StopsInReload
      <3>1. gen = 0
        BY <2>1, <2>2 DEF StopsBetweenReloads
      <3>2. \A g \in Gens : alive[g] = {} /\ pruner[g] = "none"
        BY <3>1 DEF TypeOK, Watched, Gens
      <3>3. QED
        BY <2>1, <2>2, <3>1, <3>2 DEF StopsBetweenReloads, ReturnsDrained, Drained
    <2>3. CASE supervisor = "waiting"
      BY <1>8, <2>1, <2>3 DEF Return, Awaited, StopsBetweenReloads, ReturnsDrained, Drained
    <2>4. QED
      BY <1>8, <2>2, <2>3, <2>1 DEF Return, StopsBetweenReloads
  <1>9. ASSUME NEW g \in Gens, PrunerReads(g)
        PROVE  StopsBetweenReloads'
    BY <1>9 DEF PrunerReads
  <1>10. ASSUME NEW g \in Gens, PrunerLists(g)
        PROVE  StopsBetweenReloads'
    BY <1>10 DEF PrunerLists
  <1>11. ASSUME NEW g \in Gens, PrunerEnds(g)
        PROVE  StopsBetweenReloads'
    BY <1>11 DEF PrunerEnds
  <1>12. ASSUME NEW g \in Gens, NEW s \in Sources, StopTask(g, s)
        PROVE  StopsBetweenReloads'
    BY <1>12 DEF StopTask
  <1>13. QED
    BY <1>1, <1>2, <1>3, <1>4, <1>5, <1>6, <1>7, <1>8, <1>9, <1>10, <1>11, <1>12 DEF Next,
       vars, store, dropping, tasks, supervising, syncing, reading, RemoveStale, StopAll,
       PrunerRemoves, StartTaskRun, ViewRoutes, ViewRefreshes, StartHttpRun, Enter,
       Coalesce, Land, Fail

-----------------------------------------------------------------------------
(* The theorems.                                                           *)

\* The process starts with an empty cache and no generation.
LEMMA InitInvariant == Init => IInv
  <1> SUFFICES ASSUME Init
               PROVE  IInv
    OBVIOUS
  <1> USE TaskGenerationsAssumption DEF Init
  <1>1. config \in [Sources -> {0, 1}] /\ \A s \in Sources : queue[s] = <<>> /\ cache[s] = 0
    OBVIOUS
  <1>2. TypeOK
    <2>1. queue \in [Sources -> Seq(Runs)] /\ gathering \subseteq {s \in Sources : queue[s] # <<>>}
      OBVIOUS
    <2>2. /\ config \in [Sources -> Settings] /\ cache \in [Sources -> Settings]
          /\ fallback \in [Gens -> [Sources -> Settings]]
      BY <1>1 DEF Settings
    <2>3. /\ gen \in 0 .. noticed + 1 /\ noticed \in 0 .. bumps /\ bumps \in 0 .. MaxReloads
          /\ runs \in 0 .. MaxRuns
      OBVIOUS
    <2>4. QED
      BY <2>1, <2>2, <2>3 DEF TypeOK, Cached
  <1>3. Reloads /\ Watched /\ TasksFollowConfig /\ StopsBetweenReloads
    BY DEF Reloads, Watched, TasksFollowConfig, StopsBetweenReloads, ReturnsDrained, Gens
  <1>4. TasksOwnTheirRuns /\ RemovedIsInSight
    BY <1>1 DEF TasksOwnTheirRuns, RemovedIsInSight, Cached
  <1>5. NothingIsNewer /\ SettingsAreOrdered
    BY <1>1 DEF NothingIsNewer, SettingsAreOrdered, InOrder, Newest
  <1>6. QED
    BY <1>2, <1>3, <1>4, <1>5 DEF IInv

\* Every step keeps the whole of it.
LEMMA NextInvariant == IInv /\ [Next]_vars => IInv'
  <1> SUFFICES ASSUME IInv, [Next]_vars
               PROVE  IInv'
    OBVIOUS
  <1>1. TypeOK' /\ Reloads' /\ Watched'
    BY TypingKept, ReloadsKept, WatchedKept DEF IInv
  <1>2. TasksOwnTheirRuns' /\ TasksFollowConfig' /\ RemovedIsInSight'
    BY TasksOwnTheirRunsKept, TasksFollowConfigKept, RemovedIsInSightKept DEF IInv
  <1>3. NothingIsNewer' /\ SettingsAreOrdered' /\ StopsBetweenReloads'
    BY NothingIsNewerKept, SettingsAreOrderedKept, StopsBetweenReloadsKept DEF IInv
  <1>4. QED
    BY <1>1, <1>2, <1>3 DEF IInv

\* The inductive invariant holds however reloads, tasks, requests, pruners and
\* the shutdown interleave.
THEOREM GenerationsInvariant == Spec => []IInv
  BY InitInvariant, NextInvariant, PTL DEF Spec

\* A source removed by a reload keeps no data once what the reload found under
\* way is over: its late runs write back only what a pruner has yet to visit.
THEOREM RemovedSourcesKeepNoData == Spec => []RemovedKeepsNoData
  <1>1. IInv => RemovedKeepsNoData
    <2> SUFFICES ASSUME IInv, Quiet, NEW s \in Cached \ (Configured \cup stray)
                 PROVE  FALSE
      BY DEF RemovedKeepsNoData
    <2>1. PICK g \in Gens : Prunes(g, s)
      BY DEF IInv, RemovedIsInSight, Quiet
    <2>2. pruner[g] \notin {"none", "done"}
      BY <2>1 DEF Prunes
    <2>3. g = gen
      BY <2>2 DEF Quiet, Drained
    <2>4. QED
      BY <2>2, <2>3 DEF IInv, Watched, Quiet
  <1>2. QED
    BY <1>1, GenerationsInvariant, PTL

\* Once every reload is noticed the tasks that run are those of the
\* configuration in force.
THEOREM NoTaskRunsOldSettings == Spec => []TasksFollowConfig
  <1>1. IInv => TasksFollowConfig
    BY DEF IInv
  <1>2. QED
    BY <1>1, GenerationsInvariant, PTL

\* Where the shutdown signal waits for a reload to be noticed, generations leave
\* neither data nor settings nor tasks behind: the supervisor returns when all
\* of them are drained and pruned.
THEOREM GenerationsAreCleanedUp ==
    ASSUME StopsInReload = FALSE
    PROVE  Spec => []GenerationsLeaveNothing
  <1>1. IInv => TypeOK /\ ReturnsDrained
    BY DEF IInv, StopsBetweenReloads
  <1>2. QED
    BY <1>1, GenerationsInvariant, RemovedSourcesKeepNoData, NoTaskRunsOldSettings, PTL
       DEF GenerationsLeaveNothing

\* Data of newer settings is replaced by data of older ones only when a run
\* lands whose source was gone when it started.
LEMMA OnlyOrphansGoBack ==
    ASSUME IInv, [Next]_vars, NEW d \in Sources, cache'[d] # 0, cache'[d] < cache[d]
    PROVE  Head(queue[d]).orphan
  <1> USE DEF IInv
  <1>1. CASE UNCHANGED cache
    BY <1>1 DEF TypeOK, Settings
  <1>2. CASE RemoveStale
    <2> PICK e \in victims[Apply] : cache' = [cache EXCEPT ![e] = 0]
      BY <1>2 DEF RemoveStale, RemoveOne
    <2>1. \A s \in Sources : cache'[s] \in {0, cache[s]} /\ cache[s] \in Nat
      BY DEF TypeOK, Settings
    <2>2. QED
      BY <2>1
  <1>3. ASSUME NEW g \in Gens, PrunerRemoves(g)
        PROVE  Head(queue[d]).orphan
    <2> PICK e \in victims[g] : cache' = [cache EXCEPT ![e] = 0]
      BY <1>3 DEF PrunerRemoves, RemoveOne
    <2>1. \A s \in Sources : cache'[s] \in {0, cache[s]} /\ cache[s] \in Nat
      BY DEF TypeOK, Settings
    <2>2. QED
      BY <2>1
  <1>4. ASSUME NEW s \in Sources, Land(s)
        PROVE  Head(queue[d]).orphan
    <2>1. /\ queue[s] \in Seq(Runs) /\ queue[s] # <<>>
          /\ cache' = [cache EXCEPT ![s] = Head(queue[s]).settings]
      BY <1>4 DEF Land, TypeOK
    <2>2. /\ Head(queue[s]) = queue[s][1] /\ 1 \in DOMAIN queue[s] /\ queue[s][1].settings \in Nat
      BY <2>1, Shortens, QueuedRuns
    <2>3. cache[d] \in Nat /\ cache \in [Sources -> Settings]
      BY DEF TypeOK, Settings
    <2>4. d = s
      BY <2>1, <2>3
    <2>5. queue[s][1].settings < cache[s]
      BY <2>1, <2>2, <2>3, <2>4
    <2>6. queue[s][1].orphan
      <3>1. InOrder(queue[s], config[s], cache[s])
        BY DEF SettingsAreOrdered
      <3>2. ~queue[s][1].orphan => cache[s] <= queue[s][1].settings
        BY <2>2, <3>1 DEF InOrder
      <3>3. QED
        BY <3>2, <2>2, <2>3, <2>4, <2>5
    <2>7. QED
      BY <2>2, <2>4, <2>6
  <1>5. QED
    BY <1>1, <1>2, <1>3, <1>4 DEF Next, vars, store, dropping, tasks, supervising, syncing,
       reading, Swap, ListStale, BumpReload, Spawn, Notice, Shutdown, StopAll, Return,
       PrunerReads, PrunerLists, PrunerEnds, StartTaskRun, StopTask, ViewRoutes,
       ViewRefreshes, StartHttpRun, Enter, Coalesce, Fail

\* However the outgoing and the incoming generation and requests sync the same
\* source, only a task that found its source removed puts older data back.
THEOREM NewerSettingsStay == Spec => OlderSettingsNeverWin
  <1>1. IInv /\ [Next]_vars =>
          [\A s \in Sources : cache'[s] # 0 /\ cache'[s] < cache[s] => Head(queue[s]).orphan]_vars
    BY OnlyOrphansGoBack
  <1>2. QED
    BY <1>1, GenerationsInvariant, PTL DEF Spec, OlderSettingsNeverWin

-----------------------------------------------------------------------------
(* The ladder of ticks_to_skip: the recursive function behind it, by least *)
(* counterexamples.                                                        *)

\* Any set of naturals has a least element.
LEMMA LeastNatural ==
  ASSUME NEW T \in SUBSET Nat, T # {}
  PROVE  \E m \in T : \A k \in T : m <= k
  <1> DEFINE R == OpToRel(<, Nat)
  <1>1. \E m \in T : \A k \in T : ~(<<k, m>> \in R)
    <2>1. IsWellFoundedOn(R, Nat)
      BY NatLessThanWellFounded
    <2> HIDE DEF R
    <2>2. QED
      BY <2>1, WFMin
  <1>2. \A k, m \in Nat : k < m => <<k, m>> \in R
    BY DEF OpToRel
  <1> HIDE DEF R
  <1>3. PICK m \in T : \A k \in T : ~(<<k, m>> \in R)
    BY <1>1
  <1>4. \A k \in T : m <= k
    <2>1. TAKE k \in T
    <2>2. k \in Nat /\ m \in Nat /\ ~(k < m)
      BY <1>2, <1>3
    <2>3. QED
      BY <2>2
  <1>5. QED
    BY <1>4

\* f is Pow2 as far as n.
Powers(f, n) ==
    /\ f \in [0 .. n -> Nat]
    /\ \A k \in 0 .. n : f[k] = IF k = 0 THEN 1 ELSE Smaller(2 * f[k - 1], CounterMax)

\* Every prefix of the powers can be computed, and from the one before it.
LEMMA PowersExist == \A n \in Nat : \E f : Powers(f, n)
  <1> DEFINE Bad == {n \in Nat : ~\E f : Powers(f, n)}
  <1>1. SUFFICES ASSUME Bad # {} PROVE FALSE
    OBVIOUS
  <1>2. PICK m \in Bad : \A k \in Bad : m <= k
    BY <1>1, LeastNatural
  <1>3. m # 0
    <2>1. Powers([k \in 0 .. 0 |-> 1], 0)
      BY DEF Powers
    <2>2. QED
      BY <2>1
  <1>4. PICK f : Powers(f, m - 1)
    BY <1>2, <1>3
  <1> DEFINE g == [k \in 0 .. m |-> IF k = m THEN Smaller(2 * f[m - 1], CounterMax) ELSE f[k]]
  <1>5. m - 1 \in Nat /\ f[m - 1] \in Nat
    BY <1>2, <1>3, <1>4 DEF Powers
  <1>6. Smaller(2 * f[m - 1], CounterMax) \in Nat
    BY <1>5, ScheduledTasksAssumption DEF Smaller
  <1>7. g \in [0 .. m -> Nat]
    <2>1. \A k \in 0 .. m : k # m => f[k] \in Nat
      BY <1>2, <1>4 DEF Powers
    <2>2. QED
      BY <2>1, <1>6
  <1>8. ASSUME NEW k \in 0 .. m
        PROVE  g[k] = IF k = 0 THEN 1 ELSE Smaller(2 * g[k - 1], CounterMax)
    <2>1. CASE k = m
      <3>1. g[m - 1] = f[m - 1] /\ g[k] = Smaller(2 * f[m - 1], CounterMax)
        BY <1>2, <1>3, <2>1
      <3>2. QED
        BY <3>1, <1>3, <2>1
    <2>2. CASE k # m
      <3>1. k \in 0 .. m - 1 /\ g[k] = f[k] /\ (k # 0 => g[k - 1] = f[k - 1])
        BY <1>2, <2>2
      <3>2. QED
        BY <3>1, <1>4 DEF Powers
    <2>3. QED
      BY <2>1, <2>2
  <1>9. Powers(g, m)
    BY <1>7, <1>8 DEF Powers
  <1>10. QED
    BY <1>2, <1>9

\* Two prefixes of the powers differ nowhere.
LEMMA PowersAgree ==
  ASSUME NEW m \in Nat, NEW n \in Nat, m <= n, NEW f, NEW g, Powers(f, m), Powers(g, n)
  PROVE  \A k \in 0 .. m : f[k] = g[k]
  <1> DEFINE Bad == {k \in 0 .. m : f[k] # g[k]}
  <1>1. SUFFICES ASSUME Bad # {} PROVE FALSE
    OBVIOUS
  <1>2. PICK k \in Bad : \A j \in Bad : k <= j
    <2>1. Bad \in SUBSET Nat
      OBVIOUS
    <2> HIDE DEF Bad
    <2>2. QED
      BY <1>1, <2>1, LeastNatural
  <1>3. k # 0 => f[k - 1] = g[k - 1]
    BY <1>2
  <1>4. QED
    BY <1>2, <1>3 DEF Powers

\* Pow2 is the function its definition describes: the last value of each prefix.
LEMMA Pow2Unfolds ==
  \A n \in Nat : Pow2[n] = IF n = 0 THEN 1 ELSE Smaller(2 * Pow2[n - 1], CounterMax)
  <1> DEFINE Upto(m) == CHOOSE h : Powers(h, m)
             F == [n \in Nat |-> Upto(n)[n]]
  <1>1. ASSUME NEW n \in Nat
        PROVE  F[n] \in Nat /\ F[n] = IF n = 0 THEN 1 ELSE Smaller(2 * F[n - 1], CounterMax)
    <2>1. PICK f : Powers(f, n) /\ F[n] = f[n]
      <3>1. Powers(Upto(n), n)
        BY PowersExist
      <3>2. QED
        BY <3>1
    <2>2. n # 0 => \E g : Powers(g, n - 1) /\ F[n - 1] = g[n - 1]
      <3>1. n # 0 => n - 1 \in Nat /\ Powers(Upto(n - 1), n - 1)
        BY PowersExist
      <3>2. QED
        BY <3>1
    <2>3. n # 0 => F[n - 1] = f[n - 1]
      <3>1. SUFFICES ASSUME n # 0 PROVE F[n - 1] = f[n - 1]
        OBVIOUS
      <3>2. PICK g : Powers(g, n - 1) /\ F[n - 1] = g[n - 1]
        BY <3>1, <2>2
      <3>3. g[n - 1] = f[n - 1]
        BY <2>1, <3>1, <3>2, PowersAgree
      <3>4. QED
        BY <3>2, <3>3
    <2>4. QED
      BY <2>1, <2>3 DEF Powers
  <1> DEFINE Unfold(h) ==
            [n \in Nat |-> IF n = 0 THEN 1 ELSE Smaller(2 * h[n - 1], CounterMax)]
  <1>2. F = Unfold(F)
    <2>1. \A n \in Nat : F[n] = Unfold(F)[n]
      <3> HIDE DEF F
      <3>1. QED
        BY <1>1
    <2>2. F = [n \in Nat |-> F[n]] /\ Unfold(F) = [n \in Nat |-> Unfold(F)[n]]
      OBVIOUS
    <2> HIDE DEF F, Unfold
    <2>3. QED
      BY <2>1, <2>2
  <1>3. Pow2 = Unfold(Pow2)
    <2> HIDE DEF F
    <2>1. QED
      BY <1>2 DEF Pow2
  <1>4. \A n \in Nat : Pow2[n] = IF n = 0 THEN 1 ELSE Smaller(2 * Pow2[n - 1], CounterMax)
    BY <1>3
  <1>5. QED
    BY <1>4

\* The powers never come down again below 8.
LEMMA PowersStayHigh == \A n \in Nat : n >= 3 => Pow2[n] \in Nat /\ Pow2[n] >= 8
  <1> DEFINE Bad == {n \in Nat : n >= 3 /\ ~(Pow2[n] \in Nat /\ Pow2[n] >= 8)}
  <1>1. SUFFICES ASSUME Bad # {} PROVE FALSE
    OBVIOUS
  <1>2. PICK n \in Bad : \A k \in Bad : n <= k
    <2>1. Bad \in SUBSET Nat
      OBVIOUS
    <2> HIDE DEF Bad
    <2>2. QED
      BY <1>1, <2>1, LeastNatural
  <1>3. CounterMax \in Nat /\ CounterMax >= 8
    BY ScheduledTasksAssumption
  <1>4. CASE n = 3
    <2>1. Pow2[0] = 1
      BY Pow2Unfolds
    <2>2. Pow2[1] = 2
      BY <1>3, <2>1, Pow2Unfolds DEF Smaller
    <2>3. Pow2[2] = 4
      BY <1>3, <2>2, Pow2Unfolds DEF Smaller
    <2>4. Pow2[3] = 8
      BY <1>3, <2>3, Pow2Unfolds DEF Smaller
    <2>5. QED
      BY <1>2, <1>4, <2>4
  <1>5. CASE n > 3
    <2>1. n - 1 \in Nat /\ Pow2[n - 1] \in Nat /\ Pow2[n - 1] >= 8
      BY <1>2, <1>5
    <2>2. Pow2[n] = Smaller(2 * Pow2[n - 1], CounterMax)
      BY <1>5, Pow2Unfolds
    <2>3. QED
      BY <1>2, <1>3, <2>1, <2>2 DEF Smaller
  <1>6. QED
    BY <1>2, <1>4, <1>5

\* What ticks_to_skip computes is what it says.
LEMMA SkipsAreTheLadder == \A n \in Nat : ticks_to_skip(n) = Ladder(n) - 1
  <1>1. SUFFICES ASSUME NEW n \in Nat PROVE ticks_to_skip(n) = Ladder(n) - 1
    OBVIOUS
  <1>2. CounterMax \in Nat /\ CounterMax >= 8
    BY ScheduledTasksAssumption
  <1>3. Pow2[0] = 1
    BY Pow2Unfolds
  <1>4. Pow2[1] = 2
    BY <1>2, <1>3, Pow2Unfolds DEF Smaller
  <1>5. Pow2[2] = 4
    BY <1>2, <1>4, Pow2Unfolds DEF Smaller
  <1>6. CASE n = 0
    BY <1>6 DEF ticks_to_skip, Ladder
  <1>7. CASE n \in 1 .. 3
    BY <1>3, <1>4, <1>5, <1>7 DEF ticks_to_skip, Ladder, Smaller, MaxBackoff
  <1>8. CASE n > 3
    <2>1. n - 1 \in Nat /\ n - 1 >= 3
      BY <1>8
    <2>2. Pow2[n - 1] \in Nat /\ Pow2[n - 1] >= 8
      BY <2>1, PowersStayHigh
    <2>3. QED
      BY <1>8, <2>2 DEF ticks_to_skip, Ladder, Smaller, MaxBackoff
  <1>9. QED
    BY <1>6, <1>7, <1>8

-----------------------------------------------------------------------------
(* The scheduler's loops.                                                  *)

\* A body that has not looped yet starts from nothing; between ticks, the ticks
\* since the last attempt and those to sit out add up to the streak's distance.
OnTheLadder ==
    \A t \in Tasks :
        /\ pc[t] \in {"starting", "waiting"} => failures[t] = 0 /\ skip[t] = 0 /\ gap[t] = 0
        /\ pc[t] = "ticking" => gap[t] + skip[t] + 1 = Ladder(failures[t])
        /\ pc[t] = "running" => skip[t] = 0 /\ gap[t] = Ladder(failures[t])

\* A source that reached its loop for the first time has the data it reads, or
\* waited for it as long as it may.
InputsCameFirst ==
    \A s \in SourceTasks :
        (pc[s] \in {"ticking", "running"} /\ ~tried[s] /\ ~gaveUp[s]) => Reads[s] \subseteq cached

TasksInv ==
    /\ Reads \in Generations /\ TasksTypeOK
    /\ \A t \in Tasks : pc[t] # "none" => t \in DOMAIN Reads
    /\ OnTheLadder /\ InputsCameFirst

\* The distances are from 1 to 8.
LEMMA LadderBounds ==
  /\ \A n \in Nat : Ladder(n) \in 1 .. MaxBackoff
  /\ Ladder(0) = 1
  BY DEF Ladder, MaxBackoff

\* A generation names tasks, and what they read are sources.
LEMMA ReadsAreSources ==
  ASSUME Reads \in Generations
  PROVE  DOMAIN Reads \subseteq Tasks /\ \A t \in DOMAIN Reads : Reads[t] \subseteq SourceTasks
  BY ScheduledTasksAssumption

\* A new generation is in order.
LEMMA TasksInitInvariant == TasksInit => TasksInv
  <1>1. SUFFICES ASSUME TasksInit PROVE TasksInv
    OBVIOUS
  <1>2. MaxErrors \in Nat /\ MaxPanics \in Nat /\ CounterMax \in Nat
    BY ScheduledTasksAssumption
  <1>3. TasksTypeOK
    <2>1. /\ pc \in [Tasks -> {"none", "starting", "waiting", "ticking", "running", "restarting",
                              "returned"}]
          /\ \A t \in Tasks : pc[t] # "waiting"
      BY <1>1 DEF TasksInit
    <2>2. /\ failures \in [Tasks -> 0 .. CounterMax]
          /\ skip \in [Tasks -> 0 .. MaxBackoff - 1] /\ gap \in [Tasks -> 0 .. MaxBackoff]
          /\ {tried, gaveUp} \subseteq [Tasks -> BOOLEAN]
      BY <1>1, <1>2 DEF TasksInit, MaxBackoff
    <2>3. cached \subseteq SourceTasks /\ stop \in BOOLEAN /\ errors = 0 /\ panics = 0
      BY <1>1 DEF TasksInit
    <2>4. QED
      BY <1>2, <2>1, <2>2, <2>3 DEF TasksTypeOK
  <1>4. QED
    BY <1>1, <1>3 DEF TasksInit, TasksInv, OnTheLadder, InputsCameFirst, Tasks

\* What a task does.
TaskMoves(t) ==
    \/ SourceStarts(t) \/ ProjectStarts(t) \/ EnricherStarts(t)
    \/ Arrives(t) \/ GivesUp(t) \/ Tick(t) \/ RunEnds(t)
    \/ Panic(t) \/ Restart(t) \/ Returns(t)

\* The end of a run: the streak ends, or grows by one with its ticks to sit out.
RunEnded(t, worked) ==
    /\ pc[t] = "running" /\ pc' = [pc EXCEPT ![t] = "ticking"]
    /\ gap' = [gap EXCEPT ![t] = 0] /\ tried' = [tried EXCEPT ![t] = TRUE]
    /\ gaveUp' = gaveUp /\ stop' = stop /\ panics' = panics
    /\ cached' \in {cached, cached \cup ({t} \cap SourceTasks)}
    /\ errors' \in errors .. MaxErrors
    /\ \/ worked /\ failures' = [failures EXCEPT ![t] = 0] /\ skip' = skip
       \/ ~worked /\ \E n \in 1 .. CounterMax : /\ failures' = [failures EXCEPT ![t] = n]
                                               /\ skip' = [skip EXCEPT ![t] = Ladder(n) - 1]
    /\ (~worked /\ errors' = errors) => ~(Reads[t] \subseteq cached)

\* Every end of a run is one of the two.
LEMMA RunsEnd ==
  ASSUME TasksInv, NEW t \in DOMAIN Reads, RunEnds(t)
  PROVE  \E worked \in BOOLEAN : RunEnded(t, worked)
  <1>1. t \in Tasks /\ TasksTypeOK
    BY ReadsAreSources DEF TasksInv
  <1>2. CounterMax \in Nat /\ CounterMax > 7 /\ MaxErrors \in Nat
    BY ScheduledTasksAssumption
  <1>3. errors \in errors .. MaxErrors
    BY <1>1, <1>2 DEF TasksTypeOK
  <1>4. ASSUME Attempted(t), Succeeded(t), errors' = errors,
               cached' \in {cached, cached \cup ({t} \cap SourceTasks)}
        PROVE  RunEnded(t, TRUE)
    BY <1>3, <1>4 DEF RunEnded, Attempted, Succeeded, Go
  <1>5. ASSUME Attempted(t), Failed(t), cached' = cached, errors' \in errors .. MaxErrors,
               errors' = errors => ~(Reads[t] \subseteq cached)
        PROVE  RunEnded(t, FALSE)
    <2> DEFINE n == Smaller(failures[t] + 1, CounterMax)
    <2>1. n \in 1 .. CounterMax
      BY <1>1, <1>2 DEF TasksTypeOK, Smaller
    <2>2. failures' = [failures EXCEPT ![t] = n] /\ failures'[t] = n
      BY <1>1, <1>5 DEF TasksTypeOK, Failed
    <2>3. skip' = [skip EXCEPT ![t] = Ladder(n) - 1]
      <3>1. ticks_to_skip(failures'[t]) = Ladder(n) - 1
        <4> HIDE DEF n
        <4>1. QED
          BY <2>1, <2>2, <1>2, SkipsAreTheLadder
      <3>2. QED
        BY <1>5, <3>1 DEF Failed
    <2> HIDE DEF n
    <2>4. QED
      BY <1>5, <2>1, <2>2, <2>3 DEF RunEnded, Attempted, Go
  <1>6. CASE SyncWorks(t)
    BY <1>4, <1>6 DEF SyncWorks
  <1>7. CASE EnrichmentWorks(t) \/ PullWorks(t)
    BY <1>4, <1>7 DEF EnrichmentWorks, PullWorks
  <1>8. CASE MissesData(t)
    BY <1>3, <1>5, <1>8 DEF MissesData
  <1>9. CASE RunFails(t)
    <2>1. errors' \in errors .. MaxErrors /\ errors' # errors
      BY <1>1, <1>2, <1>9 DEF RunFails, TasksTypeOK
    <2>2. QED
      BY <1>5, <1>9, <2>1 DEF RunFails
  <1>10. QED
    BY <1>6, <1>7, <1>8, <1>9 DEF RunEnds

\* Every step of a task keeps the types: the skipped ticks stay below the cap.
LEMMA TasksTypingKept ==
  ASSUME TasksInv, NEW t \in DOMAIN Reads, UNCHANGED Reads, TaskMoves(t)
  PROVE  TasksTypeOK'
  <1>1. /\ Reads \in Generations /\ t \in Tasks
        /\ TasksTypeOK /\ OnTheLadder /\ InputsCameFirst
    BY ReadsAreSources DEF TasksInv
  <1>2. /\ CounterMax \in Nat /\ MaxErrors \in Nat /\ MaxPanics \in Nat
        /\ SourceTasks \cap (ProjectTasks \cup EnricherTasks) = {}
    BY ScheduledTasksAssumption
  <1>3. CASE SourceStarts(t) \/ ProjectStarts(t) \/ EnricherStarts(t)
    BY <1>1, <1>2, <1>3, LadderBounds
       DEF TasksTypeOK, OnTheLadder, MaxBackoff, SourceStarts, ProjectStarts, EnricherStarts,
           Go, body
  <1>4. CASE Arrives(t)
    BY <1>1, <1>2, <1>4, LadderBounds
       DEF TasksTypeOK, OnTheLadder, MaxBackoff, Arrives, Go, body
  <1>5. CASE GivesUp(t)
    BY <1>1, <1>2, <1>5, LadderBounds
       DEF TasksTypeOK, OnTheLadder, MaxBackoff, GivesUp, Go
  <1>6. CASE Tick(t)
    <2>1. /\ pc[t] = "ticking" /\ gap' = [gap EXCEPT ![t] = @ + 1]
          /\ UNCHANGED <<failures, tried, gaveUp, cached, stop, errors, panics>>
      BY <1>6 DEF Tick
    <2>2. gap[t] + skip[t] + 1 = Ladder(failures[t]) /\ Ladder(failures[t]) \in 1 .. MaxBackoff
      BY <1>1, <1>2, <2>1, LadderBounds DEF TasksTypeOK, OnTheLadder
    <2>3. CASE skip[t] > 0
      <3>1. skip' = [skip EXCEPT ![t] = @ - 1] /\ pc' = pc
        BY <1>6, <2>3 DEF Tick
      <3>2. QED
        BY <1>1, <1>2, <2>1, <2>2, <2>3, <3>1 DEF TasksTypeOK, OnTheLadder, MaxBackoff
    <2>4. CASE ~(skip[t] > 0)
      <3>1. skip' = skip /\ pc' = [pc EXCEPT ![t] = "running"]
        BY <1>6, <2>4 DEF Tick, Go
      <3>2. QED
        BY <1>1, <1>2, <2>1, <2>2, <2>4, <3>1 DEF TasksTypeOK, OnTheLadder, MaxBackoff
    <2>5. QED
      BY <2>3, <2>4
  <1>7. CASE RunEnds(t)
    <2>1. PICK worked \in BOOLEAN : RunEnded(t, worked)
      BY <1>7, RunsEnd
    <2>2. CASE worked
      BY <1>1, <1>2, <2>1, <2>2, LadderBounds DEF TasksTypeOK, OnTheLadder, MaxBackoff, RunEnded
    <2>3. CASE ~worked
      <3>1. PICK n \in 1 .. CounterMax : /\ failures' = [failures EXCEPT ![t] = n]
                                         /\ skip' = [skip EXCEPT ![t] = Ladder(n) - 1]
        BY <2>1, <2>3 DEF RunEnded
      <3>2. Ladder(n) \in 1 .. MaxBackoff
        BY <1>2, <3>1, LadderBounds
      <3>3. QED
        BY <1>1, <1>2, <2>1, <3>1, <3>2 DEF TasksTypeOK, OnTheLadder, MaxBackoff, RunEnded
    <2>4. QED
      BY <2>2, <2>3
  <1>8. CASE Panic(t)
    BY <1>1, <1>2, <1>8, LadderBounds
       DEF TasksTypeOK, OnTheLadder, MaxBackoff, Panic, Go, body
  <1>9. CASE Restart(t)
    BY <1>1, <1>2, <1>9, LadderBounds
       DEF TasksTypeOK, OnTheLadder, MaxBackoff, Restart, Go
  <1>10. CASE Returns(t)
    BY <1>1, <1>2, <1>10, LadderBounds
       DEF TasksTypeOK, OnTheLadder, MaxBackoff, Returns, Go, body
  <1>11. QED
    BY <1>3, <1>4, <1>5, <1>6, <1>7, <1>8, <1>9, <1>10 DEF TaskMoves

\* Every step of a task keeps its distances.
LEMMA OnTheLadderKept ==
  ASSUME TasksInv, NEW t \in DOMAIN Reads, UNCHANGED Reads, TaskMoves(t)
  PROVE  OnTheLadder'
  <1>1. /\ Reads \in Generations /\ t \in Tasks
        /\ TasksTypeOK /\ OnTheLadder /\ InputsCameFirst
    BY ReadsAreSources DEF TasksInv
  <1>2. /\ CounterMax \in Nat /\ MaxErrors \in Nat /\ MaxPanics \in Nat
        /\ SourceTasks \cap (ProjectTasks \cup EnricherTasks) = {}
    BY ScheduledTasksAssumption
  <1>3. CASE SourceStarts(t) \/ ProjectStarts(t) \/ EnricherStarts(t)
    BY <1>1, <1>2, <1>3, LadderBounds
       DEF TasksTypeOK, OnTheLadder, MaxBackoff, SourceStarts, ProjectStarts, EnricherStarts,
           Go, body
  <1>4. CASE Arrives(t)
    BY <1>1, <1>2, <1>4, LadderBounds
       DEF TasksTypeOK, OnTheLadder, MaxBackoff, Arrives, Go, body
  <1>5. CASE GivesUp(t)
    BY <1>1, <1>2, <1>5, LadderBounds
       DEF TasksTypeOK, OnTheLadder, MaxBackoff, GivesUp, Go
  <1>6. CASE Tick(t)
    <2>1. /\ pc[t] = "ticking" /\ gap' = [gap EXCEPT ![t] = @ + 1]
          /\ UNCHANGED <<failures, tried, gaveUp, cached, stop, errors, panics>>
      BY <1>6 DEF Tick
    <2>2. gap[t] + skip[t] + 1 = Ladder(failures[t]) /\ Ladder(failures[t]) \in 1 .. MaxBackoff
      BY <1>1, <1>2, <2>1, LadderBounds DEF TasksTypeOK, OnTheLadder
    <2>3. CASE skip[t] > 0
      <3>1. skip' = [skip EXCEPT ![t] = @ - 1] /\ pc' = pc
        BY <1>6, <2>3 DEF Tick
      <3>2. QED
        BY <1>1, <1>2, <2>1, <2>2, <2>3, <3>1 DEF TasksTypeOK, OnTheLadder, MaxBackoff
    <2>4. CASE ~(skip[t] > 0)
      <3>1. skip' = skip /\ pc' = [pc EXCEPT ![t] = "running"]
        BY <1>6, <2>4 DEF Tick, Go
      <3>2. QED
        BY <1>1, <1>2, <2>1, <2>2, <2>4, <3>1 DEF TasksTypeOK, OnTheLadder, MaxBackoff
    <2>5. QED
      BY <2>3, <2>4
  <1>7. CASE RunEnds(t)
    <2>1. PICK worked \in BOOLEAN : RunEnded(t, worked)
      BY <1>7, RunsEnd
    <2>2. CASE worked
      BY <1>1, <1>2, <2>1, <2>2, LadderBounds DEF TasksTypeOK, OnTheLadder, MaxBackoff, RunEnded
    <2>3. CASE ~worked
      <3>1. PICK n \in 1 .. CounterMax : /\ failures' = [failures EXCEPT ![t] = n]
                                         /\ skip' = [skip EXCEPT ![t] = Ladder(n) - 1]
        BY <2>1, <2>3 DEF RunEnded
      <3>2. Ladder(n) \in 1 .. MaxBackoff
        BY <1>2, <3>1, LadderBounds
      <3>3. QED
        BY <1>1, <1>2, <2>1, <3>1, <3>2 DEF TasksTypeOK, OnTheLadder, MaxBackoff, RunEnded
    <2>4. QED
      BY <2>2, <2>3
  <1>8. CASE Panic(t)
    BY <1>1, <1>2, <1>8, LadderBounds
       DEF TasksTypeOK, OnTheLadder, MaxBackoff, Panic, Go, body
  <1>9. CASE Restart(t)
    BY <1>1, <1>2, <1>9, LadderBounds
       DEF TasksTypeOK, OnTheLadder, MaxBackoff, Restart, Go
  <1>10. CASE Returns(t)
    BY <1>1, <1>2, <1>10, LadderBounds
       DEF TasksTypeOK, OnTheLadder, MaxBackoff, Returns, Go, body
  <1>11. QED
    BY <1>3, <1>4, <1>5, <1>6, <1>7, <1>8, <1>9, <1>10 DEF TaskMoves

\* Data does not go away while the tasks run.
LEMMA InputsCameFirstKept ==
  ASSUME TasksInv, NEW t \in DOMAIN Reads, UNCHANGED Reads, TaskMoves(t)
  PROVE  InputsCameFirst'
  <1>1. /\ Reads \in Generations /\ t \in Tasks
        /\ TasksTypeOK /\ OnTheLadder /\ InputsCameFirst
    BY ReadsAreSources DEF TasksInv
  <1>2. /\ CounterMax \in Nat /\ MaxErrors \in Nat /\ MaxPanics \in Nat
        /\ SourceTasks \cap (ProjectTasks \cup EnricherTasks) = {}
    BY ScheduledTasksAssumption
  <1>3. CASE SourceStarts(t) \/ ProjectStarts(t) \/ EnricherStarts(t)
    <2>1. CASE SourceStarts(t)
      <3>1. /\ pc' = [pc EXCEPT ![t] = IF Reads[t] = {} THEN "ticking" ELSE "waiting"]
            /\ UNCHANGED <<tried, gaveUp, cached>>
        BY <2>1 DEF SourceStarts, Go, body
      <3>2. QED
        BY <1>1, <3>1 DEF TasksTypeOK, InputsCameFirst
    <2>2. CASE ProjectStarts(t) \/ EnricherStarts(t)
      <3>1. /\ t \notin SourceTasks /\ pc' = [pc EXCEPT ![t] = "ticking"]
            /\ UNCHANGED <<tried, gaveUp, cached>>
        BY <1>2, <2>2 DEF ProjectStarts, EnricherStarts, Go, body
      <3>2. QED
        BY <1>1, <3>1 DEF TasksTypeOK, InputsCameFirst
    <2>3. QED
      BY <1>3, <2>1, <2>2
  <1>4. CASE Arrives(t)
    BY <1>1, <1>2, <1>4, LadderBounds
       DEF TasksTypeOK, InputsCameFirst, Arrives, Go, body
  <1>5. CASE GivesUp(t)
    BY <1>1, <1>2, <1>5, LadderBounds
       DEF TasksTypeOK, InputsCameFirst, GivesUp, Go
  <1>6. CASE Tick(t)
    <2>1. /\ pc[t] = "ticking" /\ gap' = [gap EXCEPT ![t] = @ + 1]
          /\ UNCHANGED <<failures, tried, gaveUp, cached, stop, errors, panics>>
      BY <1>6 DEF Tick
    <2>2. gap[t] + skip[t] + 1 = Ladder(failures[t]) /\ Ladder(failures[t]) \in 1 .. MaxBackoff
      BY <1>1, <1>2, <2>1, LadderBounds DEF TasksTypeOK, OnTheLadder
    <2>3. CASE skip[t] > 0
      <3>1. skip' = [skip EXCEPT ![t] = @ - 1] /\ pc' = pc
        BY <1>6, <2>3 DEF Tick
      <3>2. QED
        BY <1>1, <1>2, <2>1, <2>2, <2>3, <3>1 DEF TasksTypeOK, InputsCameFirst
    <2>4. CASE ~(skip[t] > 0)
      <3>1. skip' = skip /\ pc' = [pc EXCEPT ![t] = "running"]
        BY <1>6, <2>4 DEF Tick, Go
      <3>2. QED
        BY <1>1, <1>2, <2>1, <2>2, <2>4, <3>1 DEF TasksTypeOK, InputsCameFirst
    <2>5. QED
      BY <2>3, <2>4
  <1>7. CASE RunEnds(t)
    <2>1. PICK worked \in BOOLEAN : RunEnded(t, worked)
      BY <1>7, RunsEnd
    <2>2. CASE worked
      BY <1>1, <1>2, <2>1, <2>2, LadderBounds DEF TasksTypeOK, InputsCameFirst, RunEnded
    <2>3. CASE ~worked
      <3>1. PICK n \in 1 .. CounterMax : /\ failures' = [failures EXCEPT ![t] = n]
                                         /\ skip' = [skip EXCEPT ![t] = Ladder(n) - 1]
        BY <2>1, <2>3 DEF RunEnded
      <3>2. Ladder(n) \in 1 .. MaxBackoff
        BY <1>2, <3>1, LadderBounds
      <3>3. QED
        BY <1>1, <1>2, <2>1, <3>1, <3>2 DEF TasksTypeOK, InputsCameFirst, RunEnded
    <2>4. QED
      BY <2>2, <2>3
  <1>8. CASE Panic(t)
    BY <1>1, <1>2, <1>8, LadderBounds
       DEF TasksTypeOK, InputsCameFirst, Panic, Go, body
  <1>9. CASE Restart(t)
    BY <1>1, <1>2, <1>9, LadderBounds
       DEF TasksTypeOK, InputsCameFirst, Restart, Go
  <1>10. CASE Returns(t)
    BY <1>1, <1>2, <1>10, LadderBounds
       DEF TasksTypeOK, InputsCameFirst, Returns, Go, body
  <1>11. QED
    BY <1>3, <1>4, <1>5, <1>6, <1>7, <1>8, <1>9, <1>10 DEF TaskMoves

\* A step of a task moves no task but it, and a stop none.
LEMMA TasksNextInvariant == TasksInv /\ [TasksNext]_tasksVars => TasksInv'
  <1>1. SUFFICES ASSUME TasksInv, [TasksNext]_tasksVars PROVE TasksInv'
    OBVIOUS
  <1>2. CASE UNCHANGED tasksVars
    BY <1>1, <1>2
       DEF tasksVars, moving, body, TasksInv, TasksTypeOK, OnTheLadder, InputsCameFirst
  <1>3. CASE Stop /\ UNCHANGED Reads
    BY <1>1, <1>3 DEF Stop, body, TasksInv, TasksTypeOK, OnTheLadder, InputsCameFirst
  <1>4. ASSUME NEW t \in DOMAIN Reads, TaskMoves(t), UNCHANGED Reads
        PROVE  TasksInv'
    <2>1. TasksTypeOK' /\ OnTheLadder' /\ InputsCameFirst'
      BY <1>1, <1>4, TasksTypingKept, OnTheLadderKept, InputsCameFirstKept
    <2>2. \E where : pc' = [pc EXCEPT ![t] = where]
      <3>1. CASE RunEnds(t)
        BY <1>1, <1>4, <3>1, RunsEnd DEF RunEnded
      <3>2. CASE Tick(t)
        <4>1. pc' = pc \/ Go(t, "running")
          BY <3>2 DEF Tick
        <4>2. pc' = pc => Go(t, pc[t])
          BY <1>1 DEF Go, TasksInv, TasksTypeOK
        <4>3. QED
          BY <4>1, <4>2 DEF Go
      <3>3. CASE ~RunEnds(t) /\ ~Tick(t)
        BY <1>4, <3>3 DEF TaskMoves, SourceStarts, ProjectStarts, EnricherStarts, Arrives,
           GivesUp, Panic, Restart, Returns, Go
      <3>4. QED
        BY <3>1, <3>2, <3>3
    <2>3. \A u \in Tasks : pc'[u] # "none" => u \in DOMAIN Reads'
      BY <1>1, <1>4, <2>2 DEF TasksInv, TasksTypeOK
    <2>4. QED
      BY <1>1, <1>4, <2>1, <2>3 DEF TasksInv
  <1>5. QED
    BY <1>1, <1>2, <1>3, <1>4 DEF TasksNext, Step, TaskMoves

\* The inductive invariant of the scheduler's loops holds for any tasks, any
\* sources they read, and any number of failed runs, panics and restarts.
THEOREM TasksInvariant == TasksSpec => []TasksInv
  BY TasksInitInvariant, TasksNextInvariant, PTL DEF TasksSpec

\* The tasks' state keeps its types: no task sits out more than seven ticks, and
\* only a source that reads another waits.
THEOREM TasksTyping == TasksSpec => []TasksTypeOK
  <1>1. TasksInv => TasksTypeOK
    BY DEF TasksInv
  <1>2. QED
    BY <1>1, TasksInvariant, PTL

\* Attempts land where the comment of ticks_to_skip says, whatever the streak:
\* 1, 2, 4 and then always 8 ticks apart.
THEOREM AttemptsKeepTheirDistance == TasksSpec => AttemptsFollowTheLadder
  <1>1. TasksInv /\ [TasksNext]_tasksVars
          => [\A t \in Tasks : (pc[t] = "ticking" /\ pc'[t] = "running")
                                 => gap'[t] = Ladder(failures[t])]_tasksVars
    <2>1. SUFFICES ASSUME TasksInv, TasksNext, NEW t \in Tasks,
                          pc[t] = "ticking", pc'[t] = "running"
                   PROVE  gap'[t] = Ladder(failures[t])
      OBVIOUS
    <2>2. OnTheLadder' /\ TasksTypeOK /\ TasksTypeOK'
      BY <2>1, TasksNextInvariant DEF TasksInv
    <2>3. gap'[t] = Ladder(failures'[t])
      BY <2>1, <2>2 DEF OnTheLadder
    <2>4. failures'[t] = failures[t]
      <3>1. ~Stop
        BY <2>1 DEF Stop
      <3>2. PICK u \in DOMAIN Reads : TaskMoves(u)
        BY <2>1, <3>1 DEF TasksNext, Step, TaskMoves
      <3>3. CASE RunEnds(u)
        <4>1. pc' = [pc EXCEPT ![u] = "ticking"]
          BY <2>1, <3>3, RunsEnd DEF RunEnded
        <4>2. QED
          BY <2>1, <2>2, <4>1 DEF TasksTypeOK
      <3>4. CASE Restart(u)
        BY <2>1, <2>2, <3>4 DEF Restart, Go, TasksTypeOK
      <3>5. CASE ~RunEnds(u) /\ ~Restart(u)
        BY <3>2, <3>5 DEF TaskMoves, SourceStarts, ProjectStarts, EnricherStarts, Arrives,
           GivesUp, Tick, Panic, Returns, body
      <3>6. QED
        BY <3>3, <3>4, <3>5
    <2>5. QED
      BY <2>3, <2>4
  <1>2. QED
    BY <1>1, TasksInvariant, PTL DEF TasksSpec, AttemptsFollowTheLadder

\* A source that reads the hosts of another (wait_for_dependency) fails its first
\* run only by itself, in whatever order the tasks start, unless it waited for
\* the other's data as long as it may.
THEOREM StartOrderCostsNothing == TasksSpec => StartOrderIsFree
  <1>1. TasksInv /\ [TasksNext]_tasksVars
          => [\A s \in SourceTasks : (~tried[s] /\ tried'[s] /\ failures'[s] > 0 /\ ~gaveUp[s])
                                       => errors' > errors]_tasksVars
    <2>1. SUFFICES ASSUME TasksInv, TasksNext, NEW s \in SourceTasks,
                          ~tried[s], tried'[s], failures'[s] > 0, ~gaveUp[s]
                   PROVE  errors' > errors
      OBVIOUS
    <2>2. TasksTypeOK /\ InputsCameFirst /\ s \in Tasks
      BY <2>1 DEF TasksInv, Tasks
    <2>3. ~Stop
      BY <2>1 DEF Stop, body
    <2>4. PICK t \in DOMAIN Reads : TaskMoves(t)
      BY <2>1, <2>3 DEF TasksNext, Step, TaskMoves
    <2>5. t \in Tasks
      BY <2>1, ReadsAreSources DEF TasksInv
    <2>6. CASE RunEnds(t)
      <3>1. PICK worked \in BOOLEAN : RunEnded(t, worked)
        BY <2>1, <2>6, RunsEnd
      <3>2. t = s
        BY <2>1, <2>2, <3>1 DEF RunEnded, TasksTypeOK
      <3>3. ~worked
        BY <2>1, <2>2, <3>1, <3>2 DEF RunEnded, TasksTypeOK
      <3>4. Reads[t] \subseteq cached
        BY <2>1, <2>2, <3>1, <3>2 DEF RunEnded, InputsCameFirst
      <3>5. errors' # errors /\ errors' \in errors .. MaxErrors /\ errors \in Nat
        BY <2>2, <3>1, <3>3, <3>4 DEF RunEnded, TasksTypeOK
      <3>6. QED
        BY <3>5, ScheduledTasksAssumption
    <2>7. CASE Restart(t)
      <3>1. tried' = [tried EXCEPT ![t] = FALSE]
        BY <2>7 DEF Restart
      <3>2. QED
        BY <2>1, <2>2, <3>1 DEF TasksTypeOK
    <2>8. CASE ~RunEnds(t) /\ ~Restart(t)
      BY <2>1, <2>4, <2>8 DEF TaskMoves, SourceStarts, ProjectStarts, EnricherStarts, Arrives,
         GivesUp, Tick, Panic, Returns, body
    <2>9. QED
      BY <2>6, <2>7, <2>8
  <1>2. QED
    BY <1>1, TasksInvariant, PTL DEF TasksSpec, StartOrderIsFree
====
