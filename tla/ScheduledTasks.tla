--------------------------- MODULE ScheduledTasks ---------------------------
(***************************************************************************)
(* The loops of the scheduler (adapters/in/scheduler/mod.rs): one task per *)
(* source, project and enricher, run by a supervisor that restarts it when *)
(* it panics, paced by a ticker, backing off while its runs fail, and a    *)
(* source first waiting for the source it takes its hosts from.            *)
(*                                                                         *)
(* Time is the ticks of each task.  A run's own steps are in SourceSync.   *)
(***************************************************************************)
EXTENDS Naturals

CONSTANTS
    SourceTasks, ProjectTasks, EnricherTasks,
    Generations,    \* what may be configured: [its tasks -> the sources each needs
                    \* data of, the one of hosts_from or an enricher's target]
    CounterMax,     \* u32::MAX, which the failure counter saturates at
    MaxErrors,      \* bound on the runs that fail although they need not
    MaxPanics       \* bound on the panics

Tasks == SourceTasks \cup ProjectTasks \cup EnricherTasks

ASSUME ScheduledTasksAssumption ==
    /\ SourceTasks \cap (ProjectTasks \cup EnricherTasks) = {}
    /\ ProjectTasks \cap EnricherTasks = {}
    /\ \A g \in Generations :
          /\ DOMAIN g \subseteq Tasks
          /\ \A t \in DOMAIN g : g[t] \subseteq SourceTasks \cap DOMAIN g
    /\ {CounterMax, MaxErrors, MaxPanics} \subseteq Nat /\ CounterMax > 7

VARIABLES
    Reads,      \* the configuration of this generation
    pc,         \* [Tasks -> where the body is]
    failures,   \* [Tasks -> consecutive_failures of the body]
    skip,       \* [Tasks -> ticks it still sits out]
    gap,        \* [Tasks -> ticks since the last attempt of the body]
    tried,      \* [Tasks -> the body has attempted a run]
    gaveUp,     \* [Tasks -> the body waited out its budget for the sources it reads]
    cached,     \* sources with a cache entry
    stop,       \* the generation was told to stop
    errors, panics

body == <<failures, skip, gap, tried, gaveUp>>
moving == <<pc, body, cached, stop, errors, panics>>
tasksVars == <<Reads, moving>>

MaxBackoff == 8     \* MAX_BACKOFF_INTERVALS

Smaller(a, b) == IF a < b THEN a ELSE b

\* 2u32.saturating_pow(n)
Pow2[n \in Nat] == IF n = 0 THEN 1 ELSE Smaller(2 * Pow2[n - 1], CounterMax)

ticks_to_skip(n) == IF n = 0 THEN 0 ELSE Smaller(Pow2[n - 1], MaxBackoff) - 1

TasksTypeOK ==
    /\ pc \in [Tasks -> {"none", "starting", "waiting", "ticking", "running", "restarting",
                         "returned"}]
    /\ \A t \in Tasks : pc[t] = "waiting" => t \in SourceTasks \cap DOMAIN Reads /\ Reads[t] # {}
    /\ failures \in [Tasks -> 0 .. CounterMax]
    /\ skip \in [Tasks -> 0 .. MaxBackoff - 1] /\ gap \in [Tasks -> 0 .. MaxBackoff]
    /\ {tried, gaveUp} \subseteq [Tasks -> BOOLEAN]
    /\ cached \subseteq SourceTasks /\ stop \in BOOLEAN
    /\ errors \in 0 .. MaxErrors /\ panics \in 0 .. MaxPanics

\* A new generation; a source may have data of the last one, or of a snapshot.
TasksInit ==
    /\ Reads \in Generations
    /\ pc = [t \in Tasks |-> IF t \in DOMAIN Reads THEN "starting" ELSE "none"]
    /\ failures = [t \in Tasks |-> 0] /\ skip = [t \in Tasks |-> 0] /\ gap = [t \in Tasks |-> 0]
    /\ tried = [t \in Tasks |-> FALSE] /\ gaveUp = [t \in Tasks |-> FALSE]
    /\ cached \in SUBSET (SourceTasks \cap DOMAIN Reads)
    /\ stop = FALSE /\ errors = 0 /\ panics = 0

Go(t, where) == pc' = [pc EXCEPT ![t] = where]

-----------------------------------------------------------------------------
(* The start of a body.                                                    *)

\* The jitter has passed.
SourceStarts(s) ==
    /\ s \in SourceTasks /\ pc[s] = "starting"
    /\ Go(s, IF Reads[s] = {} THEN "ticking" ELSE "waiting")
    /\ UNCHANGED <<body, cached, stop, errors, panics>>

\* wait_for_dependency, answered or out of its DEPENDENCY_WAIT_SECONDS.
Arrives(s) ==
    /\ pc[s] = "waiting" /\ Reads[s] \subseteq cached
    /\ Go(s, "ticking")
    /\ UNCHANGED <<body, cached, stop, errors, panics>>

\* Faulty variant: the wait for another source has no end.
GivesUp_Never(s) == FALSE /\ UNCHANGED moving

GivesUp(s) ==
    /\ pc[s] = "waiting"
    /\ Go(s, "ticking")
    /\ gaveUp' = [gaveUp EXCEPT ![s] = TRUE]
    /\ UNCHANGED <<failures, skip, gap, tried, cached, stop, errors, panics>>

\* The boot cloned already: the first tick, which is immediate, is passed over.
ProjectStarts(p) ==
    /\ p \in ProjectTasks /\ pc[p] = "starting"
    /\ Go(p, "ticking")
    /\ UNCHANGED <<body, cached, stop, errors, panics>>

EnricherStarts(e) ==
    /\ e \in EnricherTasks /\ pc[e] = "starting"
    /\ Go(e, "ticking")
    /\ UNCHANGED <<body, cached, stop, errors, panics>>

-----------------------------------------------------------------------------
(* The loop.                                                               *)

\* A tick, or the next occurrence of a cron schedule.  The ones a run outlasts
\* are dropped.
Tick(t) ==
    /\ pc[t] = "ticking"
    /\ gap' = [gap EXCEPT ![t] = @ + 1]
    /\ IF skip[t] > 0
       THEN skip' = [skip EXCEPT ![t] = @ - 1] /\ UNCHANGED pc
       ELSE Go(t, "running") /\ UNCHANGED skip
    /\ UNCHANGED <<failures, tried, gaveUp, cached, stop, errors, panics>>

\* Faulty variant: the streak is not counted up.
Failed_KeepsStreak(t) ==
    /\ failures' = [failures EXCEPT ![t] = Smaller(@ + 1, CounterMax)]
    /\ skip' = [skip EXCEPT ![t] = ticks_to_skip(failures[t])]

Failed(t) ==
    /\ failures' = [failures EXCEPT ![t] = Smaller(@ + 1, CounterMax)]
    /\ skip' = [skip EXCEPT ![t] = ticks_to_skip(failures'[t])]

Succeeded(t) == failures' = [failures EXCEPT ![t] = 0] /\ UNCHANGED skip

Attempted(t) ==
    /\ pc[t] = "running" /\ Go(t, "ticking")
    /\ gap' = [gap EXCEPT ![t] = 0]
    /\ tried' = [tried EXCEPT ![t] = TRUE]
    /\ UNCHANGED <<gaveUp, stop, panics>>

SyncWorks(s) ==
    /\ s \in SourceTasks /\ s \in DOMAIN Reads /\ Reads[s] \subseteq cached
    /\ Attempted(s) /\ Succeeded(s)
    /\ cached' = cached \cup {s}
    /\ UNCHANGED errors

EnrichmentWorks(e) ==
    /\ e \in EnricherTasks /\ e \in DOMAIN Reads /\ Reads[e] \subseteq cached
    /\ Attempted(e) /\ Succeeded(e)
    /\ UNCHANGED <<cached, errors>>

PullWorks(p) ==
    /\ p \in ProjectTasks
    /\ Attempted(p) /\ Succeeded(p)
    /\ UNCHANGED <<cached, errors>>

\* A source or a target that is not in the cache fails the run.
MissesData(t) ==
    /\ t \in DOMAIN Reads /\ ~(Reads[t] \subseteq cached)
    /\ Attempted(t) /\ Failed(t)
    /\ UNCHANGED <<cached, errors>>

RunFails(t) ==
    /\ errors < MaxErrors /\ errors' = errors + 1
    /\ Attempted(t) /\ Failed(t)
    /\ UNCHANGED cached

-----------------------------------------------------------------------------
(* The supervisor of a body, and the end.                                  *)

Panic(t) ==
    /\ panics < MaxPanics /\ panics' = panics + 1
    /\ pc[t] = "running" /\ Go(t, "restarting")
    /\ UNCHANGED <<body, cached, stop, errors>>

\* One restart_delay later: a new body, unless there is nothing to restart for.
Restart(t) ==
    /\ pc[t] = "restarting"
    /\ Go(t, IF stop THEN "returned" ELSE "starting")
    /\ failures' = [failures EXCEPT ![t] = 0] /\ skip' = [skip EXCEPT ![t] = 0]
    /\ gap' = [gap EXCEPT ![t] = 0]
    /\ tried' = [tried EXCEPT ![t] = FALSE] /\ gaveUp' = [gaveUp EXCEPT ![t] = FALSE]
    /\ UNCHANGED <<cached, stop, errors, panics>>

Stop ==
    /\ ~stop /\ stop' = TRUE
    /\ UNCHANGED <<pc, body, cached, errors, panics>>

\* Every wait of a body also waits for the stop signal.
Returns(t) ==
    /\ stop /\ pc[t] \in {"starting", "waiting", "ticking"} /\ Go(t, "returned")
    /\ UNCHANGED <<body, cached, stop, errors, panics>>

RunEnds(t) ==
    SyncWorks(t) \/ EnrichmentWorks(t) \/ PullWorks(t) \/ MissesData(t) \/ RunFails(t)

Step ==
    \/ Stop
    \/ \E t \in DOMAIN Reads :
          \/ SourceStarts(t) \/ ProjectStarts(t) \/ EnricherStarts(t)
          \/ Arrives(t) \/ GivesUp(t) \/ Tick(t) \/ RunEnds(t)
          \/ Panic(t) \/ Restart(t) \/ Returns(t)

TasksNext == Step /\ UNCHANGED Reads

TasksSpec == TasksInit /\ [][TasksNext]_tasksVars

\* Timers fire and runs end.  A task that is told to stop may pick a tick over
\* the signal, but not for ever.
TasksFairness ==
    \A t \in Tasks :
        /\ WF_moving(SourceStarts(t) \/ ProjectStarts(t) \/ EnricherStarts(t))
        /\ WF_moving(Arrives(t) \/ GivesUp(t)) /\ WF_moving(Tick(t)) /\ WF_moving(RunEnds(t))
        /\ WF_moving(Restart(t)) /\ SF_moving(Returns(t))

TasksFairSpec == TasksSpec /\ TasksFairness

-----------------------------------------------------------------------------
(* Properties.                                                             *)

\* What ticks_to_skip says of itself: attempts land 1, 2, 4, 8, 8... ticks
\* apart, and 1 again after a success or a restart, whatever runs, skipped
\* ticks and panics came before.
Ladder(n) == IF n < 4 THEN <<1, 1, 2, 4>>[n + 1] ELSE 8

AttemptsFollowTheLadder ==
    [][\A t \in Tasks :
          (pc[t] = "ticking" /\ pc'[t] = "running") => gap'[t] = Ladder(failures[t])]_tasksVars

\* A source that reads another one's hosts never fails its first attempt for
\* their absence, unless it waited as long as it may: start order costs no
\* failure.
StartOrderIsFree ==
    [][\A s \in SourceTasks :
          (~tried[s] /\ tried'[s] /\ failures'[s] > 0 /\ ~gaveUp[s]) => errors' > errors]_tasksVars

\* No panic, no streak of failures and no circle of sources that wait for each
\* other keeps a task from attempting a run.
EveryTaskAttempts == \A t \in Tasks : []<>(pc[t] \in {"running", "none"} \/ stop)

\* A generation that is told to stop ends, also when a task of it is waiting
\* for data, sitting out ticks or between a panic and its restart.
StopEnds == stop ~> (\A t \in Tasks : pc[t] \in {"returned", "none"})

\* So no task is ever stuck, in service or on the way out of it.
NoTaskIsStuck == EveryTaskAttempts /\ StopEnds

\* Once runs no longer fail of themselves, every source whose chain of
\* dependencies ends gets its data.
Grounded(s) == s \in DOMAIN Reads /\ (Reads[s] = {} \/ \A d \in Reads[s] : Reads[d] = {})

DataArrives == \A s \in SourceTasks : Grounded(s) => <>(s \in cached \/ stop)

\* Tasks wait no longer than they must, and never for ever (source_task.rs,
\* supervise.rs): what is checked together.
TasksRunOn == []TasksTypeOK /\ StartOrderIsFree /\ NoTaskIsStuck /\ DataArrives
=============================================================================
