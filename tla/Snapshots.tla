----------------------------- MODULE Snapshots -----------------------------
(***************************************************************************)
(* The snapshot file over the life of the process: boot restores it, a     *)
(* task rewrites it when the cache's generation moved, and a graceful      *)
(* shutdown drains the writers and saves once more                         *)
(* (adapters/out/cache/{memory,persistence}.rs, main.rs).                  *)
(*                                                                         *)
(* Both savers export the cache entry by entry, write the temporary file   *)
(* and rename it.  Files are inodes, so that two savers sharing the        *)
(* temporary file do to each other what they do on a POSIX file system.    *)
(* An entry is the number of the write that made it, its completeness and  *)
(* its age; a crash is of the process, not of the machine.                 *)
(***************************************************************************)
EXTENDS Naturals, FiniteSets

CONSTANTS
    Sources,
    Torn,           \* what a file holds while it is being written
    StopsAtStart,   \* may SIGTERM arrive while the supervisor's handle is handed over
    MaxWrites,      \* bound on the cache writes
    MaxRestarts,    \* bound on the boots after the first
    MaxFailures,    \* bound on the saves that fail
    MaxTime         \* bound on the clock

ASSUME SnapshotsAssumption ==
    /\ IsFiniteSet(Sources) /\ StopsAtStart \in BOOLEAN
    /\ {MaxWrites, MaxRestarts, MaxFailures, MaxTime} \subseteq Nat

VARIABLES
    phase,          \* "running" | "draining" | "saving" | "exited" | "down"
    gaveUp,         \* a shutdown ran out of grace before its drain ended
    configured,     \* sources of the configuration in force
    cache,          \* [Sources -> entry], NoEntry where there is none
    generation,     \* MemoryCache::generation
    unbumped,       \* writes in the store whose bump is still to come
    run,            \* "none" | "task" | "request": the source's run in flight
    marking,        \* sources whose cold scoped run has yet to mark partial
    boot,           \* the boot task: "cloning" | "started" | "registered"
    joined,         \* main took the supervisor's handle
    tasks,          \* the supervisor's tasks that have not returned
    snapshotting,   \* the snapshot task has not returned
    saved,          \* saved_generation of the snapshot task
    step,           \* [Savers -> where it is in save()]
    left,           \* [Savers -> entries it has yet to export]
    image,          \* [Savers -> what it exported]
    intended,       \* generation the snapshot task read before saving
    fd,             \* [Savers -> inode it writes]
    sole,           \* [Savers -> nobody else wrote that inode meanwhile]
    path, tmp,      \* the two directory entries: an inode or NoFile
    content,        \* [Inodes -> image or Torn]
    skipped,        \* entries boot dropped that are still in the file
    earned,         \* writes made by syncs of the whole source
    now, writes, restarts, failures

process == <<phase, configured, restarts, gaveUp>>
memory  == <<cache, generation, unbumped, marking, earned, writes>>
saving  == <<step, left, image, intended, fd, sole, failures>>
disk    == <<path, tmp, content>>
starting == <<boot, joined>>
vars == <<process, memory, run, starting, tasks, snapshotting, saved, saving, disk, skipped, now>>

Savers == {"task", "final"}
Inodes == 1 .. 3
NoFile == 0

\* `seen` is when the process believes the data was gathered (Instant),
\* `real` when it was.
NoEntry == [version |-> 0, complete |-> FALSE, seen |-> 0, real |-> 0]
Entries == [version : 0 .. MaxWrites, complete : BOOLEAN, seen : 0 .. MaxTime, real : 0 .. MaxTime]

\* What the file says of an entry: its age when it was exported.
Exported(e) == [version |-> e.version, complete |-> e.complete,
                age |-> now - e.seen, real |-> e.real]
Empty == [s \in Sources |-> Exported(NoEntry)]
Images == [Sources -> [version : 0 .. MaxWrites, complete : BOOLEAN, age : 0 .. MaxTime, real : 0 .. MaxTime]]

\* The parser tells a torn file from a whole one.
ASSUME TornAssumption == Torn \notin Images

Up == phase \in {"running", "draining", "saving"}

TypeOK ==
    /\ phase \in {"running", "draining", "saving", "exited", "down"}
    /\ configured \subseteq Sources /\ gaveUp \in BOOLEAN
    /\ cache \in [Sources -> Entries]
    /\ generation \in Nat /\ saved \in 0 .. generation /\ intended \in 0 .. generation
    /\ unbumped \in Nat
    /\ run \in [Sources -> {"none", "task", "request"}]
    /\ marking \subseteq {s \in Sources : run[s] # "none"}
    /\ boot \in {"cloning", "started", "registered"} /\ joined \in BOOLEAN
    /\ tasks \subseteq Sources /\ snapshotting \in BOOLEAN
    /\ step \in [Savers -> {"idle", "exporting", "writing", "renaming"}]
    /\ left \in [Savers -> SUBSET Sources]
    /\ image \in [Savers -> Images] /\ content \in [Inodes -> Images \cup {Torn}]
    /\ fd \in [Savers -> Inodes \cup {NoFile}] /\ sole \in [Savers -> BOOLEAN]
    /\ {path, tmp} \subseteq Inodes \cup {NoFile}
    /\ path = tmp => path = NoFile
    /\ skipped \subseteq Sources

-----------------------------------------------------------------------------
(* Boot.                                                                   *)

\* What load() can read: a missing or unparsable file is an empty cache.
OnDisk(s) ==
    IF path = NoFile \/ content[path] = Torn THEN Exported(NoEntry) ELSE content[path][s]

\* CacheEntry::restore: the age counts from now.
Restored(s) ==
    LET e == OnDisk(s)
    IN  IF e.version = 0 THEN NoEntry
        ELSE [version |-> e.version, complete |-> e.complete,
              seen |-> now - e.age, real |-> e.real]

OnFile == {s \in Sources : OnDisk(s).version # 0}

\* One set per restored entry, one remove per dropped one: what the counter
\* reads when the snapshot task takes it as saved.
BootGeneration(conf) == Cardinality(OnFile) + Cardinality(OnFile \ conf)

NobodySaves ==
    /\ step' = [w \in Savers |-> "idle"] /\ left' = [w \in Savers |-> {}]
    /\ image' = [w \in Savers |-> Empty] /\ intended' = 0
    /\ fd' = [w \in Savers |-> NoFile] /\ sole' = [w \in Savers |-> TRUE]

\* main, up to the listener: nothing else runs yet.  The configuration may
\* have changed since the last boot.
Boot(conf) ==
    /\ \/ phase = "down"
       \/ phase = "exited" /\ step["task"] # "writing"
    /\ restarts < MaxRestarts
    /\ phase' = "running" /\ configured' = conf /\ restarts' = restarts + 1
    /\ cache' = [s \in Sources |-> IF s \in conf THEN Restored(s) ELSE NoEntry]
    /\ skipped' = OnFile \ conf
    /\ generation' = BootGeneration(conf)
    /\ saved' = BootGeneration(conf)
    /\ boot' = "cloning" /\ joined' = FALSE
    /\ tasks' = {} /\ snapshotting' = TRUE
    /\ unbumped' = 0 /\ marking' = {} /\ run' = [s \in Sources |-> "none"]
    /\ NobodySaves
    /\ UNCHANGED <<gaveUp, earned, writes, failures, disk, now>>

Init ==
    /\ phase = "running" /\ configured = Sources /\ restarts = 0 /\ gaveUp = FALSE
    /\ cache = [s \in Sources |-> NoEntry]
    /\ generation = 0 /\ unbumped = 0 /\ marking = {} /\ earned = {} /\ writes = 0
    /\ run = [s \in Sources |-> "none"]
    /\ boot = "cloning" /\ joined = FALSE
    /\ tasks = {} /\ snapshotting = TRUE
    /\ saved = 0 /\ intended = 0 /\ failures = 0
    /\ step = [w \in Savers |-> "idle"]
    /\ left = [w \in Savers |-> {}]
    /\ now = 0
    /\ image = [w \in Savers |-> Empty]
    /\ fd = [w \in Savers |-> NoFile] /\ sole = [w \in Savers |-> TRUE]
    /\ path = NoFile /\ tmp = NoFile
    /\ content = [i \in Inodes |-> Torn]
    /\ skipped = {}

\* The boot task, behind the listener: after the clones it starts the
\* supervisor, which starts its tasks unless the signal was sent.
StartSupervisor ==
    /\ Up /\ boot = "cloning"
    /\ boot' = "started"
    /\ tasks' = IF phase = "running" THEN configured ELSE {}
    /\ UNCHANGED <<process, memory, run, joined, snapshotting, saved, saving, disk, skipped, now>>

\* ... and puts its handle where main will look for it.
RegisterSupervisor ==
    /\ Up /\ boot = "started"
    /\ boot' = "registered"
    /\ UNCHANGED <<process, memory, run, joined, tasks, snapshotting, saved, saving, disk, skipped,
                   now>>

-----------------------------------------------------------------------------
(* Writers of the cache.                                                   *)

\* A scheduled task may pick its tick over the shutdown signal (select!), so
\* a run may begin while the process drains.  None begins past the bound.
StartRun(s, kind) ==
    /\ run[s] = "none" /\ writes < MaxWrites
    /\ \/ kind = "task" /\ Up /\ s \in tasks
       \/ kind = "request" /\ phase = "running" /\ s \in configured
    /\ run' = [run EXCEPT ![s] = kind]
    /\ UNCHANGED <<process, memory, starting, tasks, snapshotting, saved, saving, disk,
                   skipped, now>>

\* MemoryCache::set, merge_or_insert and remove store first, then bump.
Put(s, e) ==
    /\ cache' = [cache EXCEPT ![s] = e]
    /\ unbumped' = unbumped + 1
    /\ UNCHANGED generation

Bump ==
    /\ Up /\ unbumped > 0
    /\ unbumped' = unbumped - 1
    /\ generation' = generation + 1
    /\ UNCHANGED <<process, cache, marking, earned, writes, run, starting, tasks, snapshotting, saved, saving,
                   disk, skipped, now>>

Fresh(complete) == [version |-> writes + 1, complete |-> complete, seen |-> now, real |-> now]

\* A run of the whole source writes a complete entry.
LandFull(s) ==
    /\ Up /\ run[s] # "none" /\ s \notin marking /\ writes < MaxWrites
    /\ Put(s, Fresh(TRUE))
    /\ writes' = writes + 1
    /\ earned' = earned \cup {writes + 1}
    /\ run' = [run EXCEPT ![s] = "none"]
    /\ UNCHANGED <<process, marking, starting, tasks, snapshotting, saved, saving, disk,
                   skipped, now>>

\* A scoped run patches what is there; on a cold cache it inserts a complete
\* entry and marks it in a second operation.
LandScoped(s) ==
    /\ Up /\ run[s] = "request" /\ s \notin marking /\ writes < MaxWrites
    /\ IF cache[s].version = 0
       THEN Put(s, Fresh(TRUE)) /\ marking' = marking \cup {s} /\ UNCHANGED run
       ELSE /\ Put(s, Fresh(cache[s].complete))
            /\ run' = [run EXCEPT ![s] = "none"]
            /\ UNCHANGED marking
    /\ writes' = writes + 1
    /\ earned' = IF cache[s].version \in earned THEN earned \cup {writes + 1} ELSE earned
    /\ UNCHANGED <<process, starting, tasks, snapshotting, saved, saving, disk, skipped, now>>

\* MemoryCache::update bumps under the entry's lock.
MarkPartial(s) ==
    /\ Up /\ s \in marking
    /\ IF cache[s].version # 0
       THEN cache' = [cache EXCEPT ![s].complete = FALSE] /\ generation' = generation + 1
       ELSE UNCHANGED <<cache, generation>>
    /\ marking' = marking \ {s}
    /\ run' = [run EXCEPT ![s] = "none"]
    /\ UNCHANGED <<process, unbumped, earned, writes, starting, tasks, snapshotting, saved, saving, disk,
                   skipped, now>>

RunFails(s) ==
    /\ Up /\ run[s] # "none" /\ s \notin marking
    /\ run' = [run EXCEPT ![s] = "none"]
    /\ UNCHANGED <<process, memory, starting, tasks, snapshotting, saved, saving, disk,
                   skipped, now>>

\* A reload without the source: its entry is dropped, a run of it in flight
\* may write it back.
Remove(s) ==
    /\ phase = "running" /\ s \in configured
    /\ configured' = configured \ {s}
    /\ IF cache[s].version # 0
       THEN Put(s, NoEntry)
       ELSE UNCHANGED <<cache, unbumped, generation>>
    /\ UNCHANGED <<phase, restarts, gaveUp, marking, earned, writes, run, starting, tasks, snapshotting, saved, saving,
                   disk, skipped, now>>

-----------------------------------------------------------------------------
(* save(), for the snapshot task and for main.                             *)

Idle(w) == step[w] = "idle"

\* Faulty variant: no save while a sync runs.
StartSave_WhenQuiet ==
    /\ Up /\ snapshotting /\ Idle("task") /\ generation # saved
    /\ \A s \in Sources : run[s] = "none"
    /\ intended' = generation
    /\ step' = [step EXCEPT !["task"] = "exporting"]
    /\ left' = [left EXCEPT !["task"] = Sources]
    /\ UNCHANGED <<process, memory, run, starting, tasks, snapshotting, saved, image, fd, sole, failures,
                   disk, skipped, now>>

\* A tick of the snapshot task.  The generation is read before anything is
\* exported; when it has not moved the tick is skipped.
StartSave ==
    /\ Up /\ snapshotting /\ Idle("task") /\ generation # saved
    /\ intended' = generation
    /\ step' = [step EXCEPT !["task"] = "exporting"]
    /\ left' = [left EXCEPT !["task"] = Sources]
    /\ UNCHANGED <<process, memory, run, starting, tasks, snapshotting, saved, image, fd, sole, failures,
                   disk, skipped, now>>

\* export() clones one entry at a time; the cache is never locked as a whole.
Export(w, s) ==
    /\ Up /\ step[w] = "exporting" /\ s \in left[w]
    /\ image' = [image EXCEPT ![w][s] = Exported(cache[s])]
    /\ left' = [left EXCEPT ![w] = @ \ {s}]
    /\ UNCHANGED <<process, memory, run, starting, tasks, snapshotting, saved, step, intended, fd, sole,
                   failures, disk, skipped, now>>

\* fs::write opens the temporary file, creating or truncating it.
Target ==
    IF tmp # NoFile THEN tmp
    ELSE CHOOSE i \in Inodes : i # path /\ \A w \in Savers : step[w] = "writing" => fd[w] # i

BeginWrite(w) ==
    /\ Up /\ step[w] = "exporting" /\ left[w] = {}
    /\ LET i      == Target
           others == {v \in Savers \ {w} : step[v] = "writing" /\ fd[v] = i}
       IN  /\ tmp' = IF i = path THEN tmp ELSE i
           /\ content' = [content EXCEPT ![i] = Torn]
           /\ fd' = [fd EXCEPT ![w] = i]
           /\ sole' = [v \in Savers |-> IF v = w THEN others = {} ELSE v \notin others /\ sole[v]]
    /\ step' = [step EXCEPT ![w] = "writing"]
    /\ UNCHANGED <<process, memory, run, starting, tasks, snapshotting, saved, left, image, intended, failures,
                   path, skipped, now>>

\* Two writes of one inode that overlap may leave anything in it.  A write
\* main did not wait for ends before the runtime does.
EndWrite(w) ==
    /\ Up \/ phase = "exited"
    /\ step[w] = "writing"
    /\ \E c \in IF sole[w] THEN {image[w]} ELSE {image[w], Torn} :
          content' = [content EXCEPT ![fd[w]] = c]
    /\ step' = [step EXCEPT ![w] = "renaming"]
    /\ UNCHANGED <<process, memory, run, starting, tasks, snapshotting, saved, left, image, intended, fd, sole,
                   failures, path, tmp, skipped, now>>

\* Faulty variant: the generation is read after the save.
Saved_Now(w) == IF w = "task" THEN generation ELSE saved

\* What the snapshot task counts as saved: the generation it read.
Saved(w) == IF w = "task" THEN intended ELSE saved

\* main is done once its save has ended, either way.
Ended(w) ==
    /\ step' = [step EXCEPT ![w] = "idle"]
    /\ image' = [image EXCEPT ![w] = Empty]
    /\ fd' = [fd EXCEPT ![w] = NoFile] /\ sole' = [sole EXCEPT ![w] = TRUE]
    /\ left' = [left EXCEPT ![w] = {}]
    /\ intended' = IF w = "task" THEN 0 ELSE intended
    /\ phase' = IF w = "final" THEN "exited" ELSE phase

Renamed == path' = tmp /\ tmp' = NoFile

Rename(w) ==
    /\ Up /\ step[w] = "renaming" /\ tmp # NoFile
    /\ Renamed
    /\ skipped' = {}
    /\ saved' = Saved(w)
    /\ Ended(w)
    /\ UNCHANGED <<configured, restarts, gaveUp, memory, run, starting, tasks, snapshotting,
                   failures, content, now>>

\* A full disk, a revoked permission, or a temporary file renamed away.
SaveFails(w) ==
    /\ Up
    /\ \/ step[w] = "renaming" /\ tmp = NoFile /\ UNCHANGED failures
       \/ /\ step[w] # "idle" /\ left[w] = {} /\ failures < MaxFailures
          /\ failures' = failures + 1
    /\ Ended(w)
    /\ UNCHANGED <<configured, restarts, gaveUp, memory, run, starting, tasks, snapshotting,
                   saved, disk, skipped, now>>

-----------------------------------------------------------------------------
(* The end of the process.                                                 *)

\* SIGTERM: the listener closes, requests in flight are answered, then the
\* signal is sent and the handles registered so far are taken.
Shutdown ==
    /\ phase = "running" /\ \A s \in Sources : run[s] # "request"
    /\ StopsAtStart \/ boot # "started"
    /\ phase' = "draining"
    /\ joined' = (boot = "registered")
    /\ UNCHANGED <<configured, restarts, gaveUp, memory, run, boot, tasks, snapshotting, saved, saving, disk,
                   skipped, now>>

\* A task returns at its next wait point, never within a run.
StopTask(s) ==
    /\ phase \in {"draining", "saving"} /\ s \in tasks /\ run[s] = "none"
    /\ tasks' = tasks \ {s}
    /\ UNCHANGED <<process, memory, run, starting, snapshotting, saved, saving, disk, skipped, now>>

StopSnapshots ==
    /\ phase \in {"draining", "saving"} /\ snapshotting /\ Idle("task")
    /\ snapshotting' = FALSE
    /\ UNCHANGED <<process, memory, run, starting, tasks, saved, saving, disk, skipped, now>>

\* Faulty variant: the supervisor is not awaited.
Drained_SnapshotsOnly == boot = "registered" /\ ~snapshotting

\* The handles main awaits: the snapshot task, the boot task and, if it was
\* registered when they were taken, the supervisor.
Drained == boot = "registered" /\ (joined => tasks = {}) /\ ~snapshotting

\* The drain is awaited for shutdown_grace_seconds at most; the final save
\* then starts whatever still runs.
StartFinalSave ==
    /\ phase = "draining"
    /\ phase' = "saving"
    /\ gaveUp' = (gaveUp \/ ~Drained)
    /\ step' = [step EXCEPT !["final"] = "exporting"]
    /\ left' = [left EXCEPT !["final"] = Sources]
    /\ UNCHANGED <<configured, restarts, memory, run, starting, tasks, snapshotting, saved, image, intended, fd,
                   sole, failures, disk, skipped, now>>

Crash ==
    /\ phase # "down"
    /\ phase' = "down"
    /\ UNCHANGED <<configured, restarts, gaveUp, memory, run, starting, tasks, snapshotting, saved, saving, disk,
                   skipped, now>>

Tick ==
    /\ now < MaxTime
    /\ now' = now + 1
    /\ UNCHANGED <<process, memory, run, starting, tasks, snapshotting, saved, saving, disk,
                   skipped>>

Next ==
    \/ \E conf \in SUBSET Sources : Boot(conf)
    \/ \E s \in Sources :
          \/ \E kind \in {"task", "request"} : StartRun(s, kind)
          \/ LandFull(s) \/ LandScoped(s) \/ MarkPartial(s) \/ RunFails(s)
          \/ Remove(s) \/ StopTask(s)
    \/ StartSupervisor \/ RegisterSupervisor
    \/ Bump \/ StartSave \/ Shutdown \/ StopSnapshots \/ StartFinalSave \/ Crash \/ Tick
    \/ \E w \in Savers :
          \/ \E s \in Sources : Export(w, s)
          \/ BeginWrite(w) \/ EndWrite(w) \/ Rename(w) \/ SaveFails(w)

Spec == Init /\ [][Next]_vars

\* The timer ticks and the file system answers; a bump follows its write.
\* The grace timer fires.  Nothing makes a run end.
Fairness ==
    /\ WF_vars(StartSupervisor) /\ WF_vars(RegisterSupervisor)
    /\ WF_vars(Bump) /\ WF_vars(StartSave) /\ WF_vars(StartFinalSave)
    /\ \A w \in Savers :
          /\ \A s \in Sources : WF_vars(Export(w, s))
          /\ WF_vars(BeginWrite(w)) /\ WF_vars(EndWrite(w))
          /\ WF_vars(Rename(w) \/ SaveFails(w))

FairSpec == Spec /\ Fairness

-----------------------------------------------------------------------------
(* Properties.                                                             *)

\* A crash, a failed save or a restart at any point leaves a snapshot that
\* loads: what the file holds is the whole of some export.  Not so when a
\* shutdown gave up its drain: main's save then shares the temporary file with
\* the snapshot task's.
FileIsWhole == (~gaveUp /\ path # NoFile) => content[path] # Torn

Recorded(s) == OnDisk(s).version = cache[s].version /\ OnDisk(s).complete = cache[s].complete

\* While the snapshot task sees nothing to save the file holds every entry as
\* the cache has it: a write that lands during a save is not counted as saved.
SkippedMeansSaved ==
    (Up /\ ~gaveUp /\ unbumped = 0 /\ Idle("task") /\ generation = saved)
        => \A s \in Sources \ skipped : Recorded(s)

\* The file can be read whenever it is there, and is behind only while the
\* snapshot task knows it (persistence.rs, snapshot task).
FileIsTrusted == TypeOK /\ FileIsWhole /\ SkippedMeansSaved

\* A drained shutdown whose last save succeeds loses nothing.
GracefulExitKeepsAll ==
    [][(~gaveUp /\ phase = "saving" /\ phase' = "exited" /\ path' # path) => \A s \in Sources : Recorded(s)']_vars

\* If the process stays up, what it gathered gets to the disk.
ChangesReachTheDisk ==
    <>[](phase = "running") => <>[](\A s \in Sources \ skipped : Recorded(s))

-----------------------------------------------------------------------------
(* What the docs and comments say and the code does not do.                *)

\* "main joins the handles below before the final snapshot - so the snapshot
\* cannot serialize a cache a sync task is still mutating" (main), with no
\* grace running out.
FinalSaveSeesNoWriter == (~gaveUp /\ step["final"] # "idle") => \A s \in Sources : run[s] = "none"

\* "what is in the cache at this moment is exactly what is on disk, so it
\* counts as saved" (start_snapshot_task).
CountsAsSaved == (Up /\ unbumped = 0 /\ Idle("task") /\ generation = saved) => \A s \in Sources : Recorded(s)

\* "Restarting must not launder a hosts-only entry into a complete one"
\* (SnapshotEntry): once nothing is writing, complete means earned.
RestartsDoNotLaunder ==
    \A s \in Sources : (run[s] = "none" /\ cache[s].complete) => cache[s].version \in earned

\* "an entry that was 40s old ... comes back 40s old (plus the downtime)"
\* (docs/caching.md): the age the process reports is the age of the data.
FreshnessSurvives == \A s \in Sources : cache[s].seen = cache[s].real
=============================================================================
