---------------------------- MODULE SnapshotsProofs ----------------------------
(***************************************************************************)
(* Proofs about Snapshots: the file is whole and behind only while the     *)
(* snapshot task knows it, and a drained exit loses nothing.               *)
(***************************************************************************)
EXTENDS Snapshots, FiniteSetTheorems, TLAPS

-----------------------------------------------------------------------------
(* The invariant.                                                          *)

ImageEntries ==
    [version : 0 .. MaxWrites, complete : BOOLEAN, age : 0 .. MaxTime, real : 0 .. MaxTime]

\* What is cached is of the past, and what is not there is not complete.
SaneEntry(e) == e.seen <= now /\ (e.version = 0 => ~e.complete)

\* The same of an exported image.
SaneImage(x) == \A s \in Sources : x[s].age <= now /\ (x[s].version = 0 => ~x[s].complete)

Sane ==
    /\ now \in 0 .. MaxTime /\ writes \in 0 .. MaxWrites
    /\ \A s \in Sources : SaneEntry(cache[s])
    /\ \A w \in Savers : SaneImage(image[w])
    /\ \A i \in Inodes : content[i] # Torn => SaneImage(content[i])

\* Where savers are: the snapshot task saves a generation it has not saved,
\* and only after a shutdown gave up do both save.
SaversWait ==
    /\ \A w \in Savers : step[w] \in {"writing", "renaming"} => left[w] = {}
    /\ step["task"] # "idle" => saved < intended /\ snapshotting
    /\ step["final"] # "idle" => phase \in {"saving", "down"}
    /\ ~gaveUp => ((phase \in {"saving", "exited"} \/ step["final"] # "idle") => ~snapshotting)

\* What a saver that nobody disturbs has put where.
Files ==
    ~gaveUp =>
       /\ path # NoFile => content[path] # Torn
       /\ \A w \in Savers : step[w] = "writing" => sole[w] /\ fd[w] = tmp /\ tmp # NoFile
       /\ \A w \in Savers : step[w] = "renaming" => tmp # NoFile /\ content[tmp] = image[w]

Same(x, e) == x.version = e.version /\ x.complete = e.complete

\* As long as the generation has not moved, what the snapshot task exported is
\* what is cached.
Copied ==
    (step["task"] # "idle" /\ unbumped = 0 /\ generation = intended) =>
       \A s \in Sources \ left["task"] : Same(image["task"][s], cache[s])

\* SkippedMeansSaved, also while the snapshot task saves.
SavedIsRecorded ==
    (Up /\ ~gaveUp /\ unbumped = 0 /\ generation = saved) =>
       \A s \in Sources \ skipped : Recorded(s)

\* Who may still write the cache, from the shutdown signal on.
Draining ==
    /\ boot = "cloning" => tasks = {}
    /\ \A s \in Sources : run[s] = "task" => s \in tasks
    /\ phase \in {"draining", "saving"} => \A s \in Sources : run[s] # "request"
    /\ (~StopsAtStart /\ phase = "draining") => joined \/ boot = "cloning" \/ tasks = {}
    /\ (~StopsAtStart /\ ~gaveUp /\ phase = "saving") => boot = "registered" /\ tasks = {}

\* What main's save has exported is what is cached: nobody writes any more.
FinalCopied ==
    (~StopsAtStart /\ ~gaveUp /\ step["final"] # "idle") =>
       \A s \in Sources \ left["final"] : Same(image["final"][s], cache[s])

IInv ==
    /\ TypeOK /\ Sane /\ SaversWait /\ Files /\ Copied /\ SavedIsRecorded /\ Draining /\ FinalCopied

-----------------------------------------------------------------------------
(* Parts that a step does not touch stay.                                  *)

\* Exports and files are sane as long as none is made and no time passes.
LEMMA SaneStays ==
    ASSUME Sane, UNCHANGED <<now, writes, cache, image, content>>
    PROVE  Sane'
  BY DEF Sane, SaneEntry, SaneImage

\* The savers wait for each other as long as none moves.
LEMMA SaversWaitStays ==
    ASSUME SaversWait, UNCHANGED <<step, left, saved, intended, snapshotting, phase, gaveUp>>
    PROVE  SaversWait'
  BY DEF SaversWait

\* The files are as they should be as long as nobody touches them.
LEMMA FilesStays ==
    ASSUME Files, UNCHANGED <<gaveUp, path, tmp, content, step, sole, fd, image>>
    PROVE  Files'
  BY DEF Files

\* A copy stays one as long as neither it nor the cache changes.
LEMMA CopiedStays ==
    ASSUME Copied, UNCHANGED <<step, unbumped, generation, intended, left, image, cache>>
    PROVE  Copied'
  BY DEF Copied, Same

\* What the file says of a source, but for its age.
LEMMA OnDiskSays ==
    ASSUME NEW s
    PROVE  /\ OnDisk(s).version = IF path = NoFile \/ content[path] = Torn THEN 0
                                  ELSE content[path][s].version
           /\ OnDisk(s).complete = IF path = NoFile \/ content[path] = Torn THEN FALSE
                                   ELSE content[path][s].complete
  BY DEF OnDisk, Exported, NoEntry

\* It says the same while the file at the path is the same.
LEMMA RecordedStays ==
    ASSUME NEW s, UNCHANGED <<path, cache>>, path # NoFile => content'[path] = content[path]
    PROVE  Recorded(s) <=> Recorded(s)'
  BY DEF Recorded, OnDisk, Exported, NoEntry

\* What is recorded stays so as long as file, cache and counters do.
LEMMA SavedIsRecordedStays ==
    ASSUME SavedIsRecorded,
           UNCHANGED <<phase, gaveUp, unbumped, generation, saved, skipped, path, content, cache>>
    PROVE  SavedIsRecorded'
  BY RecordedStays DEF SavedIsRecorded, Up

\* Who may still write does not change by itself.
LEMMA DrainingStays ==
    ASSUME Draining, UNCHANGED <<boot, tasks, run, phase, joined, gaveUp>>
    PROVE  Draining'
  BY DEF Draining

\* main's copy stays one as long as neither it nor the cache changes.
LEMMA FinalCopiedStays ==
    ASSUME FinalCopied, UNCHANGED <<gaveUp, step, left, image, cache>>
    PROVE  FinalCopied'
  BY DEF FinalCopied, Same

-----------------------------------------------------------------------------
(* Entries, images and inodes.                                             *)

\* What an entry is exported as.
LEMMA ExportedIsSane ==
    ASSUME NEW e \in Entries, SaneEntry(e), now \in 0 .. MaxTime
    PROVE  /\ Exported(e) \in ImageEntries
           /\ Exported(e).age <= now /\ (Exported(e).version = 0 => ~Exported(e).complete)
           /\ Same(Exported(e), e)
  <1>1. e.seen \in 0 .. MaxTime /\ MaxTime \in Nat
    BY SnapshotsAssumption DEF Entries
  <1>2. now - e.seen \in 0 .. MaxTime /\ now - e.seen <= now
    BY <1>1 DEF SaneEntry
  <1>3. QED
    BY <1>2 DEF Entries, ImageEntries, Exported, SaneEntry, Same

\* An absent entry is an entry.
LEMMA NoEntryIsSane == NoEntry \in Entries /\ (now \in Nat => SaneEntry(NoEntry))
  BY SnapshotsAssumption DEF NoEntry, Entries, SaneEntry

\* An image of nothing is an image.
LEMMA EmptyIsSane ==
    ASSUME now \in 0 .. MaxTime
    PROVE  Empty \in Images /\ SaneImage(Empty)
  <1>1. /\ Exported(NoEntry) \in ImageEntries
        /\ Exported(NoEntry).age <= now
        /\ Exported(NoEntry).version = 0 => ~Exported(NoEntry).complete
    BY ExportedIsSane, NoEntryIsSane, SnapshotsAssumption
  <1>2. QED
    BY <1>1 DEF Empty, Images, ImageEntries, SaneImage

\* A saver writes a file that is not the one that is read.
LEMMA TargetIsNotThePath ==
    ASSUME TypeOK, NEW w \in Savers, step[w] = "exporting"
    PROVE  Target \in Inodes /\ Target # path
  <1>1. /\ {path, tmp} \subseteq Inodes \cup {NoFile} /\ (path = tmp => path = NoFile)
        /\ fd \in [Savers -> Inodes \cup {NoFile}]
    BY DEF TypeOK
  <1>2. CASE tmp # NoFile
    BY <1>1, <1>2 DEF Target
  <1>3. CASE tmp = NoFile
    <2> DEFINE Free(i) == i # path /\ \A v \in Savers : step[v] = "writing" => fd[v] # i
    <2>1. PICK other : \A v \in Savers : step[v] = "writing" => fd[v] = other
      BY DEF Savers
    <2>2. \E i \in Inodes : i # path /\ i # other
      BY DEF Inodes
    <2>3. \E i \in Inodes : Free(i)
      BY <2>1, <2>2
    <2>4. Target = CHOOSE i \in Inodes : Free(i)
      BY <1>3 DEF Target
    <2> HIDE DEF Free
    <2>5. Target \in Inodes /\ Free(Target)
      BY <2>3, <2>4
    <2>6. QED
      BY <2>5 DEF Free
  <1>4. QED
    BY <1>2, <1>3

\* Without a shutdown that gave up one saver is at work at a time.
LEMMA OneSaverAtATime ==
    ASSUME SaversWait, ~gaveUp, NEW w \in Savers, NEW v \in Savers, w # v, step[w] # "idle"
    PROVE  step[v] = "idle"
  BY DEF SaversWait, Savers

\* Nobody who runs is there when main saves.
LEMMA NoRunWhileMainSaves ==
    ASSUME TypeOK, Draining, SaversWait, Up, NEW s \in Sources, run[s] # "none",
           ~StopsAtStart, ~gaveUp
    PROVE  step["final"] = "idle"
  <1>1. run[s] \in {"task", "request"}
    BY DEF TypeOK
  <1>2. phase # "saving"
    BY <1>1 DEF Draining
  <1>3. QED
    BY <1>2 DEF SaversWait, Up

-----------------------------------------------------------------------------
(* The supervisor and the runs.                                            *)

\* The supervisor starts tasks unless the process drains.
LEMMA StartSupervisorInvariant ==
    ASSUME IInv, StartSupervisor
    PROVE  IInv'
  <1>1. /\ boot = "cloning" /\ boot' = "started"
        /\ tasks' = IF phase = "running" THEN configured ELSE {}
        /\ UNCHANGED <<process, memory, run, joined, snapshotting, saved, saving, disk, skipped,
                       now>>
    BY DEF StartSupervisor
  <1>2. TypeOK'
    BY <1>1 DEF IInv, TypeOK, process, memory, saving, disk, Entries, Images
  <1>3. Draining'
    BY <1>1 DEF IInv, TypeOK, Draining, process
  <1>4. QED
    BY <1>1, <1>2, <1>3, SaneStays, SaversWaitStays, FilesStays, CopiedStays,
       SavedIsRecordedStays, FinalCopiedStays DEF IInv, process, memory, saving, disk

\* Its handle is put where main looks for it.
LEMMA RegisterSupervisorInvariant ==
    ASSUME IInv, RegisterSupervisor
    PROVE  IInv'
  <1>1. /\ boot = "started" /\ boot' = "registered"
        /\ UNCHANGED <<process, memory, run, joined, tasks, snapshotting, saved, saving, disk,
                       skipped, now>>
    BY DEF RegisterSupervisor
  <1>2. TypeOK'
    BY <1>1 DEF IInv, TypeOK, process, memory, saving, disk, Entries, Images
  <1>3. Draining'
    BY <1>1 DEF IInv, Draining, process
  <1>4. QED
    BY <1>1, <1>2, <1>3, SaneStays, SaversWaitStays, FilesStays, CopiedStays,
       SavedIsRecordedStays, FinalCopiedStays DEF IInv, process, memory, saving, disk

\* A run begins.
LEMMA StartRunInvariant ==
    ASSUME IInv, NEW s \in Sources, NEW kind \in {"task", "request"}, StartRun(s, kind)
    PROVE  IInv'
  <1>1. /\ run[s] = "none" /\ run' = [run EXCEPT ![s] = kind]
        /\ kind = "task" => s \in tasks
        /\ kind = "request" => phase = "running"
        /\ UNCHANGED <<process, memory, starting, tasks, snapshotting, saved, saving, disk,
                       skipped, now>>
    BY DEF StartRun
  <1>2. \A t \in Sources : run'[t] = IF t = s THEN kind ELSE run[t]
    BY <1>1 DEF IInv, TypeOK
  <1>3. TypeOK'
    <2>1. run' \in [Sources -> {"none", "task", "request"}]
      BY <1>1 DEF IInv, TypeOK
    <2>2. marking \subseteq {t \in Sources : run'[t] # "none"}
      BY <1>2 DEF IInv, TypeOK
    <2>3. QED
      BY <1>1, <2>1, <2>2 DEF IInv, TypeOK, process, memory, starting, saving, disk, Entries, Images
  <1>4. Draining'
    BY <1>1, <1>2 DEF IInv, Draining, process, starting
  <1>5. QED
    BY <1>1, <1>3, <1>4, SaneStays, SaversWaitStays, FilesStays, CopiedStays,
       SavedIsRecordedStays, FinalCopiedStays DEF IInv, process, memory, saving, disk

\* A run ends: the rest of the processes are as they were.
LEMMA RunEnds ==
    ASSUME TypeOK, Draining, NEW s \in Sources, run' = [run EXCEPT ![s] = "none"],
           UNCHANGED <<boot, tasks, phase, joined, gaveUp>>
    PROVE  /\ Draining' /\ run' \in [Sources -> {"none", "task", "request"}]
           /\ \A t \in Sources : run'[t] = IF t = s THEN "none" ELSE run[t]
  <1>1. /\ run' \in [Sources -> {"none", "task", "request"}]
        /\ \A t \in Sources : run'[t] = IF t = s THEN "none" ELSE run[t]
    BY DEF TypeOK
  <1>2. QED
    BY <1>1 DEF Draining

\* A run fails.
LEMMA RunFailsInvariant ==
    ASSUME IInv, NEW s \in Sources, RunFails(s)
    PROVE  IInv'
  <1>1. /\ s \notin marking /\ run' = [run EXCEPT ![s] = "none"]
        /\ UNCHANGED <<process, memory, starting, tasks, snapshotting, saved, saving, disk,
                       skipped, now>>
    BY DEF RunFails
  <1>2. /\ Draining' /\ run' \in [Sources -> {"none", "task", "request"}]
        /\ \A t \in Sources : run'[t] = IF t = s THEN "none" ELSE run[t]
    BY <1>1, RunEnds DEF IInv, process, starting
  <1>3. marking \subseteq {t \in Sources : run'[t] # "none"}
    BY <1>1, <1>2 DEF IInv, TypeOK
  <1>4. TypeOK'
    BY <1>1, <1>2, <1>3 DEF IInv, TypeOK, process, memory, starting, saving, disk, Entries, Images
  <1>5. QED
    BY <1>1, <1>2, <1>4, SaneStays, SaversWaitStays, FilesStays, CopiedStays,
       SavedIsRecordedStays, FinalCopiedStays DEF IInv, process, memory, saving, disk

\* A task returns.
LEMMA StopTaskInvariant ==
    ASSUME IInv, NEW s \in Sources, StopTask(s)
    PROVE  IInv'
  <1>1. /\ run[s] = "none" /\ tasks' = tasks \ {s}
        /\ UNCHANGED <<process, memory, run, starting, snapshotting, saved, saving, disk,
                       skipped, now>>
    BY DEF StopTask
  <1>2. TypeOK'
    BY <1>1 DEF IInv, TypeOK, process, memory, starting, saving, disk, Entries, Images
  <1>3. Draining'
    BY <1>1 DEF IInv, Draining, process, starting
  <1>4. QED
    BY <1>1, <1>2, <1>3, SaneStays, SaversWaitStays, FilesStays, CopiedStays,
       SavedIsRecordedStays, FinalCopiedStays DEF IInv, process, memory, saving, disk

-----------------------------------------------------------------------------
(* Writes of the cache.                                                    *)

\* A write of the store: whatever was being saved, a bump is to come.
LEMMA PutInvariant ==
    ASSUME IInv, NEW s \in Sources, NEW e \in Entries, SaneEntry(e), Put(s, e),
           writes' \in 0 .. MaxWrites,
           (~StopsAtStart /\ ~gaveUp) => step["final"] = "idle",
           UNCHANGED <<saving, disk, saved, snapshotting, phase, gaveUp, skipped, now>>
    PROVE  /\ cache' \in [Sources -> Entries] /\ unbumped' \in Nat /\ generation' = generation
           /\ Sane' /\ SaversWait' /\ Files' /\ Copied' /\ SavedIsRecorded' /\ FinalCopied'
  <1>1. /\ cache' = [cache EXCEPT ![s] = e] /\ unbumped' = unbumped + 1
        /\ generation' = generation /\ unbumped \in Nat /\ cache \in [Sources -> Entries]
    BY DEF IInv, TypeOK, Put
  <1>2. \A t \in Sources : cache'[t] = IF t = s THEN e ELSE cache[t]
    BY <1>1
  <1>3. Sane'
    BY <1>2 DEF IInv, Sane, SaneEntry, SaneImage, saving, disk
  <1>4. unbumped' # 0
    BY <1>1
  <1>5. Copied' /\ SavedIsRecorded'
    BY <1>4 DEF Copied, SavedIsRecorded
  <1>6. FinalCopied'
    BY DEF FinalCopied, saving
  <1>7. SaversWait' /\ Files'
    BY SaversWaitStays, FilesStays DEF IInv, saving, disk
  <1>8. QED
    BY <1>1, <1>3, <1>5, <1>6, <1>7

\* A run of the whole source lands.
LEMMA LandFullInvariant ==
    ASSUME IInv, NEW s \in Sources, LandFull(s)
    PROVE  IInv'
  <1>1. /\ Up /\ run[s] # "none" /\ s \notin marking /\ writes < MaxWrites
        /\ Put(s, Fresh(TRUE)) /\ writes' = writes + 1 /\ run' = [run EXCEPT ![s] = "none"]
        /\ UNCHANGED <<process, marking, starting, tasks, snapshotting, saved, saving, disk,
                       skipped, now>>
    BY DEF LandFull
  <1>2. /\ Fresh(TRUE) \in Entries /\ SaneEntry(Fresh(TRUE)) /\ writes' \in 0 .. MaxWrites
    BY <1>1, SnapshotsAssumption DEF IInv, Sane, Fresh, Entries, SaneEntry
  <1>3. (~StopsAtStart /\ ~gaveUp) => step["final"] = "idle"
    BY <1>1, NoRunWhileMainSaves DEF IInv
  <1>4. /\ cache' \in [Sources -> Entries] /\ unbumped' \in Nat /\ generation' = generation
        /\ Sane' /\ SaversWait' /\ Files' /\ Copied' /\ SavedIsRecorded' /\ FinalCopied'
    BY <1>1, <1>2, <1>3, PutInvariant DEF process
  <1>5. /\ Draining' /\ run' \in [Sources -> {"none", "task", "request"}]
        /\ \A t \in Sources : run'[t] = IF t = s THEN "none" ELSE run[t]
    BY <1>1, RunEnds DEF IInv, process, starting
  <1>6. marking \subseteq {t \in Sources : run'[t] # "none"}
    BY <1>1, <1>5 DEF IInv, TypeOK
  <1>7. TypeOK'
    BY <1>1, <1>4, <1>5, <1>6 DEF IInv, TypeOK, process, starting, saving, disk, Images
  <1>8. QED
    BY <1>4, <1>5, <1>7 DEF IInv

\* A scoped run patches the entry, or inserts one it has yet to mark.
LEMMA LandScopedInvariant ==
    ASSUME IInv, NEW s \in Sources, LandScoped(s)
    PROVE  IInv'
  <1>1. /\ Up /\ run[s] # "none" /\ s \notin marking /\ writes < MaxWrites /\ writes' = writes + 1
        /\ UNCHANGED <<process, starting, tasks, snapshotting, saved, saving, disk, skipped, now>>
    BY DEF LandScoped
  <1>2. PICK complete \in BOOLEAN : Put(s, Fresh(complete))
    <2>1. cache[s].complete \in BOOLEAN
      BY DEF IInv, TypeOK, Entries
    <2>2. QED
      BY <2>1 DEF LandScoped
  <1>3. \/ marking' = marking \cup {s} /\ UNCHANGED run
        \/ UNCHANGED marking /\ run' = [run EXCEPT ![s] = "none"]
    BY DEF LandScoped
  <1>4. Fresh(complete) \in Entries /\ SaneEntry(Fresh(complete)) /\ writes' \in 0 .. MaxWrites
    BY <1>1, SnapshotsAssumption DEF IInv, Sane, Fresh, Entries, SaneEntry
  <1>5. (~StopsAtStart /\ ~gaveUp) => step["final"] = "idle"
    BY <1>1, NoRunWhileMainSaves DEF IInv
  <1>6. /\ cache' \in [Sources -> Entries] /\ unbumped' \in Nat /\ generation' = generation
        /\ Sane' /\ SaversWait' /\ Files' /\ Copied' /\ SavedIsRecorded' /\ FinalCopied'
    BY <1>1, <1>2, <1>4, <1>5, PutInvariant DEF process
  <1>7. /\ Draining' /\ run' \in [Sources -> {"none", "task", "request"}]
        /\ marking' \subseteq {t \in Sources : run'[t] # "none"}
    <2>1. CASE marking' = marking \cup {s} /\ UNCHANGED run
      BY <1>1, <2>1, DrainingStays DEF IInv, TypeOK, process, starting
    <2>2. CASE UNCHANGED marking /\ run' = [run EXCEPT ![s] = "none"]
      <3>1. /\ Draining' /\ run' \in [Sources -> {"none", "task", "request"}]
            /\ \A t \in Sources : run'[t] = IF t = s THEN "none" ELSE run[t]
        BY <1>1, <2>2, RunEnds DEF IInv, process, starting
      <3>2. QED
        BY <1>1, <2>2, <3>1 DEF IInv, TypeOK
    <2>3. QED
      BY <1>3, <2>1, <2>2
  <1>8. TypeOK'
    BY <1>1, <1>6, <1>7 DEF IInv, TypeOK, process, starting, saving, disk, Images
  <1>9. QED
    BY <1>6, <1>7, <1>8 DEF IInv

\* A reload drops a source.
LEMMA RemoveInvariant ==
    ASSUME IInv, NEW s \in Sources, Remove(s)
    PROVE  IInv'
  <1>1. /\ phase = "running" /\ configured' = configured \ {s}
        /\ \/ Put(s, NoEntry)
           \/ UNCHANGED <<cache, unbumped, generation>>
        /\ UNCHANGED <<phase, restarts, gaveUp, marking, earned, writes, run, starting, tasks,
                       snapshotting, saved, saving, disk, skipped, now>>
    BY DEF Remove
  <1>2. /\ cache' \in [Sources -> Entries] /\ unbumped' \in Nat /\ generation' = generation
        /\ Sane' /\ SaversWait' /\ Files' /\ Copied' /\ SavedIsRecorded' /\ FinalCopied'
    <2>1. CASE Put(s, NoEntry)
      <3>1. NoEntry \in Entries /\ SaneEntry(NoEntry) /\ writes' \in 0 .. MaxWrites
        BY <1>1, NoEntryIsSane, SnapshotsAssumption DEF IInv, Sane
      <3>2. step["final"] = "idle"
        BY <1>1 DEF IInv, SaversWait
      <3>3. QED
        BY <1>1, <2>1, <3>1, <3>2, PutInvariant
    <2>2. CASE UNCHANGED <<cache, unbumped, generation>>
      BY <1>1, <2>2, SaneStays, SaversWaitStays, FilesStays, CopiedStays, SavedIsRecordedStays,
         FinalCopiedStays DEF IInv, TypeOK, saving, disk
    <2>3. QED
      BY <1>1, <2>1, <2>2
  <1>3. TypeOK'
    BY <1>1, <1>2 DEF IInv, TypeOK, starting, saving, disk, Images
  <1>4. Draining'
    BY <1>1, DrainingStays DEF IInv, starting
  <1>5. QED
    BY <1>2, <1>3, <1>4 DEF IInv

\* The generation moves: whatever a saver read before, it has not saved this.
LEMMA GenerationMoves ==
    ASSUME IInv, generation' = generation + 1, UNCHANGED <<saved, intended>>
    PROVE  Copied' /\ SavedIsRecorded'
  <1>1. generation \in Nat /\ saved \in 0 .. generation /\ intended \in 0 .. generation
    BY DEF IInv, TypeOK
  <1>2. generation' # intended' /\ generation' # saved'
    BY <1>1
  <1>3. QED
    BY <1>2 DEF Copied, SavedIsRecorded

\* A cold scoped run marks its entry partial.
LEMMA MarkPartialInvariant ==
    ASSUME IInv, NEW s \in Sources, MarkPartial(s)
    PROVE  IInv'
  <1>1. /\ Up /\ s \in marking /\ marking' = marking \ {s} /\ run' = [run EXCEPT ![s] = "none"]
        /\ \/ cache' = [cache EXCEPT ![s].complete = FALSE] /\ generation' = generation + 1
           \/ UNCHANGED <<cache, generation>>
        /\ UNCHANGED <<process, unbumped, earned, writes, starting, tasks, snapshotting, saved,
                       saving, disk, skipped, now>>
    BY DEF MarkPartial
  <1>2. run[s] # "none"
    BY <1>1 DEF IInv, TypeOK
  <1>3. /\ Draining' /\ run' \in [Sources -> {"none", "task", "request"}]
        /\ \A t \in Sources : run'[t] = IF t = s THEN "none" ELSE run[t]
    BY <1>1, RunEnds DEF IInv, process, starting
  <1>4. marking' \subseteq {t \in Sources : run'[t] # "none"}
    BY <1>1, <1>3 DEF IInv, TypeOK
  <1>5. SaversWait' /\ Files'
    BY <1>1, SaversWaitStays, FilesStays DEF IInv, process, saving, disk
  <1>6. /\ cache' \in [Sources -> Entries] /\ generation' \in Nat
        /\ generation' \in {generation, generation + 1}
        /\ Sane' /\ Copied' /\ SavedIsRecorded' /\ FinalCopied'
    <2>1. CASE cache' = [cache EXCEPT ![s].complete = FALSE] /\ generation' = generation + 1
      <3>1. /\ cache' \in [Sources -> Entries]
            /\ cache'[s].seen = cache[s].seen /\ cache'[s].complete = FALSE
            /\ \A t \in Sources \ {s} : cache'[t] = cache[t]
        BY <2>1 DEF IInv, TypeOK, Entries
      <3>2. Sane'
        BY <1>1, <3>1 DEF IInv, Sane, SaneEntry, SaneImage, saving, disk
      <3>3. Copied' /\ SavedIsRecorded'
        BY <1>1, <2>1, GenerationMoves DEF saving
      <3>4. (~StopsAtStart /\ ~gaveUp) => step["final"] = "idle"
        BY <1>1, <1>2, NoRunWhileMainSaves DEF IInv
      <3>5. FinalCopied'
        BY <1>1, <3>4 DEF FinalCopied, process, saving
      <3>6. QED
        BY <2>1, <3>1, <3>2, <3>3, <3>5 DEF IInv, TypeOK
    <2>2. CASE UNCHANGED <<cache, generation>>
      BY <1>1, <2>2, SaneStays, CopiedStays, SavedIsRecordedStays, FinalCopiedStays
         DEF IInv, TypeOK, process, saving, disk
    <2>3. QED
      BY <1>1, <2>1, <2>2
  <1>7. TypeOK'
    <2>1. saved' \in 0 .. generation' /\ intended' \in 0 .. generation'
      BY <1>1, <1>6 DEF IInv, TypeOK, saving
    <2>2. QED
      BY <1>1, <1>3, <1>4, <1>6, <2>1 DEF IInv, TypeOK, process, starting, saving, disk, Images
  <1>8. QED
    BY <1>3, <1>5, <1>6, <1>7 DEF IInv

\* The bump of a write.
LEMMA BumpInvariant ==
    ASSUME IInv, Bump
    PROVE  IInv'
  <1>1. /\ unbumped > 0 /\ unbumped' = unbumped - 1 /\ generation' = generation + 1
        /\ UNCHANGED <<process, cache, marking, earned, writes, run, starting, tasks, snapshotting,
                       saved, saving, disk, skipped, now>>
    BY DEF Bump
  <1>2. /\ unbumped' \in Nat /\ generation' \in Nat
        /\ saved' \in 0 .. generation' /\ intended' \in 0 .. generation'
    BY <1>1 DEF IInv, TypeOK, saving
  <1>3. TypeOK'
    BY <1>1, <1>2 DEF IInv, TypeOK, process, starting, saving, disk, Entries, Images
  <1>4. Copied' /\ SavedIsRecorded'
    BY <1>1, GenerationMoves DEF saving
  <1>5. QED
    BY <1>1, <1>3, <1>4, SaneStays, SaversWaitStays, FilesStays, DrainingStays, FinalCopiedStays
       DEF IInv, process, starting, saving, disk

-----------------------------------------------------------------------------
(* Saves.                                                                  *)

\* The snapshot task begins to save a generation it has not saved.
LEMMA StartSaveInvariant ==
    ASSUME IInv, StartSave
    PROVE  IInv'
  <1>1. /\ Up /\ snapshotting /\ step["task"] = "idle" /\ generation # saved
        /\ intended' = generation
        /\ step' = [step EXCEPT !["task"] = "exporting"]
        /\ left' = [left EXCEPT !["task"] = Sources]
        /\ UNCHANGED <<process, memory, run, starting, tasks, snapshotting, saved, image, fd, sole,
                       failures, disk, skipped, now>>
    BY DEF StartSave, Idle
  <1>2. /\ step' \in [Savers -> {"idle", "exporting", "writing", "renaming"}]
        /\ left' \in [Savers -> SUBSET Sources]
        /\ step'["task"] = "exporting" /\ step'["final"] = step["final"]
        /\ left'["task"] = Sources /\ left'["final"] = left["final"]
    BY <1>1 DEF IInv, TypeOK, Savers
  <1>3. TypeOK'
    BY <1>1, <1>2 DEF IInv, TypeOK, process, memory, starting, disk, Entries, Images
  <1>4. SaversWait'
    BY <1>1, <1>2 DEF IInv, TypeOK, SaversWait, Savers, process
  <1>5. Files'
    BY <1>1, <1>2 DEF IInv, Files, Savers, process, disk
  <1>6. Copied' /\ FinalCopied'
    BY <1>1, <1>2 DEF IInv, Copied, FinalCopied, Same, process, memory
  <1>7. QED
    BY <1>1, <1>3, <1>4, <1>5, <1>6, SaneStays, SavedIsRecordedStays, DrainingStays
       DEF IInv, process, memory, starting, disk

\* One more entry is exported.
LEMMA ExportInvariant ==
    ASSUME IInv, NEW w \in Savers, NEW s \in Sources, Export(w, s)
    PROVE  IInv'
  <1>1. /\ step[w] = "exporting" /\ s \in left[w]
        /\ image' = [image EXCEPT ![w][s] = Exported(cache[s])]
        /\ left' = [left EXCEPT ![w] = left[w] \ {s}]
        /\ UNCHANGED <<process, memory, run, starting, tasks, snapshotting, saved, step, intended,
                       fd, sole, failures, disk, skipped, now>>
    BY DEF Export
  <1>2. /\ Exported(cache[s]) \in ImageEntries
        /\ Exported(cache[s]).age <= now
        /\ Exported(cache[s]).version = 0 => ~Exported(cache[s]).complete
        /\ Same(Exported(cache[s]), cache[s])
    BY ExportedIsSane DEF IInv, TypeOK, Sane
  <1>3. /\ image \in [Savers -> [Sources -> ImageEntries]] /\ left \in [Savers -> SUBSET Sources]
    BY DEF IInv, TypeOK, Images, ImageEntries
  <1>4. /\ image' \in [Savers -> [Sources -> ImageEntries]]
        /\ \A v \in Savers \ {w} : image'[v] = image[v]
        /\ \A t \in Sources : image'[w][t] = IF t = s THEN Exported(cache[s]) ELSE image[w][t]
    BY <1>1, <1>2, <1>3
  <1>5. /\ left' \in [Savers -> SUBSET Sources] /\ left'[w] = left[w] \ {s}
        /\ \A v \in Savers \ {w} : left'[v] = left[v]
    BY <1>1, <1>3
  <1>6. TypeOK'
    BY <1>1, <1>4, <1>5 DEF IInv, TypeOK, process, memory, starting, disk, Entries, Images,
       ImageEntries
  <1>7. Sane'
    BY <1>1, <1>2, <1>4 DEF IInv, Sane, SaneEntry, SaneImage, memory, disk
  <1>8. SaversWait' /\ Files'
    BY <1>1, <1>4, <1>5 DEF IInv, SaversWait, Files, process, disk
  <1>9. Copied' /\ FinalCopied'
    <2>1. \A v \in Savers : (\A t \in Sources \ left[v] : Same(image[v][t], cache[t]))
                              => \A t \in Sources \ left'[v] : Same(image'[v][t], cache[t])
      BY <1>1, <1>2, <1>4, <1>5
    <2>2. "task" \in Savers /\ "final" \in Savers
      BY DEF Savers
    <2>3. QED
      BY <1>1, <2>1, <2>2 DEF IInv, Copied, FinalCopied, Same, process, memory
  <1>10. QED
    BY <1>1, <1>6, <1>7, <1>8, <1>9, SavedIsRecordedStays, DrainingStays
       DEF IInv, process, memory, starting, disk

\* The temporary file is opened, and truncated.
LEMMA BeginWriteInvariant ==
    ASSUME IInv, NEW w \in Savers, BeginWrite(w)
    PROVE  IInv'
  <1> DEFINE i == Target
             others == {v \in Savers \ {w} : step[v] = "writing" /\ fd[v] = i}
  <1>1. /\ step[w] = "exporting" /\ left[w] = {}
        /\ tmp' = IF i = path THEN tmp ELSE i
        /\ content' = [content EXCEPT ![i] = Torn]
        /\ fd' = [fd EXCEPT ![w] = i]
        /\ sole' = [v \in Savers |-> IF v = w THEN others = {} ELSE v \notin others /\ sole[v]]
        /\ step' = [step EXCEPT ![w] = "writing"]
        /\ UNCHANGED <<process, memory, run, starting, tasks, snapshotting, saved, left, image,
                       intended, failures, path, skipped, now>>
    BY DEF BeginWrite
  <1>2. i \in Inodes /\ i # path
    BY <1>1, TargetIsNotThePath DEF IInv
  <1>3. NoFile \notin Inodes
    BY DEF NoFile, Inodes
  <1>4. /\ tmp' = i /\ tmp' # path /\ tmp' # NoFile
        /\ content' \in [Inodes -> Images \cup {Torn}] /\ content'[i] = Torn
        /\ \A j \in Inodes \ {i} : content'[j] = content[j]
    BY <1>1, <1>2, <1>3 DEF IInv, TypeOK
  <1>5. /\ fd' \in [Savers -> Inodes \cup {NoFile}] /\ fd'[w] = i
        /\ step' \in [Savers -> {"idle", "exporting", "writing", "renaming"}]
        /\ step'[w] = "writing" /\ \A v \in Savers \ {w} : step'[v] = step[v]
    BY <1>1, <1>2 DEF IInv, TypeOK
  <1>6. sole' \in [Savers -> BOOLEAN] /\ sole'[w] = (others = {})
    <2>1. \A v \in Savers : (IF v = w THEN others = {} ELSE v \notin others /\ sole[v]) \in BOOLEAN
      BY DEF IInv, TypeOK
    <2>2. QED
      BY <1>1, <2>1
  <1>7. ~gaveUp => /\ others = {}
                   /\ \A v \in Savers \ {w} : step[v] = "idle"
    <2>1. ~gaveUp => \A v \in Savers \ {w} : step[v] = "idle"
      BY <1>1, OneSaverAtATime DEF IInv
    <2>2. QED
      BY <2>1
  <1> HIDE DEF i, others
  <1>8. TypeOK'
    BY <1>1, <1>2, <1>4, <1>5, <1>6 DEF IInv, TypeOK, process, memory, starting, Entries, Images
  <1>9. Sane'
    BY <1>1, <1>4 DEF IInv, Sane, SaneEntry, SaneImage, memory
  <1>10. SaversWait'
    BY <1>1, <1>5 DEF IInv, SaversWait, Savers, process
  <1>11. path # NoFile => content'[path] = content[path]
    BY <1>2, <1>4 DEF IInv, TypeOK
  <1>12. Files'
    BY <1>1, <1>4, <1>5, <1>6, <1>7, <1>11 DEF IInv, Files, process
  <1>13. Copied' /\ FinalCopied'
    BY <1>1, <1>5 DEF IInv, Copied, FinalCopied, Same, Savers, process, memory
  <1>14. SavedIsRecorded'
    BY <1>1, <1>11, RecordedStays DEF IInv, SavedIsRecorded, Up, process, memory
  <1>15. QED
    BY <1>1, <1>8, <1>9, <1>10, <1>12, <1>13, <1>14, DrainingStays DEF IInv, process, starting

\* The file is written.
LEMMA EndWriteInvariant ==
    ASSUME IInv, NEW w \in Savers, EndWrite(w)
    PROVE  IInv'
  <1>1. /\ step[w] = "writing" /\ step' = [step EXCEPT ![w] = "renaming"]
        /\ UNCHANGED <<process, memory, run, starting, tasks, snapshotting, saved, left, image,
                       intended, fd, sole, failures, path, tmp, skipped, now>>
    BY DEF EndWrite
  <1>2. PICK c \in {image[w], Torn} :
           /\ content' = [content EXCEPT ![fd[w]] = c]
           /\ sole[w] => c = image[w]
    BY DEF EndWrite
  <1>3. /\ image[w] \in Images /\ content \in [Inodes -> Images \cup {Torn}]
        /\ content' \in [Inodes -> Images \cup {Torn}]
        /\ \A j \in Inodes : content'[j] = IF j = fd[w] THEN c ELSE content[j]
    BY <1>2 DEF IInv, TypeOK
  <1>4. /\ step' \in [Savers -> {"idle", "exporting", "writing", "renaming"}]
        /\ step'[w] = "renaming" /\ \A v \in Savers \ {w} : step'[v] = step[v]
    BY <1>1 DEF IInv, TypeOK
  <1>5. TypeOK'
    BY <1>1, <1>3, <1>4 DEF IInv, TypeOK, process, memory, starting, Entries, Images
  <1>6. Sane'
    BY <1>1, <1>3 DEF IInv, Sane, SaneEntry, SaneImage, memory
  <1>7. SaversWait'
    BY <1>1, <1>4 DEF IInv, SaversWait, Savers, process
  <1>8. ~gaveUp => /\ fd[w] = tmp /\ tmp \in Inodes /\ tmp # path /\ content'[tmp] = image[w]
                   /\ \A v \in Savers \ {w} : step[v] = "idle"
    <2>1. ~gaveUp => sole[w] /\ fd[w] = tmp /\ tmp # NoFile
      BY <1>1 DEF IInv, Files
    <2>2. tmp # NoFile => tmp \in Inodes /\ tmp # path
      BY DEF IInv, TypeOK
    <2>3. ~gaveUp => \A v \in Savers \ {w} : step[v] = "idle"
      BY <1>1, OneSaverAtATime DEF IInv
    <2>4. QED
      BY <1>2, <1>3, <2>1, <2>2, <2>3
  <1>9. ~gaveUp /\ path # NoFile => content'[path] = content[path]
    BY <1>3, <1>8 DEF IInv, TypeOK
  <1>10. Files'
    BY <1>1, <1>4, <1>8, <1>9 DEF IInv, Files, process, NoFile, Inodes
  <1>11. Copied' /\ FinalCopied'
    BY <1>1, <1>4 DEF IInv, Copied, FinalCopied, Same, Savers, process, memory
  <1>12. SavedIsRecorded'
    BY <1>1, <1>9, RecordedStays DEF IInv, SavedIsRecorded, Up, process, memory
  <1>13. QED
    BY <1>1, <1>5, <1>6, <1>7, <1>10, <1>11, <1>12, DrainingStays DEF IInv, process, starting

\* A save is over, well or not.
LEMMA EndedInvariant ==
    ASSUME IInv, NEW w \in Savers, step[w] # "idle", Ended(w), saved' \in {saved, Saved(w)},
           UNCHANGED <<configured, restarts, gaveUp, memory, run, starting, tasks, snapshotting,
                       content, now>>,
           {path', tmp'} \subseteq Inodes \cup {NoFile}, path' = tmp' => path' = NoFile,
           skipped' \subseteq Sources
    PROVE  /\ TypeOK' /\ Sane' /\ SaversWait' /\ Copied' /\ Draining' /\ FinalCopied'
           /\ step'[w] = "idle" /\ phase' = IF w = "final" THEN "exited" ELSE phase
           /\ \A v \in Savers \ {w} : step'[v] = step[v] /\ image'[v] = image[v]
  <1>1. /\ step' = [step EXCEPT ![w] = "idle"] /\ image' = [image EXCEPT ![w] = Empty]
        /\ fd' = [fd EXCEPT ![w] = NoFile] /\ sole' = [sole EXCEPT ![w] = TRUE]
        /\ left' = [left EXCEPT ![w] = {}]
        /\ intended' = IF w = "task" THEN 0 ELSE intended
        /\ phase' = IF w = "final" THEN "exited" ELSE phase
    BY DEF Ended
  <1>2. Empty \in Images /\ SaneImage(Empty)
    BY EmptyIsSane DEF IInv, Sane
  <1>3. /\ step' \in [Savers -> {"idle", "exporting", "writing", "renaming"}]
        /\ step'[w] = "idle" /\ \A v \in Savers \ {w} : step'[v] = step[v]
        /\ image' \in [Savers -> Images]
        /\ image'[w] = Empty /\ \A v \in Savers \ {w} : image'[v] = image[v]
    BY <1>1, <1>2 DEF IInv, TypeOK
  <1>4. /\ fd' \in [Savers -> Inodes \cup {NoFile}] /\ sole' \in [Savers -> BOOLEAN]
        /\ left' \in [Savers -> SUBSET Sources] /\ \A v \in Savers \ {w} : left'[v] = left[v]
    BY <1>1 DEF IInv, TypeOK
  <1>5. /\ saved' \in 0 .. generation /\ intended' \in 0 .. generation
        /\ w = "final" => UNCHANGED <<saved, intended>>
        /\ phase' \in {"running", "draining", "saving", "exited", "down"}
    BY <1>1 DEF IInv, TypeOK, Saved
  <1>6. TypeOK'
    BY <1>1, <1>3, <1>4, <1>5 DEF IInv, TypeOK, memory, starting, Entries, Images
  <1>7. Sane'
    BY <1>2, <1>3 DEF IInv, Sane, SaneEntry, SaneImage, memory
  <1>8. SaversWait'
    BY <1>1, <1>3, <1>4, <1>5 DEF IInv, SaversWait, Savers
  <1>9. Copied' /\ FinalCopied'
    BY <1>1, <1>3, <1>4, <1>5 DEF IInv, Copied, FinalCopied, Same, Savers, memory
  <1>10. Draining'
    BY <1>1 DEF IInv, Draining, starting
  <1>11. QED
    BY <1>1, <1>3, <1>6, <1>7, <1>8, <1>9, <1>10

\* The temporary file becomes the file.
LEMMA RenameInvariant ==
    ASSUME IInv, NEW w \in Savers, Rename(w)
    PROVE  IInv'
  <1>1. /\ Up /\ step[w] = "renaming" /\ tmp # NoFile /\ path' = tmp /\ tmp' = NoFile
        /\ skipped' = {} /\ saved' = Saved(w) /\ Ended(w)
        /\ UNCHANGED <<configured, restarts, gaveUp, memory, run, starting, tasks, snapshotting,
                       failures, content, now>>
    BY DEF Rename, Renamed
  <1>2. /\ TypeOK' /\ Sane' /\ SaversWait' /\ Copied' /\ Draining' /\ FinalCopied'
        /\ step'[w] = "idle" /\ phase' = IF w = "final" THEN "exited" ELSE phase
        /\ \A v \in Savers \ {w} : step'[v] = step[v] /\ image'[v] = image[v]
    <2>1. {path', tmp'} \subseteq Inodes \cup {NoFile}
      BY <1>1 DEF IInv, TypeOK
    <2>2. QED
      BY <1>1, <2>1, EndedInvariant
  <1>3. ~gaveUp => /\ content[tmp] = image[w] /\ content[tmp] # Torn
                   /\ \A v \in Savers \ {w} : step'[v] = "idle"
    <2>1. ~gaveUp => content[tmp] = image[w]
      BY <1>1 DEF IInv, Files
    <2>2. image[w] # Torn
      BY TornAssumption DEF IInv, TypeOK
    <2>3. ~gaveUp => \A v \in Savers \ {w} : step[v] = "idle"
      BY <1>1, OneSaverAtATime DEF IInv
    <2>4. QED
      BY <1>2, <2>1, <2>2, <2>3
  <1>4. Files'
    BY <1>1, <1>2, <1>3 DEF Files
  <1>5. SavedIsRecorded'
    <2>1. CASE w = "final"
      BY <1>2, <2>1 DEF SavedIsRecorded, Up
    <2>2. CASE w = "task"
      <3> SUFFICES ASSUME ~gaveUp, unbumped = 0, generation = intended, NEW s \in Sources
                   PROVE  Recorded(s)'
        BY <1>1, <2>2 DEF SavedIsRecorded, Saved, memory
      <3>1. left["task"] = {}
        BY <1>1, <2>2 DEF IInv, SaversWait
      <3>2. Same(image["task"][s], cache[s])
        BY <1>1, <2>2, <3>1 DEF IInv, Copied
      <3>3. OnDisk(s)' = content[tmp][s]
        BY <1>1, <1>3 DEF OnDisk
      <3>4. QED
        BY <1>1, <1>3, <2>2, <3>2, <3>3 DEF Recorded, Same, memory
    <2>3. QED
      BY <2>1, <2>2 DEF Savers
  <1>6. QED
    BY <1>2, <1>4, <1>5 DEF IInv

\* A save fails.
LEMMA SaveFailsInvariant ==
    ASSUME IInv, NEW w \in Savers, SaveFails(w)
    PROVE  IInv'
  <1>1. /\ Up /\ step[w] # "idle" /\ Ended(w)
        /\ UNCHANGED <<configured, restarts, gaveUp, memory, run, starting, tasks, snapshotting,
                       saved, disk, skipped, now>>
    BY DEF SaveFails
  <1>2. /\ TypeOK' /\ Sane' /\ SaversWait' /\ Copied' /\ Draining' /\ FinalCopied'
        /\ step'[w] = "idle" /\ phase' = IF w = "final" THEN "exited" ELSE phase
        /\ \A v \in Savers \ {w} : step'[v] = step[v] /\ image'[v] = image[v]
    <2>1. /\ {path', tmp'} \subseteq Inodes \cup {NoFile} /\ (path' = tmp' => path' = NoFile)
          /\ skipped' \subseteq Sources /\ saved' \in {saved, Saved(w)} /\ UNCHANGED content
      BY <1>1 DEF IInv, TypeOK, disk
    <2>2. QED
      BY <1>1, <2>1, EndedInvariant
  <1>3. ~gaveUp => \A v \in Savers : step'[v] = "idle"
    BY <1>1, <1>2, OneSaverAtATime DEF IInv
  <1>4. Files'
    BY <1>1, <1>3 DEF IInv, Files, disk
  <1>5. SavedIsRecorded'
    <2>1. CASE w = "final"
      BY <1>2, <2>1 DEF SavedIsRecorded, Up
    <2>2. CASE w = "task"
      <3>1. UNCHANGED phase
        BY <1>2, <2>2
      <3>2. QED
        BY <1>1, <3>1, SavedIsRecordedStays DEF IInv, memory, disk
    <2>3. QED
      BY <2>1, <2>2 DEF Savers
  <1>6. QED
    BY <1>2, <1>4, <1>5 DEF IInv

-----------------------------------------------------------------------------
(* The end of the process, time and the boot.                              *)

\* The signal is sent and the handles are taken.
LEMMA ShutdownInvariant ==
    ASSUME IInv, Shutdown
    PROVE  IInv'
  <1>1. /\ phase = "running" /\ phase' = "draining" /\ joined' = (boot = "registered")
        /\ \A s \in Sources : run[s] # "request"
        /\ StopsAtStart \/ boot # "started"
        /\ UNCHANGED <<configured, restarts, gaveUp, memory, run, boot, tasks, snapshotting, saved,
                       saving, disk, skipped, now>>
    BY DEF Shutdown
  <1>2. TypeOK'
    BY <1>1 DEF IInv, TypeOK, memory, saving, disk, Entries, Images
  <1>3. SaversWait'
    BY <1>1 DEF IInv, SaversWait, saving
  <1>4. Draining'
    BY <1>1, SnapshotsAssumption DEF IInv, TypeOK, Draining
  <1>5. SavedIsRecorded'
    BY <1>1, RecordedStays DEF IInv, SavedIsRecorded, Up, memory, disk
  <1>6. QED
    BY <1>1, <1>2, <1>3, <1>4, <1>5, SaneStays, FilesStays, CopiedStays, FinalCopiedStays
       DEF IInv, memory, saving, disk

\* The snapshot task returns.
LEMMA StopSnapshotsInvariant ==
    ASSUME IInv, StopSnapshots
    PROVE  IInv'
  <1>1. /\ Idle("task") /\ snapshotting' = FALSE
        /\ UNCHANGED <<process, memory, run, starting, tasks, saved, saving, disk, skipped, now>>
    BY DEF StopSnapshots
  <1>2. TypeOK'
    BY <1>1 DEF IInv, TypeOK, process, memory, starting, saving, disk, Entries, Images
  <1>3. SaversWait'
    BY <1>1 DEF IInv, SaversWait, Idle, process, saving
  <1>4. QED
    BY <1>1, <1>2, <1>3, SaneStays, FilesStays, CopiedStays, SavedIsRecordedStays, DrainingStays,
       FinalCopiedStays DEF IInv, process, memory, starting, saving, disk

\* main stops waiting, for one reason or the other, and saves.
LEMMA StartFinalSaveInvariant ==
    ASSUME IInv, StartFinalSave
    PROVE  IInv'
  <1>1. /\ phase = "draining" /\ phase' = "saving" /\ gaveUp' = (gaveUp \/ ~Drained)
        /\ step' = [step EXCEPT !["final"] = "exporting"]
        /\ left' = [left EXCEPT !["final"] = Sources]
        /\ UNCHANGED <<configured, restarts, memory, run, starting, tasks, snapshotting, saved,
                       image, intended, fd, sole, failures, disk, skipped, now>>
    BY DEF StartFinalSave
  <1>2. gaveUp' \in BOOLEAN /\ (~gaveUp' => ~gaveUp /\ Drained)
    BY <1>1 DEF IInv, TypeOK
  <1>3. /\ step' \in [Savers -> {"idle", "exporting", "writing", "renaming"}]
        /\ left' \in [Savers -> SUBSET Sources]
        /\ step'["final"] = "exporting" /\ step'["task"] = step["task"]
        /\ left'["final"] = Sources /\ left'["task"] = left["task"]
    BY <1>1 DEF IInv, TypeOK, Savers
  <1>4. TypeOK'
    BY <1>1, <1>2, <1>3 DEF IInv, TypeOK, memory, starting, disk, Entries, Images
  <1>5. SaversWait'
    BY <1>1, <1>2, <1>3 DEF IInv, SaversWait, Savers, Drained
  <1>6. Files'
    BY <1>1, <1>2, <1>3 DEF IInv, Files, Savers, disk
  <1>7. Copied' /\ FinalCopied'
    BY <1>1, <1>3 DEF IInv, Copied, FinalCopied, Same, memory
  <1>8. Draining'
    BY <1>1, <1>2 DEF IInv, Draining, Drained, starting
  <1>9. SavedIsRecorded'
    BY <1>1, <1>2, RecordedStays DEF IInv, SavedIsRecorded, Up, memory, disk
  <1>10. QED
    BY <1>1, <1>4, <1>5, <1>6, <1>7, <1>8, <1>9, SaneStays DEF IInv, memory, disk

\* The process dies.
LEMMA CrashInvariant ==
    ASSUME IInv, Crash
    PROVE  IInv'
  <1>1. /\ phase' = "down"
        /\ UNCHANGED <<configured, restarts, gaveUp, memory, run, starting, tasks, snapshotting,
                       saved, saving, disk, skipped, now>>
    BY DEF Crash
  <1>2. TypeOK'
    BY <1>1 DEF IInv, TypeOK, memory, starting, saving, disk, Entries, Images
  <1>3. SaversWait' /\ Draining'
    BY <1>1 DEF IInv, SaversWait, Draining, starting, saving
  <1>4. SavedIsRecorded'
    BY <1>1 DEF SavedIsRecorded, Up
  <1>5. QED
    BY <1>1, <1>2, <1>3, <1>4, SaneStays, FilesStays, CopiedStays, FinalCopiedStays
       DEF IInv, memory, saving, disk

\* Time passes.
LEMMA TickInvariant ==
    ASSUME IInv, Tick
    PROVE  IInv'
  <1>1. /\ now < MaxTime /\ now' = now + 1
        /\ UNCHANGED <<process, memory, run, starting, tasks, snapshotting, saved, saving, disk,
                       skipped>>
    BY DEF Tick
  <1>2. TypeOK'
    BY <1>1 DEF IInv, TypeOK, process, memory, starting, saving, disk, Entries, Images
  <1>3. Sane'
    <2>1. /\ now \in Nat /\ MaxTime \in Nat /\ now' \in 0 .. MaxTime
          /\ \A a \in 0 .. MaxTime : a <= now => a <= now'
      BY <1>1, SnapshotsAssumption DEF IInv, Sane
    <2>2. \A s \in Sources : SaneEntry(cache[s])'
      <3>1. \A s \in Sources : cache[s].seen \in 0 .. MaxTime
        BY DEF IInv, TypeOK, Entries
      <3>2. QED
        BY <1>1, <2>1, <3>1 DEF IInv, Sane, SaneEntry, memory
    <2>3. \A x \in Images : SaneImage(x) => SaneImage(x)'
      <3>1. \A x \in Images : \A s \in Sources : x[s].age \in 0 .. MaxTime
        BY DEF Images
      <3>2. QED
        BY <2>1, <3>1 DEF SaneImage
    <2>4. \A w \in Savers : image[w] \in Images /\ SaneImage(image[w])
      BY DEF IInv, TypeOK, Sane
    <2>5. \A i \in Inodes : content[i] # Torn => content[i] \in Images /\ SaneImage(content[i])
      BY DEF IInv, TypeOK, Sane
    <2>6. QED
      BY <1>1, <2>1, <2>2, <2>3, <2>4, <2>5 DEF IInv, Sane, memory, saving, disk
  <1>4. QED
    BY <1>1, <1>2, <1>3, SaversWaitStays, FilesStays, CopiedStays, SavedIsRecordedStays,
       DrainingStays, FinalCopiedStays DEF IInv, process, memory, starting, saving, disk

\* What boot reads of an entry, and what it makes of it.
LEMMA RestoredIsSane ==
    ASSUME IInv, NEW s \in Sources
    PROVE  /\ OnDisk(s) \in ImageEntries /\ OnDisk(s).age <= now
           /\ OnDisk(s).version = 0 => ~OnDisk(s).complete
           /\ Restored(s) \in Entries /\ SaneEntry(Restored(s)) /\ Same(Restored(s), OnDisk(s))
  <1>1. now \in 0 .. MaxTime /\ MaxTime \in Nat
    BY SnapshotsAssumption DEF IInv, Sane
  <1>2. /\ OnDisk(s) \in ImageEntries /\ OnDisk(s).age <= now
        /\ OnDisk(s).version = 0 => ~OnDisk(s).complete
    <2>1. CASE path = NoFile \/ content[path] = Torn
      BY <1>1, <2>1, ExportedIsSane, NoEntryIsSane DEF OnDisk
    <2>2. CASE ~(path = NoFile \/ content[path] = Torn)
      <3>1. path \in Inodes /\ content[path] \in Images /\ SaneImage(content[path])
        BY <2>2 DEF IInv, TypeOK, Sane
      <3>2. OnDisk(s) = content[path][s]
        BY <2>2 DEF OnDisk
      <3>3. QED
        BY <3>1, <3>2 DEF Images, ImageEntries, SaneImage
    <2>3. QED
      BY <2>1, <2>2
  <1>3. CASE OnDisk(s).version = 0
    <2>1. Restored(s) = NoEntry
      BY <1>3 DEF Restored
    <2>2. ~OnDisk(s).complete /\ OnDisk(s).complete \in BOOLEAN
      BY <1>2, <1>3 DEF ImageEntries
    <2>3. Same(NoEntry, OnDisk(s))
      BY <1>3, <2>2 DEF Same, NoEntry
    <2>4. QED
      BY <1>1, <1>2, <2>1, <2>3, NoEntryIsSane
  <1>4. CASE OnDisk(s).version # 0
    <2> DEFINE e == OnDisk(s)
    <2>1. Restored(s) = [version |-> e.version, complete |-> e.complete,
                         seen |-> now - e.age, real |-> e.real]
      BY <1>4 DEF Restored
    <2> HIDE DEF e
    <2>2. e \in ImageEntries /\ e.age <= now /\ e.version # 0
      BY <1>2, <1>4 DEF e
    <2>3. now - e.age \in 0 .. MaxTime /\ now - e.age <= now
      BY <1>1, <2>2 DEF ImageEntries
    <2>4. Restored(s) \in Entries /\ SaneEntry(Restored(s)) /\ Same(Restored(s), e)
      BY <2>1, <2>2, <2>3 DEF ImageEntries, Entries, SaneEntry, Same
    <2>5. QED
      BY <1>2, <2>4 DEF e
  <1>5. QED
    BY <1>3, <1>4

\* The counter boot ends with is a number.
LEMMA BootGenerationType ==
    ASSUME NEW conf
    PROVE  BootGeneration(conf) \in Nat
  <1>1. IsFiniteSet(OnFile) /\ IsFiniteSet(OnFile \ conf)
    BY FS_Subset, SnapshotsAssumption DEF OnFile
  <1>2. Cardinality(OnFile) \in Nat /\ Cardinality(OnFile \ conf) \in Nat
    BY <1>1, FS_CardinalityType
  <1>3. QED
    BY <1>2 DEF BootGeneration

\* A boot restores what the file says of the sources it knows.
LEMMA BootInvariant ==
    ASSUME IInv, NEW conf \in SUBSET Sources, Boot(conf)
    PROVE  IInv'
  <1>1. /\ phase' = "running" /\ configured' = conf
        /\ cache' = [s \in Sources |-> IF s \in conf THEN Restored(s) ELSE NoEntry]
        /\ skipped' = OnFile \ conf
        /\ generation' = BootGeneration(conf) /\ saved' = BootGeneration(conf)
        /\ boot' = "cloning" /\ joined' = FALSE
        /\ tasks' = {} /\ snapshotting' = TRUE
        /\ unbumped' = 0 /\ marking' = {} /\ run' = [s \in Sources |-> "none"]
        /\ step' = [w \in Savers |-> "idle"] /\ left' = [w \in Savers |-> {}]
        /\ image' = [w \in Savers |-> Empty] /\ intended' = 0
        /\ fd' = [w \in Savers |-> NoFile] /\ sole' = [w \in Savers |-> TRUE]
        /\ UNCHANGED <<gaveUp, earned, writes, failures, disk, now>>
    BY DEF Boot, NobodySaves
  <1>2. /\ BootGeneration(conf) \in Nat
        /\ BootGeneration(conf) \in 0 .. BootGeneration(conf) /\ 0 \in 0 .. BootGeneration(conf)
    BY BootGenerationType
  <1>3. Empty \in Images /\ SaneImage(Empty)
    BY EmptyIsSane DEF IInv, Sane
  <1>4. \A s \in Sources : cache'[s] \in Entries /\ SaneEntry(cache'[s])
    BY <1>1, RestoredIsSane, NoEntryIsSane DEF IInv, Sane
  <1>5. cache' \in [Sources -> Entries]
    BY <1>1, <1>4
  <1>6. TypeOK'
    <2>1. image' \in [Savers -> Images]
      BY <1>1, <1>3
    <2>2. /\ run' \in [Sources -> {"none", "task", "request"}]
          /\ marking' \subseteq {s \in Sources : run'[s] # "none"}
          /\ step' \in [Savers -> {"idle", "exporting", "writing", "renaming"}]
          /\ left' \in [Savers -> SUBSET Sources] /\ sole' \in [Savers -> BOOLEAN]
          /\ fd' \in [Savers -> Inodes \cup {NoFile}] /\ skipped' \subseteq Sources
      BY <1>1 DEF OnFile
    <2>3. QED
      BY <1>1, <1>2, <1>5, <2>1, <2>2 DEF IInv, TypeOK, disk, Entries, Images
  <1>7. Sane'
    BY <1>1, <1>3, <1>4 DEF IInv, Sane, SaneEntry, SaneImage, disk
  <1>8. SaversWait' /\ Copied' /\ Draining' /\ FinalCopied'
    BY <1>1 DEF SaversWait, Copied, Draining, FinalCopied, Savers
  <1>9. Files'
    BY <1>1 DEF IInv, Files, disk
  <1>10. SavedIsRecorded'
    <2> SUFFICES ASSUME NEW s \in Sources \ skipped'
                 PROVE  Recorded(s)'
      BY DEF SavedIsRecorded
    <2>1. OnDisk(s)' = OnDisk(s)
      BY <1>1 DEF OnDisk, Exported, disk
    <2>2. Same(cache'[s], OnDisk(s))
      <3>1. CASE s \in conf
        BY <1>1, <3>1, RestoredIsSane
      <3>2. CASE s \notin conf
        <4>1. OnDisk(s).version = 0
          BY <1>1, <3>2 DEF OnFile
        <4>2. OnDisk(s).complete = FALSE
          BY <4>1, RestoredIsSane DEF ImageEntries
        <4>3. cache'[s] = NoEntry
          BY <1>1, <3>2
        <4>4. Same(NoEntry, OnDisk(s))
          BY <4>1, <4>2 DEF Same, NoEntry
        <4>5. QED
          BY <4>3, <4>4
      <3>3. QED
        BY <3>1, <3>2
    <2>3. QED
      BY <2>1, <2>2 DEF Recorded, Same
  <1>11. QED
    BY <1>6, <1>7, <1>8, <1>9, <1>10 DEF IInv

\* A first boot finds no file.
LEMMA InitInvariant ==
    ASSUME Init
    PROVE  IInv
  <1>1. now = 0 /\ now \in 0 .. MaxTime /\ writes \in 0 .. MaxWrites
    BY SnapshotsAssumption DEF Init
  <1>2. Empty \in Images /\ SaneImage(Empty)
    BY <1>1, EmptyIsSane
  <1>3. /\ cache \in [Sources -> Entries] /\ \A s \in Sources : SaneEntry(cache[s])
    BY <1>1, NoEntryIsSane DEF Init
  <1>4. TypeOK
    <2>1. image \in [Savers -> Images] /\ content \in [Inodes -> Images \cup {Torn}]
      BY <1>2 DEF Init
    <2>2. /\ run \in [Sources -> {"none", "task", "request"}]
          /\ marking \subseteq {s \in Sources : run[s] # "none"}
          /\ step \in [Savers -> {"idle", "exporting", "writing", "renaming"}]
          /\ left \in [Savers -> SUBSET Sources] /\ sole \in [Savers -> BOOLEAN]
          /\ fd \in [Savers -> Inodes \cup {NoFile}]
      BY DEF Init
    <2>3. /\ generation \in Nat /\ saved \in 0 .. generation /\ intended \in 0 .. generation
          /\ unbumped \in Nat
      BY DEF Init
    <2>4. QED
      BY <1>3, <2>1, <2>2, <2>3 DEF Init, TypeOK
  <1>5. Sane
    BY <1>1, <1>2, <1>3 DEF Init, Sane
  <1>6. SaversWait /\ Files /\ Copied /\ Draining /\ FinalCopied
    BY DEF Init, SaversWait, Files, Copied, Draining, FinalCopied, Savers
  <1>7. SavedIsRecorded
    BY DEF Init, SavedIsRecorded, Recorded, OnDisk, Exported, NoEntry
  <1>8. QED
    BY <1>4, <1>5, <1>6, <1>7 DEF IInv

\* Every step keeps the invariant.
LEMMA NextInvariant ==
    ASSUME IInv, [Next]_vars
    PROVE  IInv'
  <1>1. CASE \E conf \in SUBSET Sources : Boot(conf)
    BY <1>1, BootInvariant
  <1>2. CASE \E s \in Sources : \E kind \in {"task", "request"} : StartRun(s, kind)
    BY <1>2, StartRunInvariant
  <1>3. CASE \E s \in Sources : LandFull(s)
    BY <1>3, LandFullInvariant
  <1>4. CASE \E s \in Sources : LandScoped(s)
    BY <1>4, LandScopedInvariant
  <1>5. CASE \E s \in Sources : MarkPartial(s)
    BY <1>5, MarkPartialInvariant
  <1>6. CASE \E s \in Sources : RunFails(s)
    BY <1>6, RunFailsInvariant
  <1>7. CASE \E s \in Sources : Remove(s)
    BY <1>7, RemoveInvariant
  <1>8. CASE \E s \in Sources : StopTask(s)
    BY <1>8, StopTaskInvariant
  <1>9. CASE StartSupervisor
    BY <1>9, StartSupervisorInvariant
  <1>10. CASE RegisterSupervisor
    BY <1>10, RegisterSupervisorInvariant
  <1>11. CASE Bump
    BY <1>11, BumpInvariant
  <1>12. CASE StartSave
    BY <1>12, StartSaveInvariant
  <1>13. CASE Shutdown
    BY <1>13, ShutdownInvariant
  <1>14. CASE StopSnapshots
    BY <1>14, StopSnapshotsInvariant
  <1>15. CASE StartFinalSave
    BY <1>15, StartFinalSaveInvariant
  <1>16. CASE Crash
    BY <1>16, CrashInvariant
  <1>17. CASE Tick
    BY <1>17, TickInvariant
  <1>18. CASE \E w \in Savers : \E s \in Sources : Export(w, s)
    BY <1>18, ExportInvariant
  <1>19. CASE \E w \in Savers : BeginWrite(w)
    BY <1>19, BeginWriteInvariant
  <1>20. CASE \E w \in Savers : EndWrite(w)
    BY <1>20, EndWriteInvariant
  <1>21. CASE \E w \in Savers : Rename(w)
    BY <1>21, RenameInvariant
  <1>22. CASE \E w \in Savers : SaveFails(w)
    BY <1>22, SaveFailsInvariant
  <1>23. CASE UNCHANGED vars
    <2>1. UNCHANGED <<process, memory, run, starting, tasks, snapshotting, saved, saving, disk,
                      skipped, now>>
      BY <1>23 DEF vars
    <2>2. TypeOK'
      BY <2>1 DEF IInv, TypeOK, process, memory, starting, saving, disk, Entries, Images
    <2>3. QED
      BY <2>1, <2>2, SaneStays, SaversWaitStays, FilesStays, CopiedStays, SavedIsRecordedStays,
         DrainingStays, FinalCopiedStays DEF IInv, process, memory, starting, saving, disk
  <1>24. QED
    BY <1>1, <1>2, <1>3, <1>4, <1>5, <1>6, <1>7, <1>8, <1>9, <1>10, <1>11, <1>12, <1>13, <1>14,
       <1>15, <1>16, <1>17, <1>18, <1>19, <1>20, <1>21, <1>22, <1>23 DEF Next

-----------------------------------------------------------------------------
(* The theorems.                                                           *)

\* The parts of IInv hold of every reachable state: the savers stay out of
\* each other's way until a shutdown gives up its drain, and what the snapshot
\* task has exported is what is cached while the generation has not moved.
THEOREM SnapshotsInvariant == Spec => []IInv
  <1>1. Init => IInv
    BY InitInvariant
  <1>2. IInv /\ [Next]_vars => IInv'
    BY NextInvariant
  <1>3. QED
    BY <1>1, <1>2, PTL DEF Spec

\* The file can be read whenever it is there, and while the snapshot task sees
\* nothing to save it holds every entry as the cache has it: through crashes,
\* failed saves, reboots and runs that land while a save is under way.
THEOREM FilesAreTrusted == Spec => []FileIsTrusted
  <1>1. IInv => FileIsTrusted
    BY DEF IInv, FileIsTrusted, Files, FileIsWhole, SavedIsRecorded, SkippedMeansSaved
  <1>2. QED
    BY <1>1, SnapshotsInvariant, PTL

\* Only a rename changes what the path names.
LEMMA OnlyRenamesMoveThePath ==
    ASSUME [Next]_vars, path' # path
    PROVE  \E w \in Savers : Rename(w)
  <1>1. \A conf \in SUBSET Sources : ~Boot(conf)
    BY DEF Boot, disk
  <1>2. \A s \in Sources : \A kind \in {"task", "request"} : ~StartRun(s, kind)
    BY DEF StartRun, disk
  <1>3. \A s \in Sources : /\ ~LandFull(s) /\ ~LandScoped(s) /\ ~MarkPartial(s) /\ ~RunFails(s)
                           /\ ~Remove(s) /\ ~StopTask(s)
    BY DEF LandFull, LandScoped, MarkPartial, RunFails, Remove, StopTask, disk
  <1>4. ~StartSupervisor /\ ~RegisterSupervisor /\ ~Bump /\ ~StartSave /\ ~Shutdown
    BY DEF StartSupervisor, RegisterSupervisor, Bump, StartSave, Shutdown, disk
  <1>5. ~StopSnapshots /\ ~StartFinalSave /\ ~Crash /\ ~Tick
    BY DEF StopSnapshots, StartFinalSave, Crash, Tick, disk
  <1>6. \A w \in Savers : /\ \A s \in Sources : ~Export(w, s)
                          /\ ~BeginWrite(w) /\ ~EndWrite(w) /\ ~SaveFails(w)
    BY DEF Export, BeginWrite, EndWrite, SaveFails, disk
  <1>7. ~UNCHANGED vars
    BY DEF vars, disk
  <1>8. QED
    BY <1>1, <1>2, <1>3, <1>4, <1>5, <1>6, <1>7 DEF Next

\* A shutdown whose drain ended and whose last save succeeded leaves on the
\* disk every entry the cache had, unless the signal came while the
\* supervisor's handle was being handed over (StopsAtStart).
THEOREM GracefulExitsKeepAll ==
    ASSUME StopsAtStart = FALSE
    PROVE  Spec => GracefulExitKeepsAll
  <1> DEFINE Exits == ~gaveUp /\ phase = "saving" /\ phase' = "exited" /\ path' # path
  <1>1. ASSUME IInv, [Next]_vars, Exits
        PROVE  \A s \in Sources : Recorded(s)'
    <2>1. PICK w \in Savers : Rename(w)
      BY <1>1, OnlyRenamesMoveThePath
    <2>2. /\ step[w] = "renaming" /\ tmp # NoFile /\ path' = tmp
          /\ UNCHANGED <<memory, content>>
          /\ phase' = IF w = "final" THEN "exited" ELSE phase
      BY <2>1 DEF Rename, Renamed, Ended
    <2>3. w = "final"
      BY <1>1, <2>2
    <2>4. content[tmp] = image["final"] /\ content[tmp] # Torn
      BY <1>1, <2>2, <2>3, TornAssumption DEF IInv, Files, TypeOK
    <2>5. left["final"] = {}
      BY <1>1, <2>2, <2>3 DEF IInv, SaversWait
    <2>6. \A s \in Sources : Same(image["final"][s], cache[s])
      BY <1>1, <2>2, <2>3, <2>5 DEF IInv, FinalCopied
    <2>7. \A s \in Sources : OnDisk(s)' = content[tmp][s]
      BY <2>2, <2>4 DEF OnDisk
    <2>8. QED
      BY <2>2, <2>4, <2>6, <2>7 DEF Recorded, Same, memory
  <1>2. IInv /\ [Next]_vars => [Exits => \A s \in Sources : Recorded(s)']_vars
    BY <1>1
  <1>3. QED
    BY <1>2, SnapshotsInvariant, PTL DEF Spec, GracefulExitKeepsAll

=============================================================================
