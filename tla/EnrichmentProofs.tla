-------------------------- MODULE EnrichmentProofs --------------------------
(***************************************************************************)
(* Proofs about Enrichment: only an overtaken script disguises stale data, *)
(* and a sync nobody disturbed returns with its fields written by the last *)
(* id.                                                                     *)
(***************************************************************************)
EXTENDS Enrichment, WellFoundedInduction, TLAPS

-----------------------------------------------------------------------------
(* The invariant.                                                          *)

\* Nothing in an entry is later than t.
Before(e, t) == \A h \in DOMAIN e.vars : e.vars[h].at <= t /\ e.stamps[h] <= t

Typed ==
    /\ now \in 0 .. MaxTime
    /\ target \in Entries \cup {NoData}
    /\ other \in 1 .. MaxVersions \cup {NoData}
    /\ DOMAIN run = Runners /\ due \subseteq Enrichers /\ alone \in BOOLEAN
    /\ run[Sync] # Idle => Syncing

\* What a runner carries from one step to the next: what it read, then.
RunOK(r) ==
    \/ run[r] = Idle
    \/ /\ run[r].at = IF Running(r) \in Scripts THEN "script" ELSE "fields"
       /\ run[r].read \in Entries /\ Before(run[r].read, now)
    \/ /\ run[r].at = "merge" /\ Running(r) \notin Scripts
       /\ run[r].hosts \subseteq Hosts /\ run[r].version \in 1 .. MaxVersions

\* A sync applies its enrichers upwards: with one it still has all above it.
Upwards == \A e \in due : \A d \in Enrichers : e <= d => d \in due

\* No host is dated later than its variables, but for the overtaken.
Honest == \A h \in Present \ overtaken : target.stamps[h] <= target.vars[h].at

\* While a sync shares the target with nobody, what it read is what is there.
Undisturbed ==
    (alone /\ Syncing) =>
       /\ other # NoData /\ Cached
       /\ \A r \in Tasks : run[r] = Idle
       /\ run[Sync].at = "fields" => run[Sync].read = target
       /\ run[Sync].at = "merge" => run[Sync].hosts = DOMAIN target.vars \cap Known

IInv ==
    /\ Typed
    /\ Cached => Before(target, now)
    /\ \A r \in Runners : RunOK(r)
    /\ Upwards /\ Honest /\ Undisturbed

-----------------------------------------------------------------------------
(* Entries.                                                                *)

\* What it is to be an entry.
LEMMA EntryShape ==
    ASSUME NEW e \in Entries
    PROVE  /\ DOMAIN e.vars \subseteq Hosts
           /\ e.vars \in [DOMAIN e.vars -> Variables]
           /\ e.stamps \in [DOMAIN e.vars -> 0 .. MaxTime]
           /\ \A h \in DOMAIN e.vars : e.vars[h].at \in 0 .. MaxTime /\ e.stamps[h] \in 0 .. MaxTime
  <1>1. PICK hosts \in SUBSET Hosts : e \in EntriesOf(hosts)
    BY DEF Entries
  <1>2. e.vars \in [hosts -> Variables] /\ e.stamps \in [hosts -> 0 .. MaxTime]
    BY <1>1 DEF EntriesOf
  <1>3. QED
    BY <1>2 DEF Variables

\* What it takes to make one.
LEMMA MakesAnEntry ==
    ASSUME NEW hosts \in SUBSET Hosts, NEW v \in [hosts -> Variables],
           NEW s \in [hosts -> 0 .. MaxTime]
    PROVE  [vars |-> v, stamps |-> s] \in Entries
  <1>1. [vars |-> v, stamps |-> s] \in EntriesOf(hosts)
    BY DEF EntriesOf
  <1>2. QED
    BY <1>1 DEF Entries

\* Time only makes it truer.
LEMMA BeforeGrows ==
    ASSUME NEW e \in Entries, NEW t \in Nat, NEW u \in Nat, t <= u, Before(e, t)
    PROVE  Before(e, u)
  <1>1. \A h \in DOMAIN e.vars : e.vars[h].at \in Nat /\ e.stamps[h] \in Nat
    BY EntryShape, EnrichmentAssumption
  <1>2. QED
    BY <1>1 DEF Before

\* Variables as they are gathered.
LEMMA GatheredType ==
    ASSUME NEW t \in 0 .. MaxTime
    PROVE  Gathered(t) \in Variables /\ Gathered(t).at = t
  BY DEF Gathered, Variables

-----------------------------------------------------------------------------
(* Runners.                                                                *)

\* Of any identifiers one is the least.
LEMMA FirstIsLeast ==
    ASSUME due \subseteq Enrichers, due # {}
    PROVE  First \in due /\ \A d \in due : First <= d
  <1>1. due \subseteq Nat
    BY EnrichmentAssumption
  <1> DEFINE R == OpToRel(<, Nat)
  <1>2. R = {p \in Nat \X Nat : p[1] < p[2]}
    BY DEF OpToRel
  <1>3. IsWellFoundedOn(R, Nat)
    BY NatLessThanWellFounded
  <1> HIDE DEF R
  <1>4. PICK e \in due : \A d \in due : ~(<<d, e>> \in R)
    BY <1>1, <1>3, WFMin
  <1>5. \A c, d \in Nat : c < d => <<c, d>> \in R
    BY <1>2
  <1>6. \A d \in due : ~(d < e) /\ d \in Nat /\ e \in Nat
    BY <1>1, <1>4, <1>5
  <1>7. \A d \in due : e <= d
    BY <1>6
  <1>8. QED
    BY <1>7 DEF First

\* What runs is an enricher, and the sync is none.
LEMMA RunningIsKnown ==
    ASSUME Typed, NEW r \in Runners, MayRun(r)
    PROVE  Running(r) \in Enrichers
  BY FirstIsLeast, EnrichmentAssumption DEF Typed, MayRun, Running, Runners, Sync

\* A runner at work runs one.
LEMMA BusyMayRun ==
    ASSUME Typed, NEW r \in Runners, run[r] # Idle
    PROVE  MayRun(r)
  BY DEF Typed, MayRun, Syncing

\* No state of a runner at work is idleness.
LEMMA AtWork ==
    ASSUME NEW r, run[r].at # "idle"
    PROVE  run[r] # Idle
  BY DEF Idle

\* A runner that does nothing is as it was, later.
LEMMA RunStays ==
    ASSUME Typed, NEW r \in Runners, RunOK(r), run'[r] = run[r], now' \in 0 .. MaxTime, now <= now',
           run[r] # Idle => Running(r)' = Running(r)
    PROVE  RunOK(r)'
  <1>1. CASE run[r] = Idle
    BY <1>1 DEF RunOK
  <1>2. CASE run[r].at = "merge"
    BY <1>2, AtWork DEF RunOK
  <1>3. CASE run[r] # Idle /\ run[r].at # "merge"
    <2>1. run[r].read \in Entries /\ Before(run[r].read, now)
      BY <1>3 DEF RunOK
    <2>2. Before(run[r].read, now')
      BY <2>1, BeforeGrows, EnrichmentAssumption DEF Typed
    <2>3. QED
      BY <1>3, <2>1, <2>2 DEF RunOK
  <1>4. QED
    BY <1>1, <1>2, <1>3

\* Runs go on while others write: the part of the invariant about them.
Runs ==
    /\ DOMAIN run = Runners /\ due \subseteq Enrichers /\ (run[Sync] # Idle => Syncing)
    /\ \A r \in Runners : RunOK(r)
    /\ Upwards

\* Nothing of it changes when nobody runs, whatever is written.
LEMMA RunsStay ==
    ASSUME IInv, UNCHANGED <<run, due>>, now' \in 0 .. MaxTime, now <= now'
    PROVE  Runs'
  <1>1. \A r \in Runners : Running(r)' = Running(r)
    BY DEF Running, First
  <1>2. \A r \in Runners : RunOK(r)'
    BY <1>1, RunStays DEF IInv
  <1>3. QED
    BY <1>2 DEF IInv, Typed, Runs, Syncing, Upwards

\* A runner that is done leaves the others to go on.
LEMMA DoneRuns ==
    ASSUME IInv, NEW r \in Runners, NEW outcome, Done(r, outcome), r = Sync => Syncing,
           UNCHANGED now
    PROVE  /\ Runs' /\ run'[r] = Idle /\ due' \subseteq due
           /\ \A q \in Runners \ {r} : run'[q] = run[q]
  <1>1. /\ run' = [run EXCEPT ![r] = Idle]
        /\ due' = IF r = Sync THEN due \ {First} ELSE due
    BY DEF Done
  <1>2. /\ DOMAIN run' = Runners /\ run'[r] = Idle
        /\ \A q \in Runners \ {r} : run'[q] = run[q]
    BY <1>1 DEF IInv, Typed
  <1>3. due' \subseteq due /\ due' \subseteq Enrichers
    BY <1>1 DEF IInv, Typed
  <1>4. run'[Sync] # Idle => Syncing'
    BY <1>1, <1>2 DEF IInv, Typed, Syncing, Runners
  <1>5. \A q \in Runners \ {r} : Running(q)' = Running(q)
    <2>1. CASE r = Sync
      BY <2>1 DEF Running
    <2>2. CASE r # Sync
      <3>1. due' = due
        BY <1>1, <2>2
      <3>2. QED
        BY <3>1 DEF Running, First
    <2>3. QED
      BY <2>1, <2>2
  <1>6. \A q \in Runners : RunOK(q)'
    <2>1. RunOK(r)'
      BY <1>2 DEF RunOK
    <2>2. now' \in 0 .. MaxTime /\ now <= now'
      BY EnrichmentAssumption DEF IInv, Typed
    <2>3. \A q \in Runners \ {r} : RunOK(q)'
      BY <1>2, <1>5, <2>2, RunStays DEF IInv
    <2>4. QED
      BY <2>1, <2>3
  <1>7. Upwards'
    <2> SUFFICES ASSUME NEW e \in due', NEW d \in Enrichers, e <= d
                 PROVE  d \in due'
      BY DEF Upwards
    <2>1. d \in due
      BY <1>3 DEF IInv, Upwards
    <2>2. CASE r # Sync
      BY <1>1, <2>1, <2>2
    <2>3. CASE r = Sync
      <3>1. First \in due /\ \A c \in due : First <= c
        BY <2>3, FirstIsLeast DEF IInv, Typed, Syncing
      <3>2. e \in due /\ e # First /\ e \in Nat /\ d \in Nat /\ First \in Nat
        BY <1>1, <1>3, <2>3, <3>1, EnrichmentAssumption DEF IInv, Typed
      <3>3. d # First
        BY <3>1, <3>2
      <3>4. QED
        BY <1>1, <2>1, <2>3, <3>3
    <2>4. QED
      BY <2>2, <2>3
  <1>8. QED
    BY <1>2, <1>3, <1>4, <1>6, <1>7 DEF Runs

\* ... and, if it had something to do, disturbs no sync.
LEMMA DoneUndisturbed ==
    ASSUME IInv, NEW r \in Runners, run[r] # Idle, NEW outcome, Done(r, outcome),
           UNCHANGED <<now, other, alone>>, Cached => Cached'
    PROVE  Runs' /\ Undisturbed'
  <1>1. r = Sync => Syncing
    BY DEF IInv, Typed
  <1>2. /\ Runs' /\ run'[r] = Idle /\ due' \subseteq due
        /\ \A q \in Runners \ {r} : run'[q] = run[q]
    BY <1>1, DoneRuns
  <1>3. SUFFICES ASSUME alone, Syncing'
                 PROVE  /\ other # NoData /\ Cached /\ \A q \in Tasks : run'[q] = Idle
                        /\ run'[Sync].at = "idle"
    BY <1>2, <1>3 DEF Undisturbed
  <1>4. /\ other # NoData /\ Cached /\ \A q \in Tasks : run[q] = Idle
    BY <1>2, <1>3 DEF IInv, Undisturbed, Syncing
  <1>5. r = Sync
    BY <1>4 DEF Runners
  <1>6. \A q \in Tasks : run'[q] = Idle
    BY <1>2, <1>4 DEF Runners
  <1>7. QED
    BY <1>2, <1>4, <1>5, <1>6 DEF Idle

-----------------------------------------------------------------------------
(* The steps of a run.                                                     *)

\* A run reads the target.
LEMMA BeginInvariant ==
    ASSUME IInv, NEW r \in Runners, Begin(r)
    PROVE  IInv'
  <1>1. /\ run[r] = Idle /\ MayRun(r) /\ alone' = (alone /\ r = Sync)
        /\ UNCHANGED <<now, target, other, evictions, overtaken>>
    BY DEF Begin
  <1>2. r = Sync => Syncing
    BY <1>1 DEF MayRun, Syncing
  <1>3. (Cached => Before(target, now))' /\ Honest'
    BY <1>1 DEF IInv, Cached, Before, Honest, Present
  <1>4. CASE ~Cached
    <2>1. Done(r, "failed")
      BY <1>4 DEF Begin
    <2>2. Runs' /\ due' \subseteq due
      BY <1>1, <1>2, <2>1, DoneRuns
    <2>3. ~(alone' /\ Syncing')
      BY <1>1, <1>2, <1>4, <2>2 DEF IInv, Undisturbed
    <2>4. QED
      BY <1>1, <1>3, <2>2, <2>3 DEF IInv, Typed, Runs, Undisturbed
  <1>5. CASE Cached
    <2> DEFINE new == [at   |-> IF Running(r) \in Scripts THEN "script" ELSE "fields",
                       read |-> target]
    <2>1. run' = [run EXCEPT ![r] = new] /\ UNCHANGED due
      BY <1>5 DEF Begin
    <2>2. /\ new.at = IF Running(r) \in Scripts THEN "script" ELSE "fields"
          /\ new.read = target
      OBVIOUS
    <2> HIDE DEF new
    <2>3. /\ DOMAIN run' = Runners /\ run'[r] = new
          /\ \A q \in Runners \ {r} : run'[q] = run[q]
      BY <2>1 DEF IInv, Typed
    <2>4. \A q \in Runners : Running(q)' = Running(q)
      BY <2>1 DEF Running, First
    <2>5. target \in Entries /\ Before(target, now)
      BY <1>5 DEF IInv, Typed, Cached
    <2>6. RunOK(r)'
      BY <1>1, <2>2, <2>3, <2>4, <2>5 DEF RunOK
    <2>7. \A q \in Runners \ {r} : RunOK(q)'
      BY <1>1, <2>3, <2>4, RunStays, EnrichmentAssumption DEF IInv, Typed
    <2>8. run'[Sync] # Idle => Syncing'
      BY <1>2, <2>1, <2>3 DEF IInv, Typed, Runners, Syncing
    <2>9. Typed' /\ Upwards'
      BY <1>1, <2>1, <2>3, <2>8 DEF IInv, Typed, Upwards
    <2>10. Undisturbed'
      <3> SUFFICES ASSUME alone', Syncing'
                   PROVE  /\ other # NoData /\ Cached /\ \A q \in Tasks : run'[q] = Idle
                          /\ run'[Sync].at # "merge" /\ run'[Sync].read = target
        BY <1>1 DEF Undisturbed, Cached
      <3>1. alone /\ r = Sync /\ Syncing
        BY <1>1, <2>1 DEF Syncing
      <3>2. other # NoData /\ Cached /\ \A q \in Tasks : run[q] = Idle
        BY <3>1 DEF IInv, Undisturbed
      <3>3. \A q \in Tasks : run'[q] = Idle
        BY <2>3, <3>1, <3>2, EnrichmentAssumption DEF Runners
      <3>4. QED
        BY <2>2, <2>3, <3>1, <3>2, <3>3
    <2>11. QED
      BY <1>3, <2>6, <2>7, <2>9, <2>10 DEF IInv
  <1>6. QED
    BY <1>4, <1>5

\* A declarative enricher reads its source.
LEMMA ReadOtherInvariant ==
    ASSUME IInv, NEW r \in Runners, ReadOther(r)
    PROVE  IInv'
  <1>1. /\ run[r].at = "fields"
        /\ UNCHANGED <<now, target, other, evictions, overtaken, alone>>
    BY DEF ReadOther
  <1>2. run[r] # Idle
    BY <1>1, AtWork
  <1>3. (Cached => Before(target, now))' /\ Honest'
    BY <1>1 DEF IInv, Cached, Before, Honest, Present
  <1>4. CASE other = NoData
    <2>1. Done(r, "failed")
      BY <1>4 DEF ReadOther
    <2>2. Runs' /\ Undisturbed'
      BY <1>1, <1>2, <2>1, DoneUndisturbed DEF Cached
    <2>3. QED
      BY <1>1, <1>3, <2>2 DEF IInv, Typed, Runs
  <1>5. CASE other # NoData
    <2> DEFINE new == [at |-> "merge", hosts |-> DOMAIN run[r].read.vars \cap Known,
                       version |-> other]
    <2>1. run' = [run EXCEPT ![r] = new] /\ UNCHANGED due
      BY <1>5 DEF ReadOther
    <2>2. /\ new.at = "merge" /\ new.hosts = DOMAIN run[r].read.vars \cap Known
          /\ new.version = other
      OBVIOUS
    <2> HIDE DEF new
    <2>3. /\ DOMAIN run' = Runners /\ run'[r] = new
          /\ \A q \in Runners \ {r} : run'[q] = run[q]
      BY <2>1 DEF IInv, Typed
    <2>4. \A q \in Runners : Running(q)' = Running(q)
      BY <2>1 DEF Running, First
    <2>5. Running(r) \notin Scripts /\ run[r].read \in Entries
      BY <1>1, <1>2 DEF IInv, RunOK
    <2>6. new.hosts \subseteq Hosts /\ new.version \in 1 .. MaxVersions
      BY <1>5, <2>2, <2>5, EntryShape DEF IInv, Typed
    <2>7. RunOK(r)'
      BY <2>2, <2>3, <2>4, <2>5, <2>6 DEF RunOK
    <2>8. \A q \in Runners \ {r} : RunOK(q)'
      BY <1>1, <2>3, <2>4, RunStays, EnrichmentAssumption DEF IInv, Typed
    <2>9. run'[Sync] # Idle => Syncing'
      BY <1>2, <2>1, <2>3 DEF IInv, Typed, Runners, Syncing
    <2>10. Typed' /\ Upwards'
      BY <1>1, <2>1, <2>3, <2>9 DEF IInv, Typed, Upwards
    <2>11. Undisturbed'
      <3> SUFFICES ASSUME alone, Syncing
                   PROVE  /\ Cached /\ \A q \in Tasks : run'[q] = Idle
                          /\ run'[Sync].at = "merge"
                          /\ run'[Sync].hosts = DOMAIN target.vars \cap Known
        BY <1>1, <1>5, <2>1 DEF Undisturbed, Cached, Syncing
      <3>1. /\ Cached /\ \A q \in Tasks : run[q] = Idle
            /\ run[Sync].at = "fields" => run[Sync].read = target
        BY DEF IInv, Undisturbed
      <3>2. r = Sync
        BY <1>2, <3>1 DEF Runners
      <3>3. \A q \in Tasks : run'[q] = Idle
        BY <2>3, <3>1, <3>2, EnrichmentAssumption DEF Runners
      <3>4. QED
        BY <1>1, <2>2, <2>3, <3>1, <3>2, <3>3
    <2>12. QED
      BY <1>3, <2>7, <2>8, <2>10, <2>11 DEF IInv
  <1>6. QED
    BY <1>4, <1>5

\* What the merge of a declarative enricher is: fields, and nothing's age.
LEMMA MergeFieldsIs ==
    ASSUME IInv, NEW r \in Runners, run[r].at = "merge", Cached
    PROVE  /\ MergeFields(r, run[r].hosts) \in Entries
           /\ DOMAIN MergeFields(r, run[r].hosts).vars = DOMAIN target.vars
           /\ MergeFields(r, run[r].hosts).stamps = target.stamps
           /\ \A h \in DOMAIN target.vars :
                 /\ MergeFields(r, run[r].hosts).vars[h].at = target.vars[h].at
                 /\ h \in run[r].hosts => MergeFields(r, run[r].hosts).vars[h].field
                                            = [by |-> Running(r), version |-> run[r].version]
  <1>1. /\ Running(r) \in Enrichers /\ run[r].version \in 1 .. MaxVersions
    BY AtWork, BusyMayRun, RunningIsKnown DEF IInv, RunOK
  <1> DEFINE field == [by |-> Running(r), version |-> run[r].version]
             v == [h \in DOMAIN target.vars |->
                     IF h \in run[r].hosts THEN [at |-> target.vars[h].at, field |-> field]
                     ELSE target.vars[h]]
  <1>2. field \in Field
    BY <1>1 DEF Field
  <1>3. MergeFields(r, run[r].hosts) = [vars |-> v, stamps |-> target.stamps]
    BY DEF MergeFields
  <1> HIDE DEF field
  <1>4. /\ DOMAIN target.vars \in SUBSET Hosts
        /\ target.vars \in [DOMAIN target.vars -> Variables]
        /\ target.stamps \in [DOMAIN target.vars -> 0 .. MaxTime]
    BY EntryShape DEF IInv, Typed, Cached
  <1>5. v \in [DOMAIN target.vars -> Variables]
    BY <1>2, <1>4 DEF Variables
  <1>6. \A h \in DOMAIN target.vars :
           v[h].at = target.vars[h].at /\ (h \in run[r].hosts => v[h].field = field)
    OBVIOUS
  <1> HIDE DEF v
  <1>7. DOMAIN v = DOMAIN target.vars /\ [vars |-> v, stamps |-> target.stamps] \in Entries
    BY <1>4, <1>5, MakesAnEntry
  <1>8. QED
    BY <1>3, <1>6, <1>7 DEF field

\* It is written.
LEMMA MergeInvariant ==
    ASSUME IInv, NEW r \in Runners, Merge(r)
    PROVE  IInv'
  <1>1. /\ run[r].at = "merge" /\ Done(r, "merged")
        /\ target' = IF Cached THEN MergeFields(r, run[r].hosts) ELSE NoData
        /\ UNCHANGED <<now, other, evictions, overtaken, alone>>
    BY DEF Merge
  <1>2. run[r] # Idle
    BY <1>1, AtWork
  <1>3. CASE ~Cached
    <2>1. UNCHANGED target
      BY <1>1, <1>3 DEF Cached
    <2>2. Runs' /\ Undisturbed'
      BY <1>1, <1>2, <2>1, DoneUndisturbed DEF Cached
    <2>3. (Cached => Before(target, now))' /\ Honest'
      BY <1>1, <2>1 DEF IInv, Cached, Before, Honest, Present
    <2>4. QED
      BY <1>1, <2>1, <2>2, <2>3 DEF IInv, Typed, Runs
  <1>4. CASE Cached
    <2>1. /\ target' \in Entries /\ DOMAIN target'.vars = DOMAIN target.vars
          /\ target'.stamps = target.stamps
          /\ \A h \in DOMAIN target.vars : target'.vars[h].at = target.vars[h].at
      BY <1>1, <1>4, MergeFieldsIs
    <2>2. Cached'
      BY <2>1, NoDataAssumption DEF Cached
    <2>3. Runs' /\ Undisturbed'
      BY <1>1, <1>2, <2>2, DoneUndisturbed
    <2>4. (Cached => Before(target, now))' /\ Honest'
      BY <1>1, <1>4, <2>1, <2>2 DEF IInv, Before, Honest, Present
    <2>5. QED
      BY <1>1, <2>1, <2>3, <2>4 DEF IInv, Typed, Runs
  <1>5. QED
    BY <1>3, <1>4

\* A script fails.
LEMMA FailInvariant ==
    ASSUME IInv, NEW r \in Runners, Fail(r)
    PROVE  IInv'
  <1>1. /\ run[r].at = "script" /\ Done(r, "failed")
        /\ UNCHANGED <<now, target, other, evictions, overtaken, alone>>
    BY DEF Fail
  <1>2. Runs' /\ Undisturbed'
    BY <1>1, AtWork, DoneUndisturbed DEF Cached
  <1>3. (Cached => Before(target, now))' /\ Honest'
    BY <1>1 DEF IInv, Cached, Before, Honest, Present
  <1>4. QED
    BY <1>1, <1>2, <1>3 DEF IInv, Typed, Runs

\* What the merge of a script's answer is: its variables over what is there,
\* under the timestamps that are there; what was not there is dated now.
LEMMA MergeScriptIs ==
    ASSUME target \in Entries, now \in 0 .. MaxTime,
           NEW mine \in SUBSET Hosts, NEW answer \in [mine -> Variables], NEW removed
    PROVE  /\ MergeScript(answer, removed) \in Entries
           /\ DOMAIN MergeScript(answer, removed).vars = (DOMAIN target.vars \cup mine) \ removed
           /\ \A h \in (DOMAIN target.vars \cup mine) \ removed :
                 /\ MergeScript(answer, removed).vars[h]
                      = IF h \in mine THEN answer[h] ELSE target.vars[h]
                 /\ MergeScript(answer, removed).stamps[h]
                      = IF h \in DOMAIN target.vars THEN target.stamps[h] ELSE now
  <1> DEFINE there == DOMAIN target.vars
             all == there \cup mine
             dates == [h \in mine |-> now]
             v == Over(target.vars, answer)
             s == Over(dates, target.stamps)
  <1>1. /\ there \subseteq Hosts /\ target.vars \in [there -> Variables]
        /\ target.stamps \in [there -> 0 .. MaxTime] /\ dates \in [mine -> 0 .. MaxTime]
    BY EntryShape
  <1>2. DOMAIN answer = mine
    OBVIOUS
  <1>3. MergeScript(answer, removed) = [vars |-> Less(v, removed), stamps |-> Less(s, removed)]
    BY <1>2 DEF MergeScript
  <1> HIDE DEF there
  <1>4. /\ v \in [all -> Variables]
        /\ \A h \in all : v[h] = IF h \in mine THEN answer[h] ELSE target.vars[h]
    BY <1>1 DEF Over
  <1>5. /\ s \in [all -> 0 .. MaxTime]
        /\ \A h \in all : s[h] = IF h \in there THEN target.stamps[h] ELSE now
    <2>1. \A h \in mine : dates[h] = now
      OBVIOUS
    <2> HIDE DEF dates
    <2>2. /\ s \in [mine \cup there -> 0 .. MaxTime]
          /\ \A h \in mine \cup there : s[h] = IF h \in there THEN target.stamps[h] ELSE dates[h]
      BY <1>1 DEF Over
    <2>3. mine \cup there = all
      OBVIOUS
    <2> HIDE DEF s, all
    <2>4. \A h \in all : h \notin there => h \in mine
      BY DEF all
    <2>5. QED
      BY <2>1, <2>2, <2>3, <2>4
  <1> HIDE DEF v, s
  <1>6. /\ Less(v, removed) \in [all \ removed -> Variables]
        /\ \A h \in all \ removed : Less(v, removed)[h] = v[h]
    BY <1>4 DEF Less
  <1>7. /\ Less(s, removed) \in [all \ removed -> 0 .. MaxTime]
        /\ \A h \in all \ removed : Less(s, removed)[h] = s[h]
    BY <1>5 DEF Less
  <1>8. all \ removed \in SUBSET Hosts
    BY <1>1
  <1> HIDE DEF all
  <1>9. MergeScript(answer, removed) \in Entries
    BY <1>3, <1>6, <1>7, <1>8, MakesAnEntry
  <1>10. DOMAIN Less(v, removed) = all \ removed
    BY <1>6
  <1>11. QED
    BY <1>3, <1>4, <1>5, <1>6, <1>7, <1>9, <1>10 DEF all, there

\* A script answers: what it read may be older than what is there by now,
\* and then the host is overtaken.
LEMMA AnswerInvariant ==
    ASSUME IInv, NEW r \in Runners, NEW touched \in SUBSET Hosts, NEW introduced \in SUBSET Hosts,
           NEW removed \in SUBSET Hosts, Answer(r, touched, introduced, removed)
    PROVE  IInv'
  <1> DEFINE read == run[r].read
             mine == touched \cup introduced
             answer == [h \in mine |-> IF h \in touched THEN read.vars[h] ELSE Gathered(now)]
  <1>1. /\ run[r].at = "script" /\ Done(r, "merged")
        /\ touched \subseteq DOMAIN read.vars
        /\ target' = IF Cached THEN MergeScript(answer, removed) ELSE NoData
        /\ overtaken' = IF Cached
              THEN overtaken \cup {h \in touched :
                                    h \notin Present \/ read.vars[h].at < target.vars[h].at}
              ELSE overtaken
        /\ UNCHANGED <<now, other, evictions, alone>>
    BY DEF Answer
  <1>2. run[r] # Idle
    BY <1>1, AtWork
  <1>3. CASE ~Cached
    <2>1. UNCHANGED target
      BY <1>1, <1>3 DEF Cached
    <2>2. Runs' /\ Undisturbed'
      BY <1>1, <1>2, <2>1, DoneUndisturbed DEF Cached
    <2>3. (Cached => Before(target, now))' /\ Honest'
      BY <1>1, <1>3, <2>1 DEF IInv, Cached, Before, Honest, Present
    <2>4. QED
      BY <1>1, <2>1, <2>2, <2>3 DEF IInv, Typed, Runs
  <1>4. CASE Cached
    <2>1. /\ read \in Entries /\ Before(read, now)
          /\ target \in Entries /\ Before(target, now) /\ now \in 0 .. MaxTime
      BY <1>1, <1>2, <1>4 DEF IInv, RunOK, Typed, Cached
    <2>2. \A h \in touched : read.vars[h] \in Variables /\ read.vars[h].at <= now
      BY <1>1, <2>1, EntryShape DEF Before
    <2>3. Gathered(now) \in Variables /\ Gathered(now).at = now
      BY <2>1, GatheredType
    <2> DEFINE there == DOMAIN target.vars
               new == MergeScript(answer, removed)
    <2>4. answer \in [mine -> Variables] /\ mine \in SUBSET Hosts
      BY <2>2, <2>3
    <2>5. \A h \in mine : answer[h] = IF h \in touched THEN read.vars[h] ELSE Gathered(now)
      OBVIOUS
    <2> HIDE DEF answer, read, mine
    <2>6. /\ new \in Entries /\ DOMAIN new.vars = (there \cup mine) \ removed
          /\ \A h \in DOMAIN new.vars :
                /\ new.vars[h] = IF h \in mine THEN answer[h] ELSE target.vars[h]
                /\ new.stamps[h] = IF h \in there THEN target.stamps[h] ELSE now
      <3>1. /\ target \in Entries /\ now \in 0 .. MaxTime
            /\ mine \in SUBSET Hosts /\ answer \in [mine -> Variables]
        BY <2>1, <2>4
      <3>2. new \in Entries
        BY <3>1, MergeScriptIs
      <3>3. DOMAIN new.vars = (there \cup mine) \ removed
        BY <3>1, MergeScriptIs
      <3>4. \A h \in (there \cup mine) \ removed :
               /\ new.vars[h] = IF h \in mine THEN answer[h] ELSE target.vars[h]
               /\ new.stamps[h] = IF h \in there THEN target.stamps[h] ELSE now
        BY <3>1, MergeScriptIs, SMTT(20)
      <3> HIDE DEF new
      <3>5. QED
        BY <3>2, <3>3, <3>4
    <2> HIDE DEF new
    <2> USE DEF mine
    <2>7. target' = new /\ Cached'
      BY <1>1, <1>4, <2>6, NoDataAssumption DEF new, Cached
    <2>8. Runs' /\ Undisturbed'
      BY <1>1, <1>2, <2>7, DoneUndisturbed
    <2>9. \A h \in there : /\ target.vars[h].at \in 0 .. MaxTime /\ target.vars[h].at <= now
                           /\ target.stamps[h] \in 0 .. MaxTime /\ target.stamps[h] <= now
      BY <2>1, EntryShape DEF Before
    <2>10. Before(new, now)
      <3> SUFFICES ASSUME NEW h \in DOMAIN new.vars
                   PROVE  new.vars[h].at <= now /\ new.stamps[h] <= now
        BY DEF Before
      <3>1. new.stamps[h] <= now
        BY <2>1, <2>6, <2>9, EnrichmentAssumption
      <3>2. CASE h \in mine
        <4>1. new.vars[h] = IF h \in touched THEN read.vars[h] ELSE Gathered(now)
          BY <2>5, <2>6, <3>2
        <4>2. QED
          BY <2>1, <2>2, <2>3, <3>1, <4>1, EnrichmentAssumption
      <3>3. CASE h \notin mine
        BY <2>6, <2>9, <3>1, <3>3
      <3>4. QED
        BY <3>2, <3>3
    <2>11. Honest'
      <3> SUFFICES ASSUME NEW h \in DOMAIN new.vars, h \notin overtaken'
                   PROVE  new.stamps[h] <= new.vars[h].at
        BY <2>7 DEF Honest, Present
      <3>1. /\ h \notin overtaken
            /\ h \in touched => h \in there /\ ~(read.vars[h].at < target.vars[h].at)
        BY <1>1, <1>4 DEF Present
      <3>2. h \in there => target.stamps[h] <= target.vars[h].at
        BY <1>4, <3>1 DEF IInv, Honest, Present
      <3>3. CASE h \in touched
        <4>1. new.vars[h] = read.vars[h] /\ new.stamps[h] = target.stamps[h]
          BY <2>5, <2>6, <3>1, <3>3
        <4>2. read.vars[h].at \in Nat /\ target.vars[h].at \in Nat /\ target.stamps[h] \in Nat
          BY <2>2, <2>9, <3>1, <3>3, EnrichmentAssumption DEF Variables
        <4>3. QED
          BY <3>1, <3>2, <3>3, <4>1, <4>2
      <3>4. CASE h \in introduced \ touched
        <4>1. new.vars[h].at = now
          BY <2>3, <2>5, <2>6, <3>4
        <4>2. new.stamps[h] <= now
          BY <2>1, <2>6, <2>9, EnrichmentAssumption
        <4>3. QED
          BY <4>1, <4>2
      <3>5. CASE h \notin mine
        BY <2>6, <3>2, <3>5
      <3>6. QED
        BY <3>3, <3>4, <3>5
    <2>12. QED
      BY <1>1, <2>6, <2>7, <2>8, <2>10, <2>11 DEF IInv, Typed, Runs
  <1>5. QED
    BY <1>3, <1>4

-----------------------------------------------------------------------------
(* The other writes.                                                       *)

\* A write by hand: of one host, now.
LEMMA PutInvariant ==
    ASSUME IInv, NEW h \in Hosts, Put(h)
    PROVE  IInv'
  <1> DEFINE v == Over(target.vars, [x \in {h} |-> Gathered(now + 1)])
             s == Over(target.stamps, [x \in {h} |-> now + 1])
             there == DOMAIN target.vars
  <1>1. /\ Cached /\ now < MaxTime /\ now' = now + 1
        /\ target' = [vars |-> v, stamps |-> s]
        /\ overtaken' = overtaken \ {h} /\ alone' = FALSE
        /\ UNCHANGED <<other, run, due, evictions>>
    BY DEF Put
  <1>2. now' \in 0 .. MaxTime /\ now <= now' /\ now \in Nat
    BY <1>1, EnrichmentAssumption DEF IInv, Typed
  <1>3. target \in Entries /\ Before(target, now)
    BY <1>1 DEF IInv, Typed, Cached
  <1>4. /\ there \subseteq Hosts /\ target.vars \in [there -> Variables]
        /\ target.stamps \in [there -> 0 .. MaxTime]
        /\ Gathered(now + 1) \in Variables /\ Gathered(now + 1).at = now + 1
    BY <1>1, <1>2, <1>3, EntryShape, GatheredType
  <1>5. /\ v \in [there \cup {h} -> Variables] /\ DOMAIN v = there \cup {h}
        /\ \A x \in there \cup {h} : v[x] = IF x = h THEN Gathered(now + 1) ELSE target.vars[x]
    BY <1>4 DEF Over
  <1>6. /\ s \in [there \cup {h} -> 0 .. MaxTime]
        /\ \A x \in there \cup {h} : s[x] = IF x = h THEN now + 1 ELSE target.stamps[x]
    BY <1>1, <1>2, <1>4 DEF Over
  <1> HIDE DEF v, s
  <1>7. target' \in Entries /\ DOMAIN target'.vars = there \cup {h}
    BY <1>1, <1>4, <1>5, <1>6, MakesAnEntry
  <1>8. \A x \in there : /\ target.vars[x].at \in Nat /\ target.vars[x].at <= now
                         /\ target.stamps[x] \in Nat /\ target.stamps[x] <= now
    BY <1>3, EntryShape, EnrichmentAssumption DEF Before
  <1>9. \A x \in there \cup {h} :
           /\ target'.vars[x] = IF x = h THEN Gathered(now + 1) ELSE target.vars[x]
           /\ target'.stamps[x] = IF x = h THEN now + 1 ELSE target.stamps[x]
    BY <1>1, <1>5, <1>6
  <1>10. Before(target', now')
    BY <1>1, <1>2, <1>4, <1>7, <1>8, <1>9 DEF Before
  <1>11. Honest'
    <2> SUFFICES ASSUME NEW x \in there \cup {h}, x \notin overtaken'
                 PROVE  target'.stamps[x] <= target'.vars[x].at
      BY <1>7 DEF Honest, Present
    <2>1. CASE x = h
      BY <1>2, <1>4, <1>9, <2>1
    <2>2. CASE x # h
      BY <1>1, <1>9, <2>2 DEF IInv, Honest, Present
    <2>3. QED
      BY <2>1, <2>2
  <1>12. Runs'
    BY <1>1, <1>2, RunsStay
  <1>13. QED
    BY <1>1, <1>2, <1>7, <1>10, <1>11, <1>12 DEF IInv, Typed, Runs, Undisturbed

\* A host deleted by hand.
LEMMA DeleteInvariant ==
    ASSUME IInv, NEW h \in Hosts, Delete(h)
    PROVE  IInv'
  <1> DEFINE v == Less(target.vars, {h})
             s == Less(target.stamps, {h})
             there == DOMAIN target.vars
  <1>1. /\ Cached /\ now < MaxTime /\ now' = now + 1
        /\ target' = [vars |-> v, stamps |-> s]
        /\ overtaken' = overtaken \ {h} /\ alone' = FALSE
        /\ UNCHANGED <<other, run, due, evictions>>
    BY DEF Delete, Present
  <1>2. now' \in 0 .. MaxTime /\ now <= now' /\ now \in Nat
    BY <1>1, EnrichmentAssumption DEF IInv, Typed
  <1>3. target \in Entries /\ Before(target, now)
    BY <1>1 DEF IInv, Typed, Cached
  <1>4. /\ there \subseteq Hosts /\ target.vars \in [there -> Variables]
        /\ target.stamps \in [there -> 0 .. MaxTime]
    BY <1>3, EntryShape
  <1>5. /\ v \in [there \ {h} -> Variables] /\ DOMAIN v = there \ {h}
        /\ \A x \in there \ {h} : v[x] = target.vars[x]
    BY <1>4 DEF Less
  <1>6. /\ s \in [there \ {h} -> 0 .. MaxTime]
        /\ \A x \in there \ {h} : s[x] = target.stamps[x]
    BY <1>4 DEF Less
  <1> HIDE DEF v, s
  <1>7. target' \in Entries /\ DOMAIN target'.vars = there \ {h}
    BY <1>1, <1>4, <1>5, <1>6, MakesAnEntry
  <1>8. \A x \in there : /\ target.vars[x].at \in Nat /\ target.vars[x].at <= now
                         /\ target.stamps[x] \in Nat /\ target.stamps[x] <= now
    BY <1>3, EntryShape, EnrichmentAssumption DEF Before
  <1>9. \A x \in there \ {h} : /\ target'.vars[x] = target.vars[x]
                               /\ target'.stamps[x] = target.stamps[x]
    BY <1>1, <1>5, <1>6
  <1>10. Before(target', now')
    BY <1>1, <1>2, <1>7, <1>8, <1>9 DEF Before
  <1>11. Honest'
    BY <1>1, <1>7, <1>9 DEF IInv, Honest, Present
  <1>12. Runs'
    BY <1>1, <1>2, RunsStay
  <1>13. QED
    BY <1>1, <1>2, <1>7, <1>10, <1>11, <1>12 DEF IInv, Typed, Runs, Undisturbed

\* The target is evicted.
LEMMA EvictInvariant ==
    ASSUME IInv, Evict
    PROVE  IInv'
  <1>1. /\ target' = NoData /\ alone' = FALSE
        /\ UNCHANGED <<now, other, run, due>>
    BY DEF Evict
  <1>2. now' \in 0 .. MaxTime /\ now <= now'
    BY <1>1, EnrichmentAssumption DEF IInv, Typed
  <1>3. Runs'
    BY <1>1, <1>2, RunsStay
  <1>4. QED
    BY <1>1, <1>3 DEF IInv, Typed, Runs, Undisturbed, Cached, Honest, Present

\* A sync of the target lands while no other is at work.
LEMMA GatherInvariant ==
    ASSUME IInv, NEW hosts \in SUBSET Hosts, Gather(hosts)
    PROVE  IInv'
  <1>1. /\ ~Syncing /\ now < MaxTime /\ now' = now + 1
        /\ target' = Entry(hosts, now + 1)
        /\ due' = Enrichers
        /\ alone' = (other # NoData /\ \A r \in Runners : run[r] = Idle)
        /\ UNCHANGED <<other, run, evictions>>
    BY DEF Gather
  <1>2. now' \in 0 .. MaxTime /\ now <= now' /\ now \in Nat
    BY <1>1, EnrichmentAssumption DEF IInv, Typed
  <1> DEFINE v == [h \in hosts |-> Gathered(now + 1)]
             s == [h \in hosts |-> now + 1]
  <1>3. /\ v \in [hosts -> Variables] /\ DOMAIN v = hosts
        /\ \A h \in hosts : v[h].at = now + 1
        /\ s \in [hosts -> 0 .. MaxTime] /\ \A h \in hosts : s[h] = now + 1
    BY <1>1, <1>2, GatheredType
  <1>4. target' = [vars |-> v, stamps |-> s]
    BY <1>1 DEF Entry
  <1> HIDE DEF v, s
  <1>5. /\ target' \in Entries /\ DOMAIN target'.vars = hosts
        /\ \A h \in hosts : target'.vars[h].at = now + 1 /\ target'.stamps[h] = now + 1
    BY <1>3, <1>4, MakesAnEntry
  <1>6. Cached' /\ Before(target', now') /\ Honest'
    BY <1>1, <1>2, <1>5, NoDataAssumption DEF Cached, Before, Honest, Present
  <1>7. run[Sync] = Idle
    BY <1>1 DEF IInv, Typed
  <1>8. \A r \in Runners : RunOK(r)'
    <2>1. \A r \in Runners : run[r] # Idle => Running(r)' = Running(r)
      BY <1>7 DEF Running
    <2>2. QED
      BY <1>1, <1>2, <2>1, RunStays DEF IInv
  <1>9. Upwards'
    BY <1>1 DEF Upwards
  <1>10. Typed'
    BY <1>1, <1>2, <1>5, <1>7 DEF IInv, Typed
  <1>11. Undisturbed'
    <2>1. alone' => other' # NoData /\ \A r \in Tasks : run'[r] = Idle
      BY <1>1 DEF Runners
    <2>2. run'[Sync].at = "idle"
      BY <1>1, <1>7 DEF Idle
    <2>3. QED
      BY <1>6, <2>1, <2>2 DEF Undisturbed
  <1>12. QED
    BY <1>6, <1>8, <1>9, <1>10, <1>11 DEF IInv

\* The reader the sync was for leaves.
LEMMA GiveUpInvariant ==
    ASSUME IInv, GiveUp
    PROVE  IInv'
  <1>1. /\ run' = [run EXCEPT ![Sync] = Idle] /\ due' = {} /\ alone' = FALSE
        /\ UNCHANGED <<now, target, other, evictions, overtaken>>
    BY DEF GiveUp
  <1>2. /\ DOMAIN run' = Runners /\ run'[Sync] = Idle
        /\ \A r \in Runners \ {Sync} : run'[r] = run[r]
    BY <1>1 DEF IInv, Typed, Runners
  <1>3. now' \in 0 .. MaxTime /\ now <= now'
    BY <1>1, EnrichmentAssumption DEF IInv, Typed
  <1>4. \A r \in Runners : RunOK(r)'
    <2>1. RunOK(Sync)'
      BY <1>2 DEF RunOK
    <2>2. \A r \in Runners \ {Sync} : Running(r)' = Running(r)
      BY DEF Running
    <2>3. \A r \in Runners \ {Sync} : RunOK(r)'
      BY <1>2, <1>3, <2>2, RunStays DEF IInv
    <2>4. QED
      BY <2>1, <2>3
  <1>5. (Cached => Before(target, now))' /\ Honest'
    BY <1>1 DEF IInv, Cached, Before, Honest, Present
  <1>6. QED
    BY <1>1, <1>2, <1>4, <1>5 DEF IInv, Typed, Upwards, Undisturbed

\* The source of the declarative enrichers is synced.
LEMMA SyncOtherInvariant ==
    ASSUME IInv, SyncOther
    PROVE  IInv'
  <1>1. /\ UNCHANGED <<now, target, run, due, evictions, overtaken, alone>>
        /\ other' = IF other = NoData THEN 1 ELSE other + 1
        /\ other' <= MaxVersions
    BY DEF SyncOther
  <1>2. other' \in 1 .. MaxVersions /\ other' # NoData
    BY <1>1, EnrichmentAssumption, NoDataAssumption DEF IInv, Typed
  <1>3. now' \in 0 .. MaxTime /\ now <= now'
    BY <1>1, EnrichmentAssumption DEF IInv, Typed
  <1>4. Runs'
    BY <1>1, <1>3, RunsStay
  <1>5. (Cached => Before(target, now))' /\ Honest'
    BY <1>1 DEF IInv, Cached, Before, Honest, Present
  <1>6. Undisturbed'
    BY <1>1, <1>2 DEF IInv, Undisturbed, Syncing, Cached
  <1>7. QED
    BY <1>1, <1>2, <1>4, <1>5, <1>6 DEF IInv, Typed, Runs

\* Time passes.
LEMMA TickInvariant ==
    ASSUME IInv, Tick
    PROVE  IInv'
  <1>1. /\ now < MaxTime /\ now' = now + 1
        /\ UNCHANGED <<target, other, run, due, evictions, overtaken, alone>>
    BY DEF Tick
  <1>2. now' \in 0 .. MaxTime /\ now <= now' /\ now \in Nat
    BY <1>1, EnrichmentAssumption DEF IInv, Typed
  <1>3. Runs'
    BY <1>1, <1>2, RunsStay
  <1>4. (Cached => Before(target, now))'
    <2>1. Cached => target \in Entries /\ Before(target, now)
      BY DEF IInv, Typed, Cached
    <2>2. Cached => Before(target, now')
      BY <1>2, <2>1, BeforeGrows
    <2>3. QED
      BY <1>1, <2>2 DEF Cached
  <1>5. Honest' /\ Undisturbed'
    BY <1>1 DEF IInv, Honest, Present, Undisturbed, Syncing, Cached
  <1>6. QED
    BY <1>1, <1>2, <1>3, <1>4, <1>5 DEF IInv, Typed, Runs

\* At the start nothing is cached and nothing runs.
LEMMA InitInvariant ==
    ASSUME Init
    PROVE  IInv
  <1>1. Typed
    <2>1. now \in 0 .. MaxTime
      BY EnrichmentAssumption DEF Init
    <2>2. DOMAIN run = Runners /\ run[Sync] = Idle
      BY DEF Init, Runners
    <2>3. QED
      BY <2>1, <2>2 DEF Init, Typed
  <1>2. \A r \in Runners : RunOK(r)
    BY DEF Init, RunOK
  <1>3. QED
    BY <1>1, <1>2 DEF Init, IInv, Cached, Upwards, Honest, Present, Undisturbed

\* Every step keeps the invariant.
LEMMA NextInvariant ==
    ASSUME IInv, [Next]_vars
    PROVE  IInv'
  <1>1. ASSUME NEW r \in Runners, Step(r)
        PROVE  IInv'
    BY <1>1, BeginInvariant, ReadOtherInvariant, MergeInvariant, FailInvariant, AnswerInvariant
       DEF Step
  <1>2. CASE \E hosts \in SUBSET Hosts : Gather(hosts)
    BY <1>2, GatherInvariant
  <1>3. CASE \E h \in Hosts : Put(h) \/ Delete(h)
    BY <1>3, PutInvariant, DeleteInvariant
  <1>4. CASE GiveUp \/ Evict \/ SyncOther \/ Tick
    BY <1>4, GiveUpInvariant, EvictInvariant, SyncOtherInvariant, TickInvariant
  <1>5. CASE UNCHANGED vars
    <2>1. UNCHANGED <<now, target, other, run, due, evictions, overtaken, alone>>
      BY <1>5 DEF vars, state
    <2>2. now' \in 0 .. MaxTime /\ now <= now'
      BY <2>1, EnrichmentAssumption DEF IInv, Typed
    <2>3. Runs'
      BY <2>1, <2>2, RunsStay
    <2>4. (Cached => Before(target, now))' /\ Honest' /\ Undisturbed'
      BY <2>1 DEF IInv, Cached, Before, Honest, Present, Undisturbed, Syncing
    <2>5. QED
      BY <2>1, <2>3, <2>4 DEF IInv, Typed, Runs
  <1>6. QED
    BY <1>1, <1>2, <1>3, <1>4, <1>5 DEF Next

-----------------------------------------------------------------------------
(* The last enricher of a sync.                                            *)

\* The last id is a declarative enricher's: none that runs a script comes
\* after it.
LastIsDeclarative == \E e \in Enrichers \ Scripts : \A d \in Enrichers : d <= e

\* With one enricher left to a sync, that is the last id.
LEMMA LastIsLeft ==
    ASSUME IInv, LastIsDeclarative, Syncing, due \ {First} = {}
    PROVE  First = LastId /\ First \in Enrichers \ Scripts
  <1>1. PICK e \in Enrichers \ Scripts : \A d \in Enrichers : d <= e
    BY DEF LastIsDeclarative
  <1>2. First \in due /\ due \subseteq Enrichers /\ Enrichers \subseteq Nat
    BY FirstIsLeast, EnrichmentAssumption DEF IInv, Typed, Syncing
  <1>3. e \in due
    BY <1>1, <1>2 DEF IInv, Upwards
  <1>4. e = First
    BY <1>3
  <1>5. ASSUME NEW c \in Enrichers \ Scripts, \A d \in Enrichers \ Scripts : d <= c
        PROVE  c = e
    BY <1>1, <1>2, <1>5
  <1>6. LastId = e
    BY <1>1, <1>5 DEF LastId
  <1>7. QED
    BY <1>1, <1>4, <1>6

\* The step with which an undisturbed sync returns merges the fields of the
\* last id.
LEMMA ReturnStep ==
    ASSUME IInv, LastIsDeclarative, [Next]_vars
    PROVE  ReturnsEnriched
  <1> SUFFICES ASSUME SyncReturns, alone, NEW h \in DOMAIN target'.vars \cap Known
               PROVE  target'.vars[h].field # NoData /\ target'.vars[h].field.by = LastId
    BY DEF ReturnsEnriched
  <1>1. did' \in {"merged", "failed"} /\ due # {} /\ due' = {}
    BY DEF SyncReturns, Syncing
  <1>2. PICK r \in Runners : Step(r)
    <2>1. due' # due
      BY <1>1
    <2>2. Next
      BY <2>1 DEF vars, state
    <2>3. ~(\E hosts \in SUBSET Hosts : Gather(hosts))
      BY <1>1 DEF Gather
    <2>4. ~(\E x \in Hosts : Put(x) \/ Delete(x))
      BY <1>1 DEF Put, Delete
    <2>5. ~(GiveUp \/ Evict \/ SyncOther \/ Tick)
      BY <1>1 DEF GiveUp, Evict, SyncOther, Tick
    <2>6. QED
      BY <2>2, <2>3, <2>4, <2>5 DEF Next
  <1>3. /\ Syncing /\ other # NoData /\ Cached
        /\ run[Sync].at = "merge" => run[Sync].hosts = DOMAIN target.vars \cap Known
    BY <1>1 DEF IInv, Undisturbed, Syncing
  <1>4. ~Begin(r) /\ ~ReadOther(r)
    BY <1>1, <1>3 DEF Begin, ReadOther
  <1>5. \E outcome : Done(r, outcome)
    BY <1>2, <1>4 DEF Step, Merge, Fail, Answer
  <1>6. r = Sync /\ due \ {First} = {}
    BY <1>1, <1>5 DEF Done
  <1>7. First = LastId /\ First \in Enrichers \ Scripts
    BY <1>3, <1>6, LastIsLeft
  <1>8. Running(r) = LastId /\ Running(r) \notin Scripts
    BY <1>6, <1>7 DEF Running
  <1>9. run[r].at # "script"
    BY <1>8 DEF IInv, RunOK, Idle
  <1>10. Merge(r)
    BY <1>2, <1>4, <1>9 DEF Step, Fail, Answer
  <1>11. run[r].at = "merge" /\ target' = MergeFields(r, run[r].hosts)
    BY <1>3, <1>10 DEF Merge
  <1>12. /\ DOMAIN target'.vars = DOMAIN target.vars
         /\ \A x \in DOMAIN target.vars : x \in run[r].hosts =>
               target'.vars[x].field = [by |-> Running(r), version |-> run[r].version]
    BY <1>3, <1>11, MergeFieldsIs
  <1>13. target'.vars[h].field = [by |-> LastId, version |-> run[r].version]
    BY <1>3, <1>6, <1>8, <1>11, <1>12
  <1>14. run[r].version \in 1 .. MaxVersions
    BY <1>9, <1>11 DEF IInv, RunOK, Idle
  <1>15. [by |-> LastId, version |-> run[r].version] \in Field
    BY <1>7, <1>14 DEF Field
  <1>16. QED
    BY <1>13, <1>15, NoDataAssumption

-----------------------------------------------------------------------------
(* The theorems.                                                           *)

\* The invariant of Enrichment holds in every behaviour.
THEOREM EnrichmentInvariant == Spec => []IInv
  BY InitInvariant, NextInvariant, PTL DEF Spec

\* The invariant implies the type invariant of the run.
LEMMA InvariantTypes == IInv => TypeOK
  <1> SUFFICES ASSUME IInv PROVE TypeOK
    OBVIOUS
  <1>1. \A r \in Runners : run[r].at \in {"idle", "fields", "merge", "script"}
    BY DEF IInv, RunOK, Idle
  <1>2. QED
    BY <1>1 DEF IInv, Typed, TypeOK

\* Whoever enriched a host, and whatever was synced, edited or evicted in the
\* meantime, it is not dated later than its variables, unless a script
\* answered for variables that had been replaced (execute_enricher).
THEOREM AgesStayHonest == Spec => []HonestUnlessOvertaken
  <1>1. IInv => HonestUnlessOvertaken
    BY InvariantTypes DEF IInv, Honest, HonestUnlessOvertaken
  <1>2. QED
    BY <1>1, EnrichmentInvariant, PTL

\* A sync that shared the target with nobody returns with every host the
\* enrichers' source knows carrying the field, written by the last id
\* (run_enrichers_for_target).
THEOREM SyncsReturnEnriched ==
    ASSUME LastIsDeclarative
    PROVE  Spec => SyncReturnsEnriched
  <1>1. IInv /\ [Next]_vars => [ReturnsEnriched]_vars
    BY ReturnStep
  <1>2. QED
    BY <1>1, EnrichmentInvariant, PTL DEF Spec, SyncReturnsEnriched
=============================================================================
