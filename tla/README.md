# A TLA+ verification of unified-api

unified-api gathers inventories (hosts, their variables, their groups) from
scripts, SSH, static files and other instances of itself, keeps them in an
in-memory cache, enriches them, and serves them over HTTP, as sources, as views
over several sources and as rendered endpoints. This directory models the parts
of it in which time, concurrency and failure decide what is served, and the
rules by which it selects, merges, routes and validates. TLC checks each model
on a small instance; TLAPS proves the central safety properties for every value
of the constants.

Paths below are relative to the crate's `src/` unless they begin with `docs/`.

1. [Inventory](#1-inventory)
2. [Modules and the code](#2-modules-and-the-code)
3. [Runs](#3-runs)
4. [Proofs](#4-proofs)
5. [Where code and words disagree](#5-where-code-and-words-disagree)
6. [What is not modelled](#6-what-is-not-modelled)
7. [Plan](#7-plan)

## 1. Inventory

### 1.1 Components

| Component | Code | State it keeps | Operations |
|---|---|---|---|
| Cache store | `adapters/out/cache/memory.rs` | a sharded map of entries, a generation counter | `set`, `update`, `merge_or_insert`, `remove`, `get`, `export` |
| Cache entry | `domain/cache_entry.rs`, `domain/dataset.rs` | dataset, instant gathered, TTL, a timestamp per host, whether it is complete | full, host and group merges, retention of unreachable hosts, enrichment, freshness, restore |
| Source sync | `application/sync.rs` | per source: a FIFO mutex, a counter of full syncs | `sync_source`, `run_sync`, `apply_to_cache` |
| Sync health | `domain/sync_health.rs` | per id: last outcome, streak of failures, 50 runs of history | `record_success`, `record_failure`, `record_run` |
| On-demand refresh | `application/refresh.rs` | a lock per host, a resizable semaphore with a shrink debt, the budget | `refresh_hosts`, `acquire`, `resize` |
| Enrichment | `application/enrich.rs`, `adapters/out/enrichers/process.rs` | none of its own | `run_enricher`, `run_enrichers_for_target` |
| Scheduled tasks | `adapters/in/scheduler/mod.rs` | per task: ticker, failure streak, ticks to skip | start, wait for a dependency, tick, back off, panic and restart, stop |
| Supervisor, reload | `adapters/in/scheduler/mod.rs`, `application/config.rs`, `state.rs` | configuration snapshot, reload counter, task generations, pruners | `apply`, `start_supervisor`, `drop_unconfigured_entries` |
| Persistence, boot, shutdown | `adapters/out/cache/persistence.rs`, `main.rs` | a snapshot file, a temporary file, the saved generation | `load`, `save`, the snapshot task, the drain, the final save |
| Git projects | `application/projects.rs`, `adapters/out/python.rs` | a checkout and a virtualenv with a marker, a lock per checkout | `sync_project`, `PyVenv::ensure` |
| Connectors | `adapters/out/connectors/*` | processes and SSH sessions under permits and time-outs; remote: a memo of the last body per URL | gather |
| Federation | `connectors/remote.rs`, `application/topology.rs`, `peers/http.rs` | advertised scopes, pushed maps that expire | pull with validators, `describe`, `push_federation` |
| Views | `application/views.rs`, `domain/view.rs` | a memo of host counts | ownership, `snapshot`, `select`, refresh |
| Reads | `adapters/in/http/{sources,hosts,detail,views}.rs` | none | plain and filtered reads, ETags |
| Endpoints, search | `application/{output,host_search}.rs`, `domain/endpoint.rs` | none | `apply_limit`, `merge_and_filter`, `search` |
| Inventories | `domain/{dataset,static_inventory,host}.rs` | none | a script's output, or groups, children and variable files, as one dataset |
| Configuration | `config.rs`, `adapters/in/http/config.rs` | the directory, what is in force, what waits for a restart | load, validate, write, reload |
| Credentials | `application/credentials.rs`, `domain/credential.rs` | the secrets chain | the variables a script is given |
| Access | `adapters/in/http/{auth,login,session,users}.rs`, `domain/{api_key,ldap}.rs` | keys, sessions (shared crates) | logins by key and by directory, permissions, key and session swaps |

### 1.2 How they interact

* A scheduled task, `POST /sync`, a write of a view's member and an on-demand
  refresh all call **`sync_source`**. It takes the source's mutex, gathers
  through a connector under a timeout, writes the cache (one operation, or two
  for a scoped sync on a cold cache), records health, re-applies the target's
  enrichers, moves the counter and releases the mutex.
* An **on-demand refresh** takes three resources in a fixed order: the locks of
  its stale hosts (sorted), one permit of a pool shared by the process, and,
  inside `sync_source`, the source's mutex. Its budget runs from the permit on,
  and running out *drops* the sync wherever it awaits.
* A **reload** replaces secrets, configuration, directory sessions, keys and
  key sessions one after another, drops entries of removed sources and bumps a
  counter. The supervisor then tells the running generation of tasks to
  stop, starts the next one at once and leaves a pruner behind that drops
  unconfigured entries again when the old generation has drained.
* The **snapshot task** exports the cache entry by entry when the generation
  counter moved; `main` saves once more after it has waited, within a grace
  period, for the tasks it knows of.
* **Enrichers** run inside a sync's mutex when the sync re-applies them, and
  outside it as tasks of their own.
* A **read** takes the entry, then the generation for its validator; a view's
  takes one entry per member. A **central** reads an origin by three requests
  (data, ages, scope), and lands what they answered in its own cache.
* An **instance describes itself** by asking its peers to describe themselves,
  one hop less deep, and pushes the map to those that answered.

### 1.3 What is hard

Several futures of one source, each droppable wherever it awaits; a lock taken
after state was read; two-step cache writes seen by the snapshot task and by a
crash; a semaphore that shrinks while its permits are out; tasks that outlive the
configuration that started them; a file replaced by two writers; a virtualenv
whose marker and contents are written apart; a validator made of state read at
another moment than the body; scripts merged into an entry that has changed
meanwhile; requests to another instance that is itself changing; processes with
pipes on both sides; and rules, of routing, selection, merging, validation and
redaction, in which two pieces of code must agree over combinations no test
lists. `PROJECT.json` lists each hazard at its line, with the properties that
would catch it.

### 1.4 What makes each part correct

| Part | It is correct when |
|---|---|
| sync | syncs of a source never overlap; no cached host goes back to an older run; answers given without gathering are current; a run that landed is on record; every call ends |
| entry | no timestamp is younger than its data; fresh and complete are earned by full gathers; hosts that could not be reached are kept whole, others not at all; scoped writes stay in scope |
| limiter | permits are conserved through resizes and dropped waiters; nobody waits beside a free one |
| refresh | a host is gathered once per TTL however many readers wait; every read is answered |
| tasks | attempts keep the documented distances; no failure is due to start order; nothing is stuck, in service or when told to stop |
| generations | removed sources keep no data; the newest configuration runs in the end; older settings never overwrite newer; the supervisor returns only drained |
| snapshots | the file always loads; nothing skipped is unsaved; a drained exit loses nothing; changes reach the disk |
| pulls | the history explains every move of the checkout; success means branch and requirements are in place; every pull ends |
| reads, federation | a 304 confirms what the cache holds; a central lands what the origin had during the pull, dated no younger than it is, and catches up |
| views, selection | a host is served by the first member that claims it and by no other; pages, patterns, paths and trimming mean what the reference says |
| endpoints, search | a limit only restricts, what is excluded is nowhere, the search names exactly what endpoints return |
| enrichment | no host looks fresher than its data unless a sync overtook the run; after a sync the fields are there, by the last id |
| gathers | each host asked is answered for; nothing runs unwatched or unverified; pipes never stop a run |
| maps, credentials | a living peer is described; a key sees only what it may, at every hop; a variable has one owner |
| configuration, access | what is in force can run and has its secrets; sessions end with what granted them |

## 2. Modules and the code

Each module follows its code action by action; `PROJECT.json` maps definitions
to lines. Definitions keep the source's names where they can. A definition
preceded by *Faulty variant* is a mutation of the one below it, used to check
that a property can fail; the specifications do not use it.

### CacheEntry (`domain/cache_entry.rs`)

No variables: every method of `CacheEntry` as an operator on an entry record
`[hostvars, groups, fetched, ttl, stamps, complete]`. What a host's variables
say is abstracted to `at`, the instant they were *really* gathered, and the set
of derived keys enrichers put beside them; a group to its hosts and variable
keys. `at` is what lets a property compare the timestamp the program keeps with
the truth. `Earliest` is the first instant the clock represents: `checked_sub`
below it fails.

### ApplyToCache (extends CacheEntry)

One source's entry under every write there is: `HostSync`, `GroupSync`, a full
sync in either mode, `FinishColdSync` (the second step of a cold scoped sync),
hand edits, additive and script enrichment, and time. The source's
configuration (local or federated, replace or merge, whether host syncs update
group variables) is a variable that never changes, so one run covers the kinds.
Writers are one at a time here; SourceSync has their interleaving.

### SourceSync (`application/sync.rs`)

One source, many callers. `pc` follows a caller through `sync_source`:
`asking` (the counter is read), `queued` (at the mutex), `entered`,
`gathering`, `marking`, `recording`, `enriching`. Runs of the connector are
numbered in the order they start, and a cached host is the number of the run
that gathered it; `entry.full` is the last full gather in it. `Drop` removes a
caller wherever it awaits. `Fail` is an error of the connector, `GatherTimeout`
its timeout. `asked`, `okRuns` and `overtaken` are history variables.

### RefreshLimiter and OnDemandRefresh (`application/refresh.rs`)

RefreshLimiter is the semaphore and the accounting of `resize`: capacity, debt,
free permits, the queue. It has a specification of its own (`LimiterSpec`)
and stands as the abstraction of the limiter in OnDemandRefresh, which
instantiates it and is shown to implement it (`ImplementsLimiter`: every step
of a read, a sync or a reload is a step of the limiter or leaves it alone).
What the limiter promises and that the reads implement it is proved, for any
reads and sizes (section 4). OnDemandRefresh is `refresh_hosts`: the stale hosts
sorted (`ToLock`), one lock per host, a `tokio` mutex that knows who holds it and
who waits, the
recheck under the locks, settle and acquire, the budget, the source's lock
shared with other syncs, the landed data, the row in the history, the answer;
`Timeout` and `Drop` at every await.

### ScheduledTasks (`adapters/in/scheduler/mod.rs`)

The loops of source, project and enricher tasks: start, `wait_for_dependency`,
ticks, `ticks_to_skip`, runs that work, fail or miss their data, `Panic` and
`Restart` of `spawn_supervised`, stop. Time is counted in ticks of each task, so
cron patterns, intervals and jitter are all the same to it. `ticks_to_skip` is the
doubling of `ticks_to_skip`, a recursive function. What TaskGenerations would name
alike is named for the tasks here (`TasksInit`, `TasksNext`, `TasksSpec`), since one
module proves about both.

### TaskGenerations (`scheduler/mod.rs`, `application/config.rs`)

Reloads against running work. A source's settings are a number; the cache holds
the settings its data was gathered with. `Swap`, `ListStale`, `RemoveStale` and
`BumpReload` are the steps of `apply`; `Notice`, `Spawn`, `StopAll`, `Return`
those of the supervisor; `PrunerReads` .. `PrunerEnds` the pruner's. Runs of any
generation and of requests queue on the source's mutex and coalesce as in
SourceSync. `stray` marks an entry that a request, not a task, wrote after its
source was removed: nothing in the program prunes such an entry before the next
reload or boot, and `RemovedKeepsNoData` says so by excepting exactly it.
`ViewRoutes` and `ViewRefreshes` are a view's read that refreshes the members
it routed under an earlier configuration.

### Snapshots (`persistence.rs`, `main.rs`)

A process that boots (load, drop what is unconfigured, capture the saved
generation), syncs, snapshots, shuts down, crashes and boots again with any
subset of its sources. Writes to the store and the bump of the generation are
two steps where the code has two. A save is `Export` per entry, `BeginWrite`,
`EndWrite`, `Rename`, or `SaveFails` at any of them; files are inodes, so two
savers that open the same temporary path share or replace each other's. `gaveUp`
says that a shutdown ran out of its grace: from then on main's save runs beside
live tasks, which `main.rs:329-333` accepts, and the properties do not claim
anything of it.

A crash is the death of the process: what was written to the file system stays.
Power loss (no `fsync` is called) is outside the model.

### ProjectPull (`application/projects.rs`, `adapters/out/python.rs`)

Pulls queue on the checkout's lock; the holder runs git, then the virtualenv
(`VenvChecked`, `Created`, `Installed`, `Marked`, each of which may fail or be
cut by its timeout, leaving half its work), and records a row. A client may hang
up in the middle (`lost`), which hands the lock on (`Unlock`).

### DatasetReads (`http/sources.rs`, `http/views.rs`, `http/metrics.rs`, `memory.rs`)

Writers put an entry and, in a step of its own, bump the generation; a client of
one kind (a plain read, a filtered one, a view's, a scrape of the metrics)
takes its entries one by one, then its validator, and keeps the last response
it got. `seen` is the set of bodies that were current at
some moment of the request. A restart loads the snapshot and counts generations
from zero.

### RemotePull (extends DatasetReads; `connectors/remote.rs`)

The composition of a central with an origin: DatasetReads is the origin, pulls
are the central's. `Asks`, `OriginAnswers`, `Reply200`, `Reply304`,
`StatusAnswers`, `ScopeAnswers`, `Goes` are the requests of `execute`; any may
fail, either side may restart, and pulls of one host patch the central's entry
between full ones. Under kind `remote` the central is the only reader.

### Enrichment (`application/enrich.rs`)

One target, its enrichers' tasks and the syncs of the target. A script run is
`get`, the script, `merge`, with a sync, an eviction or another run anywhere in
between; a declarative run reads target and source and merges the fields. A sync
takes the enrichers of its target by id, the least of those still `due`. A
host's variables are the instant they were gathered and one field: who wrote it
and from which version of the source. `overtaken` are the hosts on which a run
wrote what a sync had replaced.

### ScriptRun, SshHosts, SshGather, Gathering (`connectors/{process,ssh,known_hosts}.rs`, `enrichers/process.rs`, `output/process.rs`)

ScriptRun is a child with three pipes of one piece each, the task that hands its
input over, the drain, the caller and its timeout, and the busy file that is
spawned again. SshHosts is everything a gather settles before it dials: which
hosts, from a list or from another source, which addresses in which order, which
server keys are accepted, what is run, what its output amounts to. SshGather is
the fan-out: a task per host, permits, attempts with their timeout, a panicking
task, the source's timeout that drops them all. Gathering is either of the two,
as the connector decides.

### Configuration and Access (`config.rs`, `main.rs`, `http/{config,auth,login}.rs`, `application/config.rs`)

Configuration says which directories `load` accepts: sections read item by item,
names taken twice, the checks of every kind of item, the references between
them. Access runs a process on such directories: boot, `PUT` of a configuration
with or without a reload, a directory changed by hand, a restart. `Apply` is a
list of steps done one at a time, and logins (by key, or by directory with an
answer that may come after any step) and sessions go on between them.

### HostSelection, ViewRouting, ViewReads, EndpointOutput, StaticInventory, ScriptInventory, InventoryRules, Topology, CredentialDelivery, Requests

The read side is pure: an answer is an operator of what is cached, configured
and asked.

* **HostSelection** (`host_filter.rs`, `var_path.rs`, `group_trim.rs`, selection
  in `http/sources.rs`): conditions, globs, dotted paths, trimming, pages, groups.
* **ViewRouting** (`views.rs`, `domain/view.rs`, `source.rs`): which ownership a
  member routes by, both ways of finding a host's owner, selection, variables,
  groups, ages and freshness of a view, of its hosts and members, and what it
  advertises.
* **EndpointOutput** (`output.rs`, `host_search.rs`, `endpoint.rs`, the
  declarative half of `enrich.rs`): limit, merge, filter, shaping, the count of
  an endpoint's hosts, the search.
* **StaticInventory** (`static_inventory.rs`): the walk of a parsed tree and its
  variable files into groups and hosts.
* **ScriptInventory** (`dataset.rs`): what a script prints, the two forms of a
  group and what is refused, `all` and `ungrouped`, the members a full sync adds
  (`WithHosts`); and `render_ansible`, so that an endpoint's output can be read back.
* **Topology** (`topology.rs`, `peers/http.rs`): a world of instances, what each
  says of its peers to a depth, whom it waits for how long, what it pushes and
  to whom, what a key may see.
* **CredentialDelivery** (`credentials.rs`): the variables a source's credentials
  become.

ViewReads, InventoryRules and Requests give them a state: one request out of a
batch and its answer, one action per route. InventoryRules says what a request of a
valid configuration is (`MayAsk`, an assumption that TLC evaluates on every request
of the run) and has a specification of its own (`RulesSpec`), the one the theorems
are about. Requests adds the routes whose operators are recursive: static
inventories and the map of the federation. Loops over lists and paths are recursive
functions in HostSelection (the glob walk is its two-pointer loop, a turn at a time up
to a number of turns in which it has ended: the proof shows it), a loop whose result does not depend on its turns is
written as that result: the pages by each host's place, the routing table by the
first member that claims, the merge by the last layer that has the name. The properties compare the answer
with a reference written the other way round: a page with the whole selection, a
routing table with the first member that claims, a trimmed dataset with the
least set closed under parents, a search with the endpoints' own output.

## 3. Runs

| Run | Instance | What it shows |
|---|---|---|
| `source_sync` | 3 callers, 3 calls, 1 host, merge mode | an older gather never lands on a newer one; bursts gather once; coalesced answers are current; completeness is earned; what landed is recorded; every call ends |
| `apply_to_cache` | 2 hosts, an ordinary and a meta group, 1 key, TTL 1, clock to 2; local replace, local merge, federated replace | the entry stays coherent; ages are true, fresh is earned, an origin's ages survive; what a write is not about, and what could not be reached, stays |
| `on_demand_refresh` | 2 readers, 3 reads, lists `<<1>>`, `<<1,2>>`, `<<2,1>>`, a scheduled sync, a resize | no second refresh within a TTL, refinement of the limiter, every read is answered |
| `snapshots` | 1 source, 1 write, a restart, a failed save, clock to 1 | the file loads and nothing skipped is unsaved, a drained exit keeps all, changes reach the disk |
| `scheduled_tasks` | a chain of two sources; a source, a project and an enricher; a circle of two | the ladder of attempts; tasks start, get their data, survive panics and stop |
| `project_pull` | 2 pullers, 3 pulls, 3 commits, 2 failures | the history; what success means and that every pull ends |
| `task_generations` | 1 source, 2 reloads, 3 runs, a view's read, shutdown | removal, newest configuration, drained return; no older settings; shutdown ends |
| `federation` | 2 sources at the origin, 1 puller, 2 writes, a restart, a lost request, clock to 1; reads of every kind | validators confirm what is there, torn answers excepted; pulls are the origin's with its ages; the central catches up |
| `enrichment` | a declarative enricher before and one after a script, 2 with tasks of their own, clock to 3, 2 versions of the source, an eviction | honest ages unless overtaken; fields back after a sync, by the last id |
| `requests` | some 144,000 requests in fifteen batches | routing, selection, status, limits, search, merging, what scripts print, maps, keys and credentials against their references |
| `gathering` | 20 gathers of up to three hosts, four scripts with three ends | every host is answered for; nothing runs unwatched or unverified; gathers and scripts end |
| `access` | about 98 directories, 13 of them loadable, 2 reloads, 1 login at a time, 4 directories by hand | what is in force can run, its secrets first; sessions follow the rules |

A property that is a conjunction names its parts in its module; TLC's trace says
which one failed.

### 3.1 Bounds, and why they are enough

* **source_sync.** Three callers are the holder, one waiting, and one that asks
  while both are there, which is what coalescing, hand-over and overtaking need.
  Three calls let each caller make one, or one caller come back after its own
  answer. One host is enough since hosts of one run only differ by being in it;
  the proofs are for any number. Merge mode keeps hosts that were not returned, the
  harder case for ages; the proofs cover replace.
* **apply_to_cache.** Behaviours are unbounded in length; only the clock is
  bounded. TTL 1 within a clock of 2 gives entries fresh, just expired and long
  expired, and ages 0 and 1 an origin older and as old as the pull. Two hosts
  are the one named and the other.
* **on_demand_refresh.** Lists in opposite order are what could deadlock; two
  readers and a third read exercise waiting for a lock, for a permit and for the
  source; size 1 makes the permit contended.
* **snapshots.** One write between two saves, a save that fails and a crash or a
  graceful restart between any two steps are each in it, with the bump of the
  generation apart from its write. Properties speak of one source at a time.
* **scheduled_tasks.** `CounterMax` 8 saturates within reach; missing data fails
  any number of runs, so the ladder is climbed to its end; one error and one panic
  fall anywhere.
* **project_pull.** Three commits are one before, one pulled, one pushed during
  the pull.
* **task_generations.** Two reloads remove a source and bring it back, or change
  it twice, while a run of the first generation is still out.
* **federation.** Two writes put a change before, inside and after a request, or
  a change and a change back (contents repeat, so a validator made of content may
  match again). One restart falls anywhere on either side. Requests of different
  clients do not interact, so one client of any kind stands for all; a view has
  two members, which is what a torn snapshot needs.
* **enrichment.** One host: enrichers treat hosts alike, and which hosts a script
  touches, introduces or removes is any subset. Two versions are a source before
  and after its own sync.
* **requests.** Each batch enumerates its inputs around the cases the code
  distinguishes: ownerships that overlap, claim all, name hosts or come from a
  claim that is there, empty or missing; names given or patterned; groups that
  contain each other, are empty or name hosts without variables; dotted names
  beside dotted paths, with values (`VarValues`) of scalars and objects two deep; inventories with a group declared twice, above or below
  itself; printed groups of both forms, odd keys and the old format; worlds of
  four instances that read from each other, with peers that are slow, old, down,
  refuse the key or fail; credentials whose fields meet. Both ways of routing are
  evaluated on every view, whatever its number of hosts.
* **gathering.** No, one and two permits for up to three hosts, candidates one or two per
  host, every outcome of every step. Scripts read and print in orders that fill a
  pipe of two pieces; a real pipe holds more, which only makes a script that blocks
  longer.
* **access.** Every rejected directory breaks one rule; the loadable ones differ in
  keys, directory rules, sources, credentials and settings that need a restart. Two
  reloads are the rules changed and changed again while a login is out.

`CHECK_DEADLOCK FALSE` is set where a bound stops the system (no reads left to
make, no runs left), where it ends by itself (the process exited, the generation
returned, a gather has answered) or where a request is answered once. `source_sync`
has `Finished` for it and checks deadlock; `apply_to_cache` and `enrichment` check it
too.

`VIEW`s leave out what no property and no later step reads (comments say what, in the
MC modules and in Enrichment); symmetry is not used in a run with liveness.

### 3.2 Fairness, and why the code justifies it

Weak fairness stands for three things only: tokio polls a future that is ready,
a timer fires, and operations with a timeout end. So `Advance(c)` and
`GatherTimeout(c)` are fair in SourceSync, and a connector's answer is not:
`connector_timeout` bounds it. In OnDemandRefresh the budget's timer and the end
of others' syncs are fair; the gather's own answer is not needed. In
ScheduledTasks a run ends since every run is bounded; strong fairness is assumed
of `Returns`, because `select!` picks at random among ready branches and a task
that is told to stop may take a tick first, but not for ever. In Snapshots runs
are *not* fair: `ChangesReachTheDisk` and the end of a shutdown do not depend on
them. In RemotePull a pull in flight moves on (each request has a timeout), and
the strong fairness of `Begin` is the central's schedule: it pulls in full again and
again; failures are bounded by `MaxFailures`, as "once the origin answers" needs.
In Enrichment a task's ticker fires again and again and a script is answered for
or killed. In Gathering permits are handed on, attempts time out, pipes are read
and written by those that wait on them; a server that hangs stays hung, and so
does a script, until the timeout that the code has. Nobody is ever bound to ask,
reload, push, log in, crash or shut down.

Assumed without a bound in the code: that reading a revision (`git rev-parse`)
and resolving a secret return (`application/projects.rs:64`), and that the file
system answers.

## 4. Proofs

Eight modules hold the theorems, for every value of the constants the assumptions
allow: any sets of callers, hosts, sources, directories, gathers, scripts and
requests, and any bounds. SourceSyncProofs, ApplyToCacheProofs, SnapshotsProofs and
EnrichmentProofs are about the module they are named for; SchedulerProofs about
TaskGenerations and ScheduledTasks; ConfigurationProofs about Access and
ProjectPull; ConnectorProofs about Gathering, RemotePull with the reads of its
origin, and CredentialDelivery; ReadProofs about OnDemandRefresh with its limiter
and about InventoryRules. In each the inductive invariant is a conjunction of named parts, with a
lemma per action, or per action and part; TLC has checked each invariant on the
instance of the component's run before it was proved.

**SourceSync.** `IInv` is the inductive invariant, a conjunction of named parts:

* `TypeOK`, and `OneSyncAtATime`: who is inside the mutex, that its run is the
  newest, that the queue is exactly the waiting callers, once each;
* `Ages`: nothing cached, claimed or asked is newer than the newest run;
* `CompleteOrMarking`: an entry is complete only after a full gather, or while
  the holder still owes `mark_partial`; this is what makes
  `CompleteIsEarned` inductive, which it is not alone: it is silent while the
  mutex is held;
* `LandedFull`: between landing and returning, a full sync's run is the entry's;
* `MovedCounter`, `OvertakenMoves`: a caller whose counter moved finds a full
  gather no older than the newest run when it asked, and a full sync that
  returned while it waited has moved the counter. Without them neither
  `CoalescedIsCurrent` nor `BurstGathersOnce` follows: what a waiting caller will
  do depends on a counter read before the mutex was awaited;
* `LandedIsRecorded`, `BurstGathersOnce`.

There is one lemma per action. `FirstWriteFacts` states what a landing sync does to an
entry, and the lemmas on removing a caller from the queue hold for any sequence
without repetitions. Theorems: `InvariantHolds`, `Typing`, `SyncsAreSerial`
(`OneSyncAtATime`), `Completeness`, `LandedRunsAreRecorded`, `BurstsGatherOnce`
(invariants), `NewestGatherWins` and `CoalescedAnswersAreCurrent` (action
properties, from the invariant before the step).

**OnDemandRefresh and its limiter.** `LInv` adds to `PermitsConserved` and
`NobodyWaitsForAFreePermit` that the queue holds exactly the waiting callers,
each once (`QueueMatches`), so that handing permits to the first `k` of them
makes exactly `k` holders; the cardinality lemmas carry the arithmetic. Theorems of
the limiter alone (`LimiterSpec`): `LimiterInvariant`, `LimiterTyping`,
`PermitsAreConserved`, `NobodyWaitsBesideAPermit`, `PoolGrowsAsDeclared`.

The refinement is a step simulation (`StepKeepsToLimiter`): every step of a read is
one step of the limiter or leaves it alone, also where a read ends with whatever it
has of it (`Depart`). Hence `ReadsImplementTheLimiter` (`ImplementsLimiter`), and
`ReadsConservePermits` carries the limiter's promises over to reads that fail, time
out and hang up.

`RefreshedOncePerTtl` is about one instant, the start of a gather, and says nothing of
how the read got there. `IInv` does: the limiter, the source's lock and the state of
each read agree (`PlacesMatch`); each guard a read has taken holds its lock
(`GuardsHold`), and past its locks it wants only hosts it has locked
(`GathersWhatItLocked`), so that two such reads have no host in common
(`HostsAreGatheredByOne`); and what a read found stale stays so until it is gathered
(`StaleTillGathered`): only a refresh that brings the host back could end that, and
none but its own can while it holds the lock. Syncs of other origins, which take no
host lock, may stamp the host in between; the property is about refreshes.
`ReadsShareRefreshes` is `RefreshesAreShared`, types included. None of this needs the
locks to be taken in order or a list to name a host once: those are what
`EveryReadAnswers` needs.

**ApplyToCache.** The lemmas come first: what each operator of CacheEntry does to
the hosts, the groups, the timestamps and the dates of an entry (`MergeInto`,
`RestoreHosts`, `SetHostGroups`, `UpdateHostsAged`, `MergeEnrichment`, ...). `IInv`
says that an entry, also one a cold scoped sync has not finished, is as entries are
kept (`Kept`: well formed, no clock in the future, and of a local source a timestamp
for exactly its hosts and none later than the data), and that what such a sync still
owes (`Owing`) is about data gathered at this instant: dating it in a second
operation is then no lie. Theorems: `EntriesAreSound` (`EntryIsSound`),
`WritesKeepToTheirs` (`WritesKeepWhatIsNotTheirs`), `AgesAreHonest` (of local
sources), and what holds of the others: `TellingSourcesAreDatedTruly` says it of
each source that tells its age, by a second invariant `Dated` (an entry that is
whole shows the instant of the last full gather), and `AgesAreTold` concludes
`AgesAreTrue` where every federated source is taken whole (`replace`), its status
can be read and the clock reaches back to the oldest age it reports. The run's
constants are such; section 5 has what happens otherwise.

**TaskGenerations.** `RemovedKeepsNoData` only speaks of quiet states. `IInv` says
what holds at all times: data of a removed source is in the sight of a reload not
yet noticed or of a pruner that has still to come to it (`RemovedIsInSight`), every
generation that ended has a pruner (`Watched`), and a run keeps the task alive that
made it (`TasksOwnTheirRuns`), so that the pruner waits for it.
`OlderSettingsNeverWin` needs the order along each source's queue
(`SettingsAreOrdered`): a run that is no orphan is as new as the cached data and
every run before it. Theorems: `RemovedSourcesKeepNoData`, `NoTaskRunsOldSettings`,
`NewerSettingsStay` (`OlderSettingsNeverWin`), and `GenerationsAreCleanedUp`
(`GenerationsLeaveNothing`) where no shutdown signal arrives in the middle of a
reload (`StopsInReload = FALSE`, as in the run); section 5 has the other case.

**Configuration and Access.** `LoadedDirectoriesRun` is about the validation alone: whatever directory
passes the checks of the loader, each lookup by name that serving, syncing and
enriching do finds an entry of the kind it expects, and each credential needed can
be read. `IInv` follows a reload through its seven steps (`AtStep(k)`): which parts
are already those of the next configuration, and that logins under way count as
overlapping, without which a login that began under the old rules would end in a
session under the new ones. Theorems: `InForceConfigurationsRun`
(`WhatIsInForceRuns`), `SessionsAreOfTheRulesInForce` (`SessionsFollowTheRules`).

**ProjectPull.** `HistoryExplainsTheCheckout` speaks of rows that are written; a row
is made of what the pull read several steps, and several queued pulls, before.
`ProjectInv` says that the line at the lock holds each waiting pull once and only its
head works (`QueueFits`), that where a pull is says how far the checkout and its
virtualenv are (`PlaceFits`), and that whoever works began where the last row ended
(`RowsFit`): only a pull that was dropped may have moved the checkout without a row.
`MarkerFits` is about the virtualenv: what the marker names was installed at some
commit and is still, unless a later commit asked for something else. Theorems:
`ProjectInvariant`, `HistoriesExplainTheCheckout` (`HistoryExplainsTheCheckout`),
`ProjectTyping`, and `SuccessLeavesTheProjectReady`, which is `SuccessMeansReady`
where requirements that a commit replaced do not come back (`NeverReturns`, as in the
run); section 5 has the other case.

**ScheduledTasks.** The property compares attempts that lie a streak of failures
apart; `TasksInv` says what holds at every tick between them: the ticks since the
last attempt and those still to sit out add up to the streak's distance
(`OnTheLadder`), and a source that reached its loop had its input or waited for it as
long as it may (`InputsCameFirst`). The lemmas before it work out `ticks_to_skip`: of
the recursive function there is one with as many values as are asked for, by the
least number without one, and with it the distances 1, 2, 4 and then always 8. Theorems:
`TasksInvariant`, `TasksTyping`, `AttemptsKeepTheirDistance`
(`AttemptsFollowTheLadder`) and `StartOrderCostsNothing`: no source fails its first
run because of the order in which the tasks started.

**Gathering.** `SshInv` says that permits are in the semaphore or with a live task
(`PermitsAreOut`), that a session has a key that was accepted at the address it is
at (`TasksAreVerified`: what runs is checked when it was dialled, two steps before),
and that each task that has returned has given exactly one result (`TasksReport`, by
a map from results to tasks), which is what makes the count of hosts come out at
the end. `ScriptInv` relates the caller of a script to its child. That hosts come
back sorted rests on there being a list of every finite set in a given order
(`ListsExist`, by removing the least). Theorems: `NothingIsLeftRunning`
(`NothingRunsUnwatched`) and `EveryAnswerIsWhole` (`AnswersAreWhole`).

**DatasetReads and RemotePull.** The properties are about answers; what makes them true
is what a request carries while others write. `ReadsInv`: what a request has read is in
the store unless a write came in between (`RequestReads`), and a copy from a response
that was not torn is of its generation (`CopyHolds`), so that a 304 by generation
confirms what is there. `PullInv` follows a pull: its answer is one the origin gave
since the pull began (`PullKeeps`), dated by what `/status` said then (`PullDates`).
Both hold for any number of pullers, and so do `ReadsStayCurrent` (`ReadsAreCurrent`) and
`PulledAgesAreHonest`, the half of `PullsAreHonest` about ages. That what lands is the
origin's needs the memo to be what this pull's validator was made of (`MemosAreOwn`), and two
pullers of one URL break exactly that (section 5): `OnePullerIsServedHonestly` is
`PullsAreHonest` where at most one source has the URL, as in the run.

**CredentialDelivery.** `CredentialsAreDelivered`: for every list of ids and content of
the store, unless the whole delivery is refused, each field of each listed credential
reaches the connector under its credential's names, its own if no other has it. Its
conclusion, `ReachTheirNames`, is what the run's `CredentialsReachTheirNames` says of an
answer; Requests itself reaches recursive operators, so the theorem is of the operator.

**InventoryRules.** An answer is an operator of its request, so the invariant
(`AnswersFit`, theorem `RulesInvariant`) says just that, with what may be asked; the work
is in the lemmas about the operators.

* *Limits* (`EndpointLimitsHold`, of `EndpointsKeepTheirLimits`). The inputs of a limited
  endpoint are those of the unlimited one without some hosts (`HasOnly`); the merge of
  variables and groups, the choice of hosts and the pruning of groups each commute with
  that (`LimitedVars`, `LimitedGroups`, `LimitedOutput`).
* *Exclusions*, the same theorem. A path is followed segment by segment (`Meets`), by the
  recursive function of `Walk`; dropping one leaves every path that was not found not
  found (`KeepsAway`, `DropGone`), so that a list of them is all gone at its end
  (`DropsAreGone`), also after `fields` has built new objects (`KeepsArePlain`).
* *The search* (`SearchIsTruthful`, of `SearchSaysWhatEndpointsReturn`). That the i-th match
  is a host at all is a pigeonhole: hosts found have different places
  (`AheadIsOrder`) and there are as many places as hosts (`PlacesAreTaken`). That the
  shortcut of `Reaches` is what a call would answer goes by the cases of the endpoint
  (`ReachesWhatReturns`).
* *Merges and readings* (`MergingLosesNothing`, of `NothingIsLostInMerging`). An enricher's
  merge moves what it takes (`TakenCross`); `ScriptsHostsAreRemembered` and
  `PrintedInventoriesReadBack` hold for any printed inventory, and an endpoint's output is
  one of those that read back (`OutputsReadBack`).

ViewReads' answers are operators of their requests too (`ReadsFit`, a part of
`AnswersFit`).

* *Views* (`ViewsAnswerForTheirMembers`, of `ViewsServeTheirMembers`). The scan's owner and
  the table's owner are both the first member that claims (`OwnersByClaims`); what a
  view serves, selects and puts on a page is of owners (`SelectedIsServed`,
  `OwnersServe`); for one member that owns everything each step is the source's
  (`OneServes`, `OneGroups`, `OneSelected`); and since sets of hosts are finite, the greatest
  age is one of them and counts of hosts compare as the sets do (`StatusesFit`,
  `GroupCountsFit`).
* *Pages* (`SelectionsAreWhatTheySay`, of `SelectionsMeanWhatTheySay`). A host's place is
  a number that one stretch of `limit` places holds (`OneStretch`, `PagesCover`).
* *Groups of a page*, the same theorem. After n passes a group is kept exactly when a chain
  of children of at most n + 1 groups leads from it to a host of the page (`PassesFind`); a
  chain that names a group twice can be cut (`ChainCut`), so as many passes as there are
  groups find every chain there is (`ChainsAreShort`, `KeptAreChained`).
* *Patterns*, the same theorem. The walk keeps that the pattern generates the text exactly
  when the rest of it generates the rest of the text, or the last `*` takes more
  (`TurnFits`): the greedy step over the star before is never regretted, since whatever it
  could still generate, the later star can (`BackIsBehind`). Each turn raises a number
  that is bounded (`WalkMovesOn`), so the walk has ended (`WalkHasEnded`, `GlobIsRight`).
* *Paths*, the same theorem (`PathsMean`). Whatever of a value is kept is left of it: every
  path it still has leads to what the whole has there, or to the same object without some
  keys (`LeftOf`). What `insert_path` puts back on its way is left of what was there
  (`GrowsLeft`), so a path that leads nowhere in the whole leads nowhere in what is kept,
  and an entry of `fields` that finds no object to go into has found the value itself
  (`KeepOnce`). A name is settled once a path that it begins with is kept, and stays so
  whatever is kept after it (`InsertSettles`), by where the two paths part: on the way to
  the kept one (`GrowsBack`), below it, or aside. `remove_path` is the other way round:
  below the path nothing is found (`NowhereFromThere`), aside all is as it was
  (`RemoveSpares`, `DropsAway`).

**Enrichment.** `HonestUnlessOvertaken` needs what a run carries between its steps:
`RunOK` says that what it read is an entry, no later than now. `Upwards` and
`Undisturbed` are for the sync: its enrichers are those from some id upwards, and
while nobody else writes the target what the sync read is what is there, so that
what is left at the end was written by the last. That of any set of ids one is the
least is the well-foundedness of the naturals (`FirstIsLeast`). Theorems:
`AgesStayHonest` (`HonestUnlessOvertaken`), and `SyncsReturnEnriched`, which is
`SyncReturnsEnriched`, the action property in `DataIsEnriched`, where the last
enricher is declarative, as in the run: a script with the last id may put hosts
there that no enricher comes to any more.

**Snapshots.** `FileIsTrusted` is silent while a save is under way and while a
write's bump is to come; `IInv` says what holds then. `SaversWait` and `Files`: until
a shutdown gives up its drain one saver is at work at a time, so that its temporary
file is its own, is not the file that is read, and holds its export once written.
`Copied`: what the snapshot task has exported is what is cached as long as the
generation is the one it read before exporting; this is where the order of the two
reads matters, and of the two steps of a write (store, then bump).
`SavedIsRecorded` is the property without its condition that the task is idle.
`Draining` and `FinalCopied`: from the signal on no request runs, once drained no
task does, so main's export is what is cached, whenever its parts were made. Theorems:
`FilesAreTrusted` (`FileIsTrusted`), and `GracefulExitsKeepAll`
(`GracefulExitKeepsAll`, which only a rename can break) where the signal does not
arrive while the supervisor's handle is handed over (`StopsAtStart = FALSE`, as in
the run); section 5 has the other case.

The theorems named `...Invariant`, of typing and of `OneSyncAtATime`, the limiter's and
the partial results (`AgesAreHonest`, `TellingSourcesAreDatedTruly`,
`RemovedSourcesKeepNoData`, `NoTaskRunsOldSettings`, `LoadedDirectoriesRun`,
`SyncsReturnEnriched`, `ReadsConservePermits`, `HostsAreGatheredByOne`,
`PulledAgesAreHonest`, `SuccessLeavesTheProjectReady`, `StartOrderCostsNothing`,
`CredentialsAreDelivered`, `ScriptsHostsAreRemembered`, `PrintedInventoriesReadBack`) are
proved and not themselves properties of a run; the others are both.

Assumptions, each evaluated by TLC on the run's instance. `SourceSyncAssumption` (the mode
is one of the two, the free marker is no caller, bounds are naturals). The limiter has
none: sizes are what of `Sizes` is a natural number. `OnDemandRefreshAssumption`: hosts
are numbers in the order of their names, `Never` is no instant, reads are told from other
syncs, sizes, the TTL and bounds are naturals. `EnrichmentAssumption`: ids are numbers,
tasks and scripts are enrichers; `NoDataAssumption`: what is absent is told from what is
there. `CacheEntryAssumption` and `ApplyToCacheAssumption` give groups, layouts and sources
the shape of the code's types, put the start of the clock between `Earliest` and the bound,
and keep `Never` apart from instants. `ConfigurationAssumption` keeps an unset key apart
from keywords; `AccessAssumption` says that directories are sequences of items with the
keys the reader gives them (`Shaped`): it says nothing of their values.
`SshGatherAssumption`: a script has a size, a gather's `concurrency` is a natural number,
zero included, hosts are numbers in the order of their names, and a dataset names finitely
many. `ScriptRunAssumption`: inputs are of a natural number of pieces.
`SnapshotsAssumption`: a configuration has finitely many sources (boot counts what it
restored); `TornAssumption`: no half-written file parses as a whole one.
`ReadsAssumption`: the origin has finitely many sources, a view has a member, and a store
with nothing is told from one with data; `PullAssumption` adds that an entry of one host
is not nothing. `ProjectPullAssumption`: there is a commit, and a half-installed
virtualenv is told from one with requirements. `ScheduledTasksAssumption`: a task is of
one kind, what it reads is a source of its generation, and the counter of ticks exceeds
the longest wait of seven. `RequestsAssumption` is what the configuration and the reader of
datasets give: an endpoint's sources are configured and its limit is one of them
(`config.rs:628`), fields and exclusions are lists of names, Ansible's own two groups are in
no dataset, and what is absent is neither the name of a format nor a map of variables. What
a source or a member has read has finitely many hosts and groups, a view has a member
(`config.rs:667`), a page's limit is a natural number, and `/status` selects by names and
groups. Two clauses narrow: an endpoint's variables stand under names without a dot, since
a dotted key hides the path it looks like, and names matched by a pattern have no `*`
in them, since a literal match goes before the star's (section 5.2).
`VarValuesAssumption` is what is needed to know of values (`VarValues`, for
`serde_json::Value`): a value is not nothing, what an object holds is a value, and an
object is still a value when keys are taken out of it, at any depth. Sets of callers, hosts, directories, gathers and
requests may be infinite: that those holding a permit are finitely many is part of the
invariants.

Induction over data is done without the library's induction theorems: of a set of naturals
that is not empty there is a least element (`LeastNatural`, `FirstIsLeast`), so a first
place where a recursive function had no value, or a wrong one, is refuted by the place
before it.

Only model-checked:

* liveness under fairness, the tasks' half of `DataIsEnriched` (`FieldsCatchUp`) included:
  the provers take no `ENABLED`, and the refinements proved are of the safety
  specifications;
* `NothingDeclaredIsLost`, `MapsAreTrueAndPrivate` and `CredentialsReachTheirNames` as
  invariants: Requests reaches recursive operators (the walks of an inventory's tree and of
  a world of instances), which the provers cannot take.

## 5. Where code and words disagree

What comments or docs say and TLC refutes. Each is a definition at the end of its
module. To see the trace put it in the named configuration in place of its
properties, with the constants given: an invariant unless it is written with `[]`
or `~>`, and then with `Spec` in place of `FairSpec` where it is an action property.

### 5.1 Findings

* **A host named twice** (`EveryReadAnswers`, `OnDemandRefresh.cfg` with
  `HostLists <- TwiceNamed`, `Sizes = {1}`, two reads, no other syncs or resizes, and
  without the view). `?host=a,a&refresh=true`
  sorts the list and locks each element in turn; the second lock of `a` is the one
  the read holds itself. The budget has not started, so the read never ends, and
  later reads of that host queue behind it (`application/refresh.rs:219`).
* **A view's member gone during a refresh** (`ViewReadsFindTheirMembers`,
  `TaskGenerations.cfg`). The members come from one configuration and are looked up
  again in the next; a reload that removes one in between panics the request
  (`http/views.rs:651` against its comment at 648).
* **An empty advertisement is a catch-all** (`AdvertisementsDoNotWiden`,
  `Requests.cfg`). A view whose members are all `advertised` without a
  fallback advertises no group and no host, `catch_all: false`; a central builds
  an ownership of the empty lists, which claims everything
  (`application/views.rs:159` against 145).
* **A 304 for a body that is gone** (`NeverStale`, `Federation.cfg`). The body is read
  before the generation its validator is made of, and generations start from zero
  after a restart (`http/sources.rs:684` against 661, docs/api.md:417).
  `ReadsAreCurrent` excepts exactly these two.
* **Enrichment disguises** (`NeverDisguised`, `Enrichment.cfg`). A script that answers
  after a sync puts old variables under new timestamps (`application/enrich.rs:351`
  against docs/enrichers.md:187). **Ids do not order tasks** (`IdOrderWins`, `:129`).
* **A login outlives a reload** (`NoSessionOutlivesItsRules`, `Access.cfg`). A login
  waiting for the directory opens a session with what the rules granted before the
  reload that changed them (`http/login.rs:43` against docs/ldap-login.md:148).
* **A script runs twice** (`NoSecondRun`, `Gathering.cfg`). The timeout of an attempt
  covers the command, and the next address gets it again (`connectors/ssh.rs:240`
  against 236).
* **`group_vars/all` without `all`** (`AllVarsReachAll`, `Requests.cfg`) reaches
  nothing (`domain/static_inventory.rs:117`). **A dropped group had variables**
  (`DroppedGroupsHadNothing`, `application/output.rs:267`).
* **Two sources of one URL** (`PulledIsTheOrigins`, `Federation.cfg` with
  `Pullers = {src1, src2}`, `Kinds = {"remote"}`, one write, and no restart, time or failure)
  share the memo, and one's late answer is what the other's 304 brings back
  (`connectors/remote.rs:182`).
* **The supervisor returns undrained** (`ReturnsDrained`, `TaskGenerations.cfg` with
  `StopsInReload = TRUE`). With a reload and the shutdown signal both pending,
  `select!` may take the reload; at the head of the loop the signal is seen and the
  supervisor returns, dropping the handles in `draining` (`scheduler/mod.rs:379`
  against its comment at 365). The run sets `StopsInReload` FALSE, keeping the
  signal out of exactly that window, to check everything else.
* **The virtualenv's marker** (`SuccessMeansReady`, `ProjectPull.cfg` with
  `Requirements <- Reverted`, `Pullers = {scheduled}`, `Requests = {}`, one failure). A failed install leaves the
  marker of the install before; if the requirements then return to those, the pull
  believes they are installed (`adapters/out/python.rs:78` against 76). The passing
  run uses requirements that never return to an earlier value.
* **A partial entry comes back complete** (`RestartsDoNotLaunder`, `Snapshots.cfg`
  without the view, which hides `earned`; no failures, `MaxTime = 0`). A scoped sync on a
  cold cache inserts a complete entry and marks it partial a moment later; a
  snapshot between the two and a crash after it launder it
  (`adapters/out/cache/persistence.rs:90` against 43).

### 5.2 Smaller ones

| Property | Words | What happens |
|---|---|---|
| `CoalescedStartedAfterRequest` (SourceSync) | `sync.rs:288` "a sync that started after this request began" | the counter is read before the mutex: the sync in progress, begun earlier, moves it. `CoalescedIsCurrent` is what holds |
| `PartialUntilFullSync` (SourceSync) | docs/caching.md: partial until a full sync lands | complete for the moment between the two cache operations |
| `DatasetAgeIsTheOrigins`, `HostAgesAreTheOrigins` (ApplyToCache) | docs/federation.md: ages are the origin's | in merge mode (add `Kind(TRUE, "merge", TRUE)` to `SomeSources`) the merged dataset, and in group syncs its hosts, are dated now; `StatusMayFail = TRUE` adds pulls whose ages could not be read. `AgesAreTrue` is what holds |
| `NoFresherThanUptime` (ApplyToCache, `Uptime` 0, `MaxAge` 2) | `cache_entry.rs`, on an age the clock cannot represent | the fallback for an age the clock cannot represent is now, so the error is the whole age, and that is what exceeds the uptime |
| `PoolConverges` (RefreshLimiter, `FairLimiter`, 3 callers, sizes 1 and 2) | `refresh.rs:120-123` "the pool converges on the declared capacity as traffic arrives" | under steady traffic a released permit goes to the next waiter, is never free when `acquire` settles, and the pool stays over its capacity |
| `OneGatherPerTtl` (OnDemandRefresh) | docs/on-demand-refresh.md: one gather per host per TTL | a gather that failed or missed the host is repeated by each waiting read |
| `OneBudgetPerRead` (OnDemandRefresh) | how long a read may wait | waiting for host locks and permits is not in the budget |
| `LandedIsNoFailure`, `TimeoutIsARow` (OnDemandRefresh, `Others` with `"downstream"`) | `refresh.rs:312-320` | whose row is newest decides, and another refresh of the source may have written it: of other hosts, so that a landed refresh leaves a failure, or of the same ones, so that one that did not land leaves none |
| `FinalSaveSeesNoWriter` (Snapshots, `StopsAtStart` TRUE) | `main.rs` "joins the handles before the final snapshot" | SIGTERM between the start of the supervisor and its registration: its handle is not taken |
| `CountsAsSaved` (Snapshots) | `persistence.rs:192` "exactly what is on disk" | boot has dropped entries that are still in the file |
| `FreshnessSurvives` (Snapshots) | docs/caching.md:173 "(plus the downtime)" | the age at save time is restored, the downtime is not added |
| `NothingIsLeftBroken`, `EveryMoveIsRecorded` (ProjectPull) | comments of `PyVenv::ensure` and `sync_project` | a venv whose interpreter exists and pip does not is never created again; a client that leaves takes the row with it |
| `RemovedLosesItsData`, `AnsweredWithItsSettings`, `OnlyTheUnconfiguredGo` (TaskGenerations) | `application/config.rs`, `sync.rs` | a request that outlives the reload writes an entry back; a new generation's first sync coalesces with the old one's; a prune that read the configuration before a second reload removes the entry of the source that reload added back |
| `SuccessWrote` (Enrichment) | docs/enrichers.md:206 a missing target is a failure | a target evicted while the script runs: the run is a success that wrote nothing |
| `SessionsGrantWhatKeysDo` (Access) | `http/session.rs`, on revoking keys | a key that stays under its name and loses a source leaves its open sessions as they were |
| `EveryGatherHasARoot` (Access, `Directories <- CyclicToo`) | `config.rs:829` refuses a source that takes its hosts from itself | two that take them from each other are accepted, and each waits for the other |

Seen while modelling, without a property: `exclude_fields` with a name that is both
a dotted key and a nested path leaves the nested value; a name that itself contains `*`
may be missed by a pattern with one, because a literal match is tried before the star
(pattern `*` and name `*a`, `host_filter.rs:210` against its comment at 201); `concurrency: 0` of an SSH
source is accepted and its gathers end by the source's timeout only; a host whose
task panics is neither in the answer nor named as unreachable; a group nested
below itself in an inventory loses the inner hosts; a field of one credential that
has the name another's prefixed field would have is delivered as it is.

## 6. What is not modelled

* **Text**: HTTP shapes, HTML, OpenAPI, the YAML writer, the parsers of INI, YAML and
  inventory JSON. Models begin where text has been parsed.
* **External crates**: git, the tables of keys and sessions, login throttling, secrets
  backends, the file handling of the configuration API, the SSH and LDAP protocols.
  They appear as steps that work, fail half-way or hang.
* **More than one source in SourceSync and OnDemandRefresh**: sources share
  nothing there but the permits, which the limiter has for any callers.
* **Several configuration writes at once**: the configuration routes apply one at a
  time.
* **Scheduling of pushes, cron patterns, jitter**: a tick may come at any time.
* **Caps of the run history** (50 rows, 2000 bytes of error).
* **Power loss.** See Snapshots.

## 7. Plan

Done, in this order because everything else reads what these write: CacheEntry,
ApplyToCache, SourceSync, RefreshLimiter,
OnDemandRefresh, Snapshots, ScheduledTasks, TaskGenerations, ProjectPull; then
DatasetReads and RemotePull, the read side, Enrichment, Gathering, Configuration
and Access, Topology, CredentialDelivery; then the proofs of section 4.

Compositions still to state: OnDemandRefresh over SourceSync in place of the
reduced source lock; Snapshots' runs as an abstraction of SourceSync; a view's read
with refresh over OnDemandRefresh.

What is left to prove: the invariants of Requests, once its walks are functions.
