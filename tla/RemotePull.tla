----------------------------- MODULE RemotePull -----------------------------
(***************************************************************************)
(* Federation: a central instance whose source is Source of the origin     *)
(* that DatasetReads models.  A pull (RemoteConnector::execute) is a       *)
(* sequence of separate requests, each one answered by whatever the origin *)
(* is at that moment:                                                      *)
(*                                                                         *)
(*   an optional POST /sync that makes the origin gather first,            *)
(*   GET /dataset, conditional on the ETag remembered for that URL when    *)
(*     the pull is full and unconditional when it is scoped to a host,     *)
(*   GET /status for the ages, GET /scope for the advertised ownership,    *)
(*                                                                         *)
(* after which the sync lands the data in the central's cache.  The origin *)
(* goes on gathering, evicting and restarting between them, and the        *)
(* central may restart, which forgets the remembered response and keeps    *)
(* what its snapshots kept.                                                *)
(*                                                                         *)
(* Pullers are the central's sources with this URL; the per-source sync    *)
(* lock admits one pull of each at a time (module SourceSync).  They share *)
(* the connector, and so its memo.                                         *)
(***************************************************************************)
EXTENDS DatasetReads, Functions

CONSTANTS
    Kinds,         \* which readers are explored: some of Readers, and "remote"
    Pullers,       \* central sources that name this origin source
    Hosts,         \* its hosts: a content is a function from Hosts
    MaxTime,       \* seconds explored
    MaxFailures    \* requests that fail

ASSUME PullAssumption ==
    /\ Kinds \subseteq Readers \cup {"remote"}
    /\ \A c \in Contents : DOMAIN c = Hosts /\ \A h \in Hosts : Restrict(c, {h}) # NoData
    /\ MaxTime \in Nat /\ MaxFailures \in Nat

VARIABLES
    now,           \* the clock both instances share
    born,          \* when the origin's entry was gathered
    savedBorn,     \* the same in its snapshot file
    memo,          \* RemoteConnector.memo at this URL
    central,       \* each puller's cache entry
    scopes,        \* pullers whose advertised scope is known
    pulls,         \* each puller's pull in flight
    failures

centralVars == <<memo, central, scopes, pulls, failures>>
pullVars == <<readsVars, now, born, savedBorn, centralVars>>

Unknown == MaxTime + 1            \* no answer to /status
Full == "full"                    \* the scope of a pull; otherwise a host
NoEntry == [content |-> NoData, dated |-> 0]
Idle == [at |-> "idle"]
Stages == {"idle", "sync", "data", "asked", "reply", "status", "scope", "land"}

PullTypeOK ==
    /\ ReadsTypeOK
    /\ now \in 0..MaxTime /\ born \in 0..now /\ savedBorn \in 0..now
    /\ failures \in 0..MaxFailures /\ scopes \subseteq Pullers
    /\ memo \in Contents \cup {NoData}
    /\ \A p \in Pullers :
          /\ pulls[p].at \in Stages
          /\ central[p].content = NoData \/ DOMAIN central[p].content \subseteq Hosts
          /\ central[p].dated \in 0..now

PullInit ==
    /\ OriginInit /\ ReaderInit
    /\ kind \in Kinds
    /\ now = 0 /\ born = 0 /\ savedBorn = 0
    /\ memo = NoData /\ scopes = {} /\ failures = 0
    /\ central = [p \in Pullers |-> NoEntry]
    /\ pulls = [p \in Pullers |-> Idle]

InFlight == {p \in Pullers : pulls[p] # Idle}

\* History: the pulls of Q have now also seen the origin hold c, and those
\* between their data and its age have an age that may be of other data.
Witness(Q, c) ==
    [p \in Pullers |->
        IF p \in Q
        THEN [pulls[p] EXCEPT !.seen = @ \cup {c},
                              !.moved = (@ \/ pulls[p].at \in {"reply", "status"})]
        ELSE pulls[p]]

-----------------------------------------------------------------------------
(* The origin, as DatasetReads has it, with the time of its data. *)

OriginWrites(s, c) ==
    /\ Write(s, c)
    /\ IF s = Source /\ kind = "remote"
       THEN born' = now /\ pulls' = Witness(InFlight, c)
       ELSE UNCHANGED <<born, pulls>>
    /\ UNCHANGED <<now, savedBorn, memo, central, scopes, failures>>

OriginSaves == Save /\ savedBorn' = born /\ UNCHANGED <<now, born, centralVars>>

OriginRestarts ==
    /\ Restart
    /\ born' = savedBorn
    /\ pulls' = Witness(InFlight, saved[Source])
    /\ UNCHANGED <<now, savedBorn, memo, central, scopes, failures>>

Tick ==
    /\ kind = "remote" /\ now < MaxTime
    /\ now' = now + 1
    /\ UNCHANGED <<readsVars, born, savedBorn, centralVars>>

-----------------------------------------------------------------------------
(* A pull. *)

\* The scheduler or a request starts a sync of p, full or of one host; with
\* refresh_origin and hops left to spend it begins with the origin's sync.
Begin(p, scope, stage) ==
    /\ kind = "remote"
    /\ pulls[p] = Idle
    /\ pulls' = [pulls EXCEPT ![p] =
          [at |-> stage, scope |-> scope, validator |-> NoData, body |-> NoData, age |-> Unknown,
           seen |-> {cache[Source]}, gathered |-> 0, moved |-> FALSE, aged |-> 0]]
    /\ UNCHANGED <<readsVars, now, born, savedBorn, memo, central, scopes, failures>>

\* p's pull moves on.
Goes(p, pull) ==
    /\ pulls' = [pulls EXCEPT ![p] = pull]
    /\ UNCHANGED <<readsVars, now, born, savedBorn, central>>

Stops(p) ==
    /\ pulls' = [pulls EXCEPT ![p] = Idle]
    /\ UNCHANGED <<readsVars, now, born, savedBorn, memo, central, scopes>>

\* POST /sync: the origin gathers, and its success lets the pull go on.
OriginGathers(p, c) ==
    /\ pulls[p].at = "sync"
    /\ Put(Source, c)
    /\ pulls' = [Witness(InFlight, c) EXCEPT ![p].at = "data", ![p].seen = {c}]
    /\ born' = now
    /\ UNCHANGED <<generation, unbumped, saved, restarts, reader,
                   now, savedBorn, memo, central, scopes, failures>>

\* A refusal, or no answer, to a request that must succeed ends the pull.
OriginRefuses(p) == pulls[p].at = "sync" /\ Stops(p) /\ UNCHANGED failures

Fails(p) ==
    /\ pulls[p].at \in {"asked", "reply"}
    /\ failures < MaxFailures
    /\ failures' = failures + 1
    /\ Stops(p)

\* The dataset request leaves, a full pull's with the memo's ETag.
Asks(p) ==
    /\ pulls[p].at = "data"
    /\ Goes(p, [pulls[p] EXCEPT !.at = "asked",
                                !.validator = IF pulls[p].scope = Full THEN memo ELSE NoData])
    /\ UNCHANGED <<memo, scopes, failures>>

\* The origin answers as the plain read of its entry does, 304 (no body) to
\* the ETag of what it holds; to a host's pull, with that host only.
Asked(p, c) == IF pulls[p].scope = Full THEN c ELSE Restrict(c, {pulls[p].scope})

OriginAnswers(p) ==
    /\ pulls[p].at = "asked" /\ cache[Source] # NoData
    /\ Goes(p, [pulls[p] EXCEPT !.at = "reply",
                                !.body = IF pulls[p].validator = cache[Source] THEN NoData
                                         ELSE Asked(p, cache[Source]),
                                !.gathered = born])
    /\ UNCHANGED <<memo, scopes, failures>>

Origin404(p) ==
    /\ pulls[p].at = "asked" /\ cache[Source] = NoData
    /\ Stops(p)
    /\ UNCHANGED failures

\* Faulty variant: a 304 keeps what the cache holds, patched since or not.
Reply304_FromCache(p) ==
    /\ pulls[p].at = "reply" /\ pulls[p].body = NoData
    /\ Goes(p, [pulls[p] EXCEPT !.at = "status",
                                !.body = IF central[p] = NoEntry THEN memo
                                         ELSE central[p].content])
    /\ UNCHANGED <<memo, scopes, failures>>

\* Faulty variant: a 304 is an answer without data, so it fails the sync.
Reply304_Fails(p) ==
    /\ pulls[p].at = "reply" /\ pulls[p].body = NoData
    /\ Stops(p)
    /\ UNCHANGED failures

\* A 304 takes the dataset remembered NOW; a 200 to a full pull is what the
\* next one revalidates.
Reply304(p) ==
    /\ pulls[p].at = "reply" /\ pulls[p].body = NoData
    /\ Goes(p, [pulls[p] EXCEPT !.at = "status", !.body = memo])
    /\ UNCHANGED <<memo, scopes, failures>>

Reply200(p) ==
    /\ pulls[p].at = "reply" /\ pulls[p].body # NoData
    /\ memo' = (IF pulls[p].scope = Full THEN pulls[p].body ELSE memo)
    /\ Goes(p, [pulls[p] EXCEPT !.at = "status"])
    /\ UNCHANGED <<scopes, failures>>

\* GET /status: the age at the origin, or none: the data then counts as born
\* when it lands.
StatusAnswers(p) ==
    /\ pulls[p].at = "status"
    /\ Goes(p, [pulls[p] EXCEPT !.at = "scope",
                                !.age = IF cache[Source] = NoData THEN Unknown ELSE now - born,
                                !.aged = now])
    /\ UNCHANGED <<memo, scopes, failures>>

StatusFails(p) ==
    /\ pulls[p].at = "status"
    /\ failures < MaxFailures
    /\ failures' = failures + 1
    /\ Goes(p, [pulls[p] EXCEPT !.at = "scope"])
    /\ UNCHANGED <<memo, scopes>>

\* GET /scope: only an answered, declared scope reaches the registry; every
\* failure leaves the last known one.
ScopeAnswers(p) ==
    /\ pulls[p].at = "scope"
    /\ scopes' \in {scopes, scopes \cup {p}}
    /\ Goes(p, [pulls[p] EXCEPT !.at = "land"])
    /\ UNCHANGED <<memo, failures>>

\* A host's vars replaced, the others' kept.
Patched(old, new) ==
    [h \in DOMAIN old \cup DOMAIN new |-> IF h \in DOMAIN new THEN new[h] ELSE old[h]]

\* The sync lands: a full pull replaces the entry, a host's patches it, or
\* makes one, and the age counts back from this moment.
Landed(p) ==
    LET pull == pulls[p]
        born0 == IF pull.age = Unknown THEN now ELSE now - pull.age
    IN IF pull.scope = Full \/ central[p] = NoEntry
       THEN [content |-> pull.body, dated |-> born0]
       ELSE [central[p] EXCEPT !.content = Patched(@, pull.body)]

Land(p) ==
    /\ pulls[p].at = "land"
    /\ central' = [central EXCEPT ![p] = Landed(p)]
    /\ pulls' = [pulls EXCEPT ![p] = Idle]
    /\ UNCHANGED <<readsVars, now, born, savedBorn, memo, scopes, failures>>

\* The central restarts: the memo and the pulls are gone, the entries are
\* what the last snapshot has.
CentralRestarts ==
    /\ kind = "remote" /\ failures < MaxFailures
    /\ failures' = failures + 1
    /\ memo' = NoData /\ scopes' = {}
    /\ pulls' = [p \in Pullers |-> Idle]
    /\ \E kept \in SUBSET Pullers :
          central' = [p \in Pullers |-> IF p \in kept THEN central[p] ELSE NoEntry]
    /\ UNCHANGED <<readsVars, now, born, savedBorn>>

Moves(p) ==
    \/ Asks(p) \/ OriginRefuses(p) \/ OriginAnswers(p) \/ Origin404(p)
    \/ Reply304(p) \/ Reply200(p) \/ StatusAnswers(p) \/ ScopeAnswers(p) \/ Land(p)

PullNext ==
    \/ \E s \in Sources, c \in Contents \cup {NoData} : OriginWrites(s, c)
    \/ Bump /\ UNCHANGED <<now, born, savedBorn, centralVars>>
    \/ ReaderNext /\ UNCHANGED <<now, born, savedBorn, centralVars>>
    \/ OriginSaves \/ OriginRestarts \/ Tick \/ CentralRestarts
    \/ \E p \in Pullers :
          \/ \E scope \in {Full} \cup Hosts, stage \in {"sync", "data"} : Begin(p, scope, stage)
          \/ \E c \in Contents : OriginGathers(p, c)
          \/ Fails(p) \/ StatusFails(p)
          \/ Moves(p)

PullSpec == PullInit /\ [][PullNext]_pullVars

\* A request is answered or times out, and the sync task of a source gets its
\* turn at the source's lock between the syncs that others ask for.
PullFairness ==
    \A p \in Pullers : WF_pullVars(Moves(p)) /\ SF_pullVars(Begin(p, Full, "data"))

PullFairSpec == PullSpec /\ PullFairness

-----------------------------------------------------------------------------
(* Properties. *)

\* What lands at the central is what the origin held at some moment of that
\* pull, and after the gather the pull asked for if it asked for one: a 304
\* never brings back a dataset the origin had replaced before the pull began.
PulledIsTheOrigins ==
    [][\A p \in Pullers : Land(p) =>
          LET held == pulls[p].seen \ {NoData}
          IN IF pulls[p].scope = Full
             THEN central'[p].content \in held
             ELSE \E c \in held : central'[p].content[pulls[p].scope] = c[pulls[p].scope]]_pullVars

\* The central never takes data for older than it is, nor for younger by more
\* than the time between the origin's status answer and the landing, unless
\* the status was not answered or the origin changed between data and status.
AgesAreHonest ==
    [][\A p \in Pullers :
          Land(p) /\ pulls[p].scope = Full /\ pulls[p].age # Unknown /\ ~pulls[p].moved
          => /\ pulls[p].gathered <= central'[p].dated
             /\ central'[p].dated <= pulls[p].gathered + (now - pulls[p].aged)]_pullVars

\* The central has the origin's data, with the origin's ages.
PullsAreHonest == []PullTypeOK /\ PulledIsTheOrigins /\ AgesAreHonest

\* Once the origin has stopped changing, every central source that pulls it
\* ends up with what it holds and stays there.
CentralCatchesUp ==
    kind = "remote" =>
        <>[](cache[Source] # NoData => \A p \in Pullers : central[p].content = cache[Source])
=============================================================================
