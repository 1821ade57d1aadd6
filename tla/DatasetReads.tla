---------------------------- MODULE DatasetReads ----------------------------
(***************************************************************************)
(* Conditional reads of /sources/{id}/dataset: what the cache holds, the   *)
(* generation every write bumps, and a client that keeps the last response *)
(* with its ETag and revalidates it with If-None-Match.                    *)
(*                                                                         *)
(* A plain read of a source derives its ETag from the bytes it serves.  A  *)
(* filtered read, and every read of a view, takes the entries first and    *)
(* derives the ETag from the generation it reads afterwards, so the two    *)
(* are read at different moments while syncs, evictions and restarts go    *)
(* on.  A scrape of /metrics does the same with the number of a view's     *)
(* hosts, which it remembers under the generation (ViewHostsMemo).         *)
(* Requests do not interact, so one client, of any kind, stands for all of *)
(* them.                                                                   *)
(*                                                                         *)
(* A snapshot of the cache is a function from sources to contents; a body  *)
(* is its restriction to the sources the request reads.                    *)
(***************************************************************************)
EXTENDS Naturals, Sequences, FiniteSets

CONSTANTS
    Sources,      \* the sources of sources.yaml
    Contents,     \* datasets, told apart by their serialized bytes
    NoData,       \* the source has no cache entry
    Source,       \* the source read by the "plain" and "filtered" clients
    Members,      \* the sources a view reads, in declared order
    MaxWrites,    \* writes explored
    MaxRestarts   \* restarts explored

ASSUME ReadsAssumption ==
    /\ NoData \notin Contents
    /\ Source \in Sources
    /\ IsFiniteSet(Sources)
    /\ Members \in Seq(Sources) /\ Members # <<>>
    /\ MaxWrites \in Nat /\ MaxRestarts \in Nat

VARIABLES
    cache,        \* MemoryCache.store
    generation,   \* MemoryCache.generation
    unbumped,     \* writes that are in the store and not yet in `generation`
    saved,        \* the snapshot file
    writes, restarts,
    kind,         \* what is read: "plain", "filtered", "view", or a "scrape"
    pc,           \* where its request is
    validator,    \* the If-None-Match it sent
    got,          \* the entries the handler has read so far
    seen,         \* bodies that were current at some moment of this request
    overlapped,   \* a write landed after the first entry was read
    copy          \* the client's stored response

origin == <<cache, generation, unbumped, saved, writes, restarts>>
reader == <<kind, pc, validator, got, seen, overlapped, copy>>
readsVars == <<origin, reader>>

Readers == {"plain", "filtered", "view", "scrape"}
NoCopy == NoData                  \* no stored response, no If-None-Match

\* The sources a request reads, in the order the handler reads them.
Reads(k) == IF k \in {"view", "scrape"} THEN Members ELSE <<Source>>

\* What a request of kind k would answer if it could read everything at once.
BodyIn(c, k) == [i \in DOMAIN Reads(k) |-> c[Reads(k)[i]]]

Entries(c) == {s \in Sources : c[s] # NoData}

ReadsTypeOK ==
    /\ cache \in [Sources -> Contents \cup {NoData}]
    /\ saved \in [Sources -> Contents \cup {NoData}]
    /\ generation \in Nat /\ unbumped \in 0..MaxWrites
    /\ writes \in 0..MaxWrites /\ restarts \in 0..MaxRestarts
    /\ pc \in {"idle", "refreshing", "refreshed", "reading", "answering"}
    /\ Len(got) <= Len(Reads(kind))
    /\ (pc = "answering") => Len(got) = Len(Reads(kind))

OriginInit ==
    /\ cache \in [Sources -> Contents \cup {NoData}]
    /\ saved = cache
    /\ generation = Cardinality(Entries(cache))
    /\ unbumped = 0 /\ writes = 0 /\ restarts = 0

ReaderInit ==
    /\ pc = "idle" /\ validator = NoCopy /\ got = <<>>
    /\ seen = {} /\ overlapped = FALSE /\ copy = NoCopy

ReadsInit == OriginInit /\ ReaderInit /\ kind \in Readers

-----------------------------------------------------------------------------
(* The cache under the request. *)

\* Another writer puts c in s's place, or drops the entry: `set`,
\* `merge_or_insert` and `remove` change the store and bump the generation
\* as a second step.  `update` is this step and the next with nothing between.
Put(s, c) ==
    /\ writes < MaxWrites
    /\ (c = NoData) => (cache[s] # NoData)
    /\ cache' = [cache EXCEPT ![s] = c]
    /\ writes' = writes + 1

Write(s, c) ==
    /\ Put(s, c)
    /\ unbumped' = unbumped + 1
    /\ seen' = IF pc = "idle" THEN seen ELSE seen \cup {BodyIn(cache', kind)}
    /\ overlapped' = (overlapped \/ got # <<>>)
    /\ UNCHANGED <<generation, saved, restarts, kind, pc, validator, got, copy>>

\* Faulty variant: the write is never counted.
Bump_Uncounted ==
    /\ unbumped > 0
    /\ unbumped' = unbumped - 1
    /\ UNCHANGED <<cache, generation, saved, writes, restarts, reader>>

Bump ==
    /\ unbumped > 0
    /\ unbumped' = unbumped - 1
    /\ generation' = generation + 1
    /\ UNCHANGED <<cache, saved, writes, restarts, reader>>

\* The snapshot task writes the file.
Save ==
    /\ saved # cache
    /\ saved' = cache
    /\ UNCHANGED <<cache, generation, unbumped, writes, restarts, reader>>

\* Process death and boot: the entries of the file are set one by one into
\* an empty cache whose generation starts from zero.  Clients keep what they
\* have, the memo of the scrapes is gone; a request in flight gets no answer.
Reboot ==
    /\ restarts < MaxRestarts
    /\ restarts' = restarts + 1
    /\ cache' = saved
    /\ generation' = Cardinality(Entries(saved))
    /\ unbumped' = 0
    /\ UNCHANGED <<saved, writes>>

RequestLost ==
    /\ pc' = "idle" /\ validator' = NoCopy /\ got' = <<>>
    /\ seen' = {} /\ overlapped' = FALSE
    /\ UNCHANGED kind

Restart ==
    /\ Reboot
    /\ RequestLost
    /\ copy' = (IF kind = "scrape" THEN NoCopy ELSE copy)

-----------------------------------------------------------------------------
(* The request. *)

\* The client asks, with the ETag of its copy if it has one, and with or
\* without refresh=true; or a scrape comes in.
Ask ==
    /\ kind \in Readers
    /\ pc = "idle"
    /\ pc' \in (IF kind = "scrape" THEN {"reading"} ELSE {"refreshing", "reading"})
    /\ validator' = (IF copy = NoCopy THEN NoCopy ELSE copy.etag)
    /\ seen' = {BodyIn(cache, kind)}
    /\ UNCHANGED <<origin, kind, got, overlapped, copy>>

\* refresh_before_reading: a gather of this request lands in the cache
\* before any entry is read or any ETag is computed ...
RefreshPuts ==
    /\ pc = "refreshing"
    /\ \E i \in DOMAIN Reads(kind), c \in Contents : Put(Reads(kind)[i], c)
    /\ pc' = "refreshed"
    /\ seen' = {BodyIn(cache', kind)}
    /\ UNCHANGED <<generation, unbumped, saved, restarts, kind, validator, got, overlapped, copy>>

RefreshBumps ==
    /\ pc = "refreshed"
    /\ generation' = generation + 1
    /\ pc' = "reading"
    /\ UNCHANGED <<cache, unbumped, saved, writes, restarts,
                   kind, validator, got, seen, overlapped, copy>>

\* ... or it fails, or finds everything fresh, and the read answers from the
\* cache all the same.
RefreshSkipped ==
    /\ pc = "refreshing"
    /\ pc' = "reading"
    /\ UNCHANGED <<origin, kind, validator, got, seen, overlapped, copy>>

\* One cache.get.  A source that holds no entry answers 404; a view serves
\* what its other members have.
GetEntry ==
    /\ pc = "reading"
    /\ LET s == Reads(kind)[Len(got) + 1]
           next == Append(got, cache[s])
           missing == kind \in {"plain", "filtered"} /\ cache[s] = NoData
       IN IF missing
          THEN RequestLost /\ UNCHANGED copy
          ELSE /\ got' = next
               /\ pc' = (IF Len(next) = Len(Reads(kind)) THEN "answering" ELSE "reading")
               /\ UNCHANGED <<kind, validator, seen, overlapped, copy>>
    /\ UNCHANGED origin

\* The ETag of the response: a hash of the served bytes on the plain path,
\* otherwise the query and the generation as it is now.
ETag == IF kind = "plain" THEN <<"bytes", got>> ELSE <<"generation", generation>>

\* What the client holds after the response: a 304 (for a scrape, a memo of
\* this generation) confirms the copy it has, a 200 replaces it.
Answered == [body |-> got, etag |-> ETag, life |-> restarts, torn |-> overlapped]

Is304 == validator # NoCopy /\ validator = ETag

Answer ==
    /\ pc = "answering"
    /\ copy' = (IF Is304 THEN copy ELSE Answered)
    /\ pc' = "idle" /\ validator' = NoCopy /\ got' = <<>>
    /\ seen' = {} /\ overlapped' = FALSE
    /\ UNCHANGED <<origin, kind>>

ReaderNext == Ask \/ RefreshPuts \/ RefreshBumps \/ RefreshSkipped \/ GetEntry \/ Answer

OriginNext ==
    \/ \E s \in Sources, c \in Contents \cup {NoData} : Write(s, c)
    \/ Bump
    \/ Save

ReadsNext == OriginNext \/ Restart \/ ReaderNext

ReadsSpec == ReadsInit /\ [][ReadsNext]_readsVars

-----------------------------------------------------------------------------
(* Properties. *)

\* What a plain read leaves the client with, 200 or 304, across writes,
\* refreshes and restarts, was in the cache at some moment of that request,
\* and after the request's own refresh if one landed.
PlainIsCurrent ==
    [][kind = "plain" /\ pc = "answering" /\ pc' = "idle" /\ restarts' = restarts
        => copy'.body \in seen]_readsVars

\* A generation-based validator is never matched by a changed body, provided
\* no write landed between the reads and the generation of the response that
\* minted it, the process has not restarted since, and no write is waiting
\* for its bump.
UntornValidatorsHold ==
    [][(/\ kind # "plain" /\ pc = "answering" /\ pc' = "idle" /\ restarts' = restarts
        /\ Is304 /\ ~copy.torn /\ copy.life = restarts /\ unbumped = 0)
        => copy.body = BodyIn(cache, kind)]_readsVars

\* A client that revalidates is never told that what it holds is current when
\* it is not, but for the cases NeverStale shows.
ReadsAreCurrent == PlainIsCurrent /\ UntornValidatorsHold

\* What the comment on the validator promises: a 304 never confirms a body that
\* nothing held since the request came in.  It fails for a torn response and
\* across a restart: see section 5 of the README.
NeverStale ==
    [][(/\ kind # "plain" /\ pc = "answering" /\ pc' = "idle" /\ restarts' = restarts
        /\ Is304 /\ unbumped = 0)
        => copy.body \in seen]_readsVars
=============================================================================
