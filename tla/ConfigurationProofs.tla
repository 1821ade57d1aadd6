----------------------- MODULE ConfigurationProofs -----------------------
(***************************************************************************)
(* Proofs about the configuration in force and the projects it brings in.  *)
(* Of Configuration and Access: a directory that loads can be run, and a   *)
(* process that adopts directories one after another, with any number of   *)
(* logins and sessions, keeps to the one in force.  Of ProjectPull: the    *)
(* checkout of a project is where its history says, and one that is        *)
(* reported ready is ready.                                                *)
(***************************************************************************)
EXTENDS Access, ProjectPull, SequenceTheorems, TLAPS

-----------------------------------------------------------------------------
(* What the validation promises.                                           *)

\* The body found under an id is that of an item of its section.
LEMMA ItemFound ==
    ASSUME NEW dir, NEW section, NEW id \in Ids(dir, section)
    PROVE  \E i \in DOMAIN dir.items :
              /\ dir.items[i].section = section
              /\ Items(dir, section)[id] = dir.items[i].body
  <1> DEFINE of == {i \in DOMAIN dir.items : dir.items[i].section = section}
             at == CHOOSE i \in of : dir.items[i].name = id
  <1>1. \E i \in of : dir.items[i].name = id
    BY DEF Ids, Items
  <1>2. at \in of
    BY <1>1
  <1>3. Items(dir, section)[id] = dir.items[at].body
    BY DEF Ids, Items
  <1>4. QED
    BY <1>2, <1>3

\* What the fields of a connector and of an endpoint can be.
LEMMA BodiesAreShaped ==
    ASSUME NEW dir, WellFormed(dir), Shaped(dir)
    PROVE  /\ \A id \in Ids(dir, "connectors") : LET c == Items(dir, "connectors")[id] IN
                 c.kind \in {"script", "ssh"} /\ c.script \in {None, "blank", "text"}
           /\ \A id \in Ids(dir, "endpoints") : LET e == Items(dir, "endpoints")[id] IN
                 e.output \in BOOLEAN /\ e.script \in BOOLEAN
  <1>1. ASSUME NEW id \in Ids(dir, "connectors")
        PROVE  LET c == Items(dir, "connectors")[id]
               IN  c.kind \in {"script", "ssh"} /\ c.script \in {None, "blank", "text"}
    BY ItemFound DEF WellFormed, Shaped
  <1>2. ASSUME NEW id \in Ids(dir, "endpoints")
        PROVE  LET e == Items(dir, "endpoints")[id]
               IN  e.output \in BOOLEAN /\ e.script \in BOOLEAN
    <2>1. PICK i \in DOMAIN dir.items : /\ dir.items[i].section = "endpoints"
                                        /\ Items(dir, "endpoints")[id] = dir.items[i].body
      BY <1>2, ItemFound
    <2>2. {dir.items[i].body.output, dir.items[i].body.script} \subseteq BOOLEAN
      BY <2>1 DEF WellFormed, Shaped
    <2>3. QED
      BY <2>1, <2>2
  <1>3. QED
    BY <1>1, <1>2

\* What the references of a loaded directory are.
LEMMA ReferencesHold ==
    ASSUME NEW dir, Loads(dir)
    PROVE  /\ ServerSound(dir)
           /\ \A id \in Ids(dir, "credentials") :
                 CredentialSound(dir, Items(dir, "credentials")[id])
           /\ \A id \in Ids(dir, "api_keys") : KeySound(dir, Items(dir, "api_keys")[id])
           /\ \A id \in Ids(dir, "enrichers") : EnricherSound(dir, Items(dir, "enrichers")[id])
           /\ \A id \in Ids(dir, "endpoints") : EndpointSound(dir, Items(dir, "endpoints")[id])
           /\ \A id \in Ids(dir, "views") : ViewSound(dir, id, Items(dir, "views")[id])
           /\ \A id \in Ids(dir, "sources") : SourceSound(dir, id, Items(dir, "sources")[id])
           /\ \A id \in Ids(dir, "connectors") :
                 IsProject(dir, Items(dir, "connectors")[id].project)
           /\ \A id \in Ids(dir, "projects") : ProjectSound(dir, Items(dir, "projects")[id])
  BY DEF Loads, References

\* A credential that someone may name can be read: its vault is there.
LEMMA LoginsCanBeRead ==
    ASSUME NEW dir, Loads(dir), NEW id, IsLogin(dir, id)
    PROVE  CanRead(dir, id)
  <1>1. id \in Ids(dir, "credentials") /\ ~IsVault(dir, id)
    BY DEF IsLogin
  <1>2. CredentialSound(dir, Items(dir, "credentials")[id])
    BY <1>1, ReferencesHold
  <1>3. QED
    BY <1>1, <1>2, ConfigurationAssumption DEF CanRead, CredentialSound

\* Everything a sync of a source looks up is there.
LEMMA SourcesHaveTheirInputs ==
    ASSUME NEW dir, Loads(dir), Shaped(dir), NEW id \in Ids(dir, "sources")
    PROVE  SyncHasItsInputs(dir, Items(dir, "sources")[id])
  <1> DEFINE s == Items(dir, "sources")[id]
             c == Items(dir, "connectors")[s.connector]
  <1>1. Resolves(dir, s) /\ SourceSound(dir, id, s)
    BY ReferencesHold DEF Loads
  <1>2. CASE s.connector = "remote"
    BY <1>1, <1>2 DEF Resolves, SyncHasItsInputs
  <1>3. CASE s.connector = "static_inventory"
    BY <1>1, <1>3, ConfigurationAssumption DEF Resolves, SyncHasItsInputs, SourceSound, IsProject
  <1>4. CASE s.connector \notin {"remote", "static_inventory"}
    <2>1. s.connector \in Ids(dir, "connectors")
      BY <1>1, <1>4 DEF Resolves
    <2>2. /\ ConnectorSound(s.connector, c) /\ IsProject(dir, c.project)
          /\ c.kind \in {"script", "ssh"} /\ c.script \in {None, "blank", "text"}
      BY <2>1, ReferencesHold, BodiesAreShaped DEF Loads
    <2>3. s.hosts_from # None => s.hosts_from \in Ids(dir, "sources")
      BY <1>1 DEF SourceSound, IsSource
    <2> HIDE DEF s, c
    <2>4. c.kind = "script" =>
             IF c.project = None THEN c.path # "relative" ELSE c.project \in Ids(dir, "projects")
      BY <2>2 DEF ConnectorSound, IsProject
    <2>5. ASSUME c.kind = "ssh"
          PROVE  /\ LocationOf(c) = "instance" =>
                       IF c.project = None THEN c.path = "absolute"
                       ELSE c.project \in Ids(dir, "projects")
                 /\ LocationOf(c) = "host" => c.path \in {"absolute", "pattern"}
                 /\ LocationOf(c) \notin {"instance", "host"} => c.script = "text"
      <3>1. CASE c.script = None
        BY <2>2, <2>5, <3>1 DEF ConnectorSound, IsProject
      <3>2. CASE c.script # None
        <4>1. LocationOf(c) = None /\ c.script = "text"
          BY <2>2, <2>5, <3>2 DEF ConnectorSound, LocationOf
        <4>2. LocationOf(c) # "instance" /\ LocationOf(c) # "host"
          BY <4>1, ConfigurationAssumption
        <4>3. QED
          BY <4>1, <4>2
      <3>3. QED
        BY <3>1, <3>2
    <2>6. QED
      BY <1>4, <2>1, <2>2, <2>3, <2>4, <2>5 DEF SyncHasItsInputs, s, c
  <1>5. QED
    BY <1>2, <1>3, <1>4

\* A directory that loads can be run: every lookup by name that serving, syncing
\* and enriching do finds an entry of the kind it expects, each credential that
\* is needed can be read, and no id is both a source and a view.
THEOREM LoadedDirectoriesRun ==
    ASSUME NEW dir, Shaped(dir), Loads(dir)
    PROVE  Runs(dir) /\ GrantsExist(dir)
  <1>1. \A i, j \in DOMAIN dir.items :
           dir.items[i].section = dir.items[j].section /\ dir.items[i].name = dir.items[j].name
              => i = j
    BY DEF Loads, WellFormed
  <1>2. Ids(dir, "sources") \cap Ids(dir, "views") = {}
    BY ReferencesHold DEF ViewSound
  <1>3. \A id \in Needed(dir) : CanRead(dir, id)
    <2>1. \A id \in Needed(dir) : IsLogin(dir, id)
      <3>1. \A id \in Ids(dir, "sources") : \A c \in Items(dir, "sources")[id].credentials :
               IsLogin(dir, c)
        BY ReferencesHold DEF SourceSound
      <3>2. \A id \in Ids(dir, "projects") : \A c \in Items(dir, "projects")[id].credentials :
               IsLogin(dir, c)
        BY ReferencesHold DEF ProjectSound
      <3>3. dir.server.ldap # None => IsLogin(dir, dir.server.ldap.bind)
        BY ReferencesHold DEF ServerSound, LdapSound
      <3> DEFINE ofSources == UNION {Items(dir, "sources")[id].credentials :
                                        id \in Ids(dir, "sources")}
                 ofProjects == UNION {Items(dir, "projects")[id].credentials :
                                         id \in Ids(dir, "projects")}
      <3>4. \A c \in ofSources : IsLogin(dir, c)
        BY <3>1
      <3>5. \A c \in ofProjects : IsLogin(dir, c)
        BY <3>2
      <3>6. Needed(dir) = ofSources \cup ofProjects
                             \cup (IF dir.server.ldap = None THEN {} ELSE {dir.server.ldap.bind})
        BY DEF Needed
      <3> HIDE DEF ofSources, ofProjects
      <3>7. QED
        BY <3>3, <3>4, <3>5, <3>6
    <2>2. QED
      BY <2>1, LoginsCanBeRead
  <1>4. \A id \in Ids(dir, "enrichers") :
           {Items(dir, "enrichers")[id].target, Items(dir, "enrichers")[id].source} \ {None}
              \subseteq Ids(dir, "sources")
    BY ReferencesHold DEF EnricherSound, IsSource
  <1>5. \A id \in Ids(dir, "endpoints") :
           LET e == Items(dir, "endpoints")[id]
           IN  /\ e.sources \cup ({e.limit} \ {None}) \subseteq Ids(dir, "sources")
               /\ (e.output /\ ~e.script) \/ (e.script /\ ~e.output)
    <2> TAKE id \in Ids(dir, "endpoints")
    <2> DEFINE e == Items(dir, "endpoints")[id]
    <2>1. EndpointSound(dir, e)
      BY ReferencesHold
    <2>2. e.sources \cup ({e.limit} \ {None}) \subseteq Ids(dir, "sources")
      BY <2>1 DEF EndpointSound, IsSource
    <2>3. e.output \in BOOLEAN /\ e.script \in BOOLEAN /\ e.output # e.script
      BY <2>1, BodiesAreShaped DEF EndpointSound, Loads
    <2>4. (e.output /\ ~e.script) \/ (e.script /\ ~e.output)
      BY <2>3
    <2>5. QED
      BY <2>2, <2>4
  <1>6. \A id \in Ids(dir, "views") : \A i \in DOMAIN Items(dir, "views")[id] :
           {Items(dir, "views")[id][i].source, Items(dir, "views")[id][i].owner}
              \subseteq Ids(dir, "sources")
    BY ReferencesHold DEF ViewSound, IsSource
  <1>7. Runs(dir)
    BY <1>1, <1>2, <1>3, <1>4, <1>5, <1>6, SourcesHaveTheirInputs DEF Runs
  <1>8. GrantsExist(dir)
    BY ReferencesHold DEF GrantsExist, KeySound, ServerSound, LdapSound
  <1>9. QED
    BY <1>7, <1>8

-----------------------------------------------------------------------------
(* The invariant.                                                          *)

\* What is left of a reload whose next step is the k-th.
Remaining(k) == SubSeq(ApplyOrder, k, 7)

\* A login, and so a session, is a record.
IsRecord(l) ==
    l = [method |-> l.method, right |-> l.right, grants |-> l.grants, overlaps |-> l.overlaps]

\* A login or a session that no reload overlapped, judged by keys and rules.
Judged(l, ids, rules) ==
    \/ l.overlaps
    \/ l.method = "key" /\ l.right \in ids
    \/ l.method = "directory" /\ l.right = rules

\* A configuration the process may run with.
Adoptable(dir) == dir \in Loadable /\ LdapRequiresKeys(dir)

\* An API open to all was so from its boot.
OpenFromBoot(dir) == DOMAIN KeysOf(dir) = {} => Ids(built, "api_keys") = {}

WaitingFor(dir) == ChangedKeys(RestartOnly(built), RestartOnly(dir))

\* Between reloads one configuration is in force in every respect.
Settled ==
    /\ Adoptable(adopted) /\ OpenFromBoot(adopted)
    /\ chain = adopted /\ keys = KeysOf(adopted) /\ pending = WaitingFor(adopted)
    /\ \A l \in logins \cup sessions : Judged(l, DOMAIN keys, Ldap(adopted))

\* Before the k-th step of a reload: what is already that of the next
\* configuration, and what still that of the previous one.
AtStep(k) ==
    /\ reload = [next |-> reload.next, previous |-> reload.previous, todo |-> Remaining(k)]
    /\ Adoptable(reload.next) /\ Adoptable(reload.previous)
    /\ OpenFromBoot(reload.next) /\ OpenFromBoot(reload.previous)
    /\ chain = IF k > 1 THEN reload.next ELSE reload.previous
    /\ adopted = IF k > 2 THEN reload.next ELSE reload.previous
    /\ k > 4 => pending = WaitingFor(reload.next)
    /\ keys = KeysOf(IF k > 6 THEN reload.next ELSE reload.previous)
    /\ \A l \in logins : l.overlaps
    /\ \A s \in sessions :
          \/ s.overlaps
          \/ s.method = "key" /\ (k < 7 => s.right \in DOMAIN keys)
          \/ /\ s.method = "directory"
             /\ s.right = Ldap(IF k > 3 THEN reload.next ELSE reload.previous)

IInv ==
    /\ \A l \in logins \cup sessions : IsRecord(l)
    /\ reload # Idle => \E k \in 1 .. 7 : AtStep(k)
    /\ (reload = Idle /\ adopted # None) => Settled

-----------------------------------------------------------------------------
(* The steps of a reload, one after another.                               *)

ApplySteps ==
    {"secrets", "config", "directory sessions", "pending", "generation", "keys", "key sessions"}

\* What is left of a reload, step by step.
LEMMA WhatRemains ==
    ASSUME NEW k \in 1 .. 7
    PROVE  /\ Remaining(k) \in Seq(ApplySteps) /\ Len(Remaining(k)) = 8 - k
           /\ \A i \in 1 .. 8 - k : Remaining(k)[i] = ApplyOrder[k + i - 1]
  <1> DEFINE r == Remaining(k)
  <1>1. ApplyOrder \in Seq(ApplySteps) /\ Len(ApplyOrder) = 7
    BY DEF ApplyOrder, ApplySteps
  <1>2. \A i \in 1 .. 7 : ApplyOrder[i] \in ApplySteps
    BY <1>1, ElementOfSeq
  <1>3. k \in Int /\ k <= 7 /\ 7 \in Int /\ \A i \in k .. 7 : ApplyOrder[i] \in ApplySteps
    BY <1>2
  <1>4. /\ r \in Seq(ApplySteps)
        /\ Len(r) = IF k <= 7 THEN 7 - k + 1 ELSE 0
        /\ \A i \in 1 .. 7 - k + 1 : r[i] = ApplyOrder[k + i - 1]
    BY <1>3, SubSeqProperties DEF Remaining
  <1> HIDE DEF r
  <1>5. /\ r \in Seq(ApplySteps) /\ Len(r) = 8 - k
        /\ \A i \in 1 .. 8 - k : r[i] = ApplyOrder[k + i - 1]
    BY <1>3, <1>4
  <1>6. QED
    BY <1>5 DEF r

LEMMA RemainingSteps ==
    ASSUME NEW k \in 1 .. 7
    PROVE  /\ Remaining(k) # <<>> /\ Head(Remaining(k)) = ApplyOrder[k]
           /\ (Len(Remaining(k)) = 1) <=> (k = 7)
           /\ k < 7 => Tail(Remaining(k)) = Remaining(k + 1)
  <1> DEFINE r == Remaining(k)
             t == Remaining(k + 1)
  <1>1. /\ r \in Seq(ApplySteps) /\ Len(r) = 8 - k
        /\ \A i \in 1 .. 8 - k : r[i] = ApplyOrder[k + i - 1]
    BY WhatRemains
  <1>2. k < 7 => /\ t \in Seq(ApplySteps) /\ Len(t) = 7 - k
                 /\ \A i \in 1 .. 7 - k : t[i] = ApplyOrder[k + i]
    <2> SUFFICES ASSUME k < 7
                 PROVE  /\ t \in Seq(ApplySteps) /\ Len(t) = 7 - k
                        /\ \A i \in 1 .. 7 - k : t[i] = ApplyOrder[k + i]
      OBVIOUS
    <2>1. /\ t \in Seq(ApplySteps) /\ Len(t) = 8 - (k + 1)
          /\ \A i \in 1 .. 8 - (k + 1) : t[i] = ApplyOrder[(k + 1) + i - 1]
      <3>1. k + 1 \in 1 .. 7
        OBVIOUS
      <3>2. QED
        BY <3>1, WhatRemains, Zenon
    <2> HIDE DEF t
    <2>2. QED
      BY <2>1
  <1> HIDE DEF r, t
  <1>3. r # <<>> /\ Head(r) = ApplyOrder[k] /\ (Len(r) = 1 <=> k = 7)
    BY <1>1
  <1>4. ASSUME k < 7
        PROVE  Tail(r) = t
    <2>1. /\ Tail(r) \in Seq(ApplySteps) /\ Len(Tail(r)) = 7 - k
          /\ \A i \in 1 .. 7 - k : Tail(r)[i] = r[i + 1]
      BY <1>1, <1>3
    <2>2. \A i \in 1 .. 7 - k : Tail(r)[i] = t[i]
      BY <1>1, <1>2, <1>4, <2>1
    <2>3. QED
      BY <1>2, <1>4, <2>1, <2>2, SeqEqual
  <1>5. QED
    BY <1>3, <1>4 DEF r, t

LEMMA AllRemains == Remaining(1) = ApplyOrder
  <1> DEFINE r == Remaining(1)
  <1>1. /\ r \in Seq(ApplySteps) /\ Len(r) = 7
        /\ \A i \in 1 .. 7 : r[i] = ApplyOrder[i]
    <2>1. /\ r \in Seq(ApplySteps) /\ Len(r) = 8 - 1
          /\ \A i \in 1 .. 8 - 1 : r[i] = ApplyOrder[1 + i - 1]
      <3>1. 1 \in 1 .. 7
        OBVIOUS
      <3>2. QED
        BY <3>1, WhatRemains, Zenon
    <2> HIDE DEF r
    <2>2. QED
      BY <2>1
  <1>2. ApplyOrder \in Seq(ApplySteps) /\ Len(ApplyOrder) = 7
    BY DEF ApplyOrder, ApplySteps
  <1> HIDE DEF r
  <1>3. r = ApplyOrder
    BY <1>1, <1>2, SeqEqual
  <1>4. QED
    BY <1>3 DEF r

\* Before the last step there is another.
LEMMA MoreRemains ==
    ASSUME NEW k \in 1 .. 7, k < 7
    PROVE  Len(Remaining(k)) # 1 /\ Tail(Remaining(k)) = Remaining(k + 1)
  <1>1. k # 7
    OBVIOUS
  <1>2. QED
    BY <1>1, RemainingSteps

\* A step of the reload is taken where it stands, and moves it on.
LEMMA StepTaken ==
    ASSUME IInv, NEW k \in 1 .. 7, NEW step, step = ApplyOrder[k], Next1(step)
    PROVE  /\ AtStep(k) /\ reload # Idle
           /\ k = 7 => reload' = Idle
           /\ k < 7 => reload' = [next |-> reload.next, previous |-> reload.previous,
                                  todo |-> Remaining(k + 1)]
  <1>1. reload # Idle
    BY DEF Next1, Idle
  <1>2. PICK j \in 1 .. 7 : AtStep(j)
    BY <1>1 DEF IInv
  <1>3. reload.todo = Remaining(j)
    BY <1>2 DEF AtStep
  <1>4. ApplyOrder[j] = ApplyOrder[k]
    BY <1>3, RemainingSteps DEF Next1
  <1>5. j = k
    <2>1. /\ ApplyOrder[1] = "secrets" /\ ApplyOrder[2] = "config"
          /\ ApplyOrder[3] = "directory sessions" /\ ApplyOrder[4] = "pending"
          /\ ApplyOrder[5] = "generation" /\ ApplyOrder[6] = "keys"
          /\ ApplyOrder[7] = "key sessions"
      BY DEF ApplyOrder
    <2>2. j \in {1, 2, 3, 4, 5, 6, 7} /\ k \in {1, 2, 3, 4, 5, 6, 7}
      OBVIOUS
    <2>3. CASE j = 1
      BY <1>4, <2>1, <2>2, <2>3
    <2>4. CASE j = 2
      BY <1>4, <2>1, <2>2, <2>4
    <2>5. CASE j = 3
      BY <1>4, <2>1, <2>2, <2>5
    <2>6. CASE j = 4
      BY <1>4, <2>1, <2>2, <2>6
    <2>7. CASE j = 5
      BY <1>4, <2>1, <2>2, <2>7
    <2>8. CASE j = 6
      BY <1>4, <2>1, <2>2, <2>8
    <2>9. CASE j = 7
      BY <1>4, <2>1, <2>2, <2>9
    <2>10. QED
      BY <2>2, <2>3, <2>4, <2>5, <2>6, <2>7, <2>8, <2>9
  <1>6. k = 7 => reload' = Idle
    BY <1>3, <1>5, RemainingSteps DEF Next1
  <1>7. k < 7 => reload' = [next |-> reload.next, previous |-> reload.previous,
                            todo |-> Remaining(k + 1)]
    <2>1. k < 7 => reload' = [reload EXCEPT !.todo = Remaining(k + 1)]
      <3>1. k < 7 => Len(reload.todo) # 1 /\ Tail(reload.todo) = Remaining(k + 1)
        <4>1. reload.todo = Remaining(k)
          BY <1>3, <1>5
        <4>2. k < 7 => Len(Remaining(k)) # 1 /\ Tail(Remaining(k)) = Remaining(k + 1)
          BY MoreRemains
        <4>3. QED
          BY ONLY <4>1, <4>2
      <3>2. Len(reload.todo) # 1 => reload' = [reload EXCEPT !.todo = Tail(reload.todo)]
        BY DEF Next1
      <3>3. QED
        BY <3>1, <3>2
    <2>2. reload = [next |-> reload.next, previous |-> reload.previous, todo |-> Remaining(k)]
      BY <1>2, <1>5 DEF AtStep
    <2>3. QED
      BY <2>1, <2>2
  <1>8. QED
    BY <1>1, <1>2, <1>5, <1>6, <1>7

-----------------------------------------------------------------------------
(* Every action keeps the invariant.                                       *)

\* A process that was built from a directory has adopted it in every respect.
LEMMA BootSettles ==
    ASSUME Boots(disk)
    PROVE  /\ Adoptable(disk)
           /\ DOMAIN KeysOf(disk) = {} => Ids(disk, "api_keys") = {}
           /\ ChangedKeys(RestartOnly(disk), RestartOnly(disk)) = {}
  BY DEF Boots, Adoptable, KeysOf, ChangedKeys

\* A process that has booted is settled.
LEMMA InitInvariant == AccessInit => IInv
  <1> SUFFICES ASSUME AccessInit
               PROVE  IInv
    OBVIOUS
  <1>1. Boots(disk)
    BY DEF AccessInit
  <1>2. Settled
    BY <1>1, BootSettles DEF AccessInit, Settled, OpenFromBoot, WaitingFor
  <1>3. QED
    BY <1>2 DEF AccessInit, IInv

\* So is one that starts again.
LEMMA RestartInvariant ==
    ASSUME IInv, Restart
    PROVE  IInv'
  <1>1. Boots(disk)
    BY DEF Restart
  <1>2. Settled'
    BY <1>1, BootSettles DEF Restart, Builds, Settled, OpenFromBoot, WaitingFor
  <1>3. QED
    BY <1>2 DEF Restart, Builds, IInv

\* One that does not start runs nothing.
LEMMA RestartFailsInvariant ==
    ASSUME IInv, RestartFails
    PROVE  IInv'
  BY DEF RestartFails, IInv

\* A reload begins from a settled process, with a directory that loads, whose
\* keys resolve and which does not turn authentication off.
LEMMA ApplyInvariant ==
    ASSUME IInv, Running, NEW dir \in Loadable, Apply(dir)
    PROVE  IInv'
  <1>1. Settled
    BY DEF IInv, Running
  <1>2. reload' = [next |-> dir, previous |-> adopted, todo |-> Remaining(1)]
    BY AllRemains DEF Apply
  <1>3. Adoptable(dir) /\ OpenFromBoot(dir)
    BY <1>1 DEF Apply, Prepared, Adoptable, Settled, OpenFromBoot
  <1>4. /\ \A l \in logins' : IsRecord(l) /\ l.overlaps
    BY DEF IInv, IsRecord, Apply
  <1>5. UNCHANGED <<adopted, chain, keys, built, pending, sessions>>
    BY DEF Apply
  <1>6. \A s \in sessions : Judged(s, DOMAIN keys, Ldap(adopted))
    BY <1>1 DEF Settled
  <1>7. AtStep(1)'
    BY <1>1, <1>2, <1>3, <1>4, <1>5, <1>6 DEF AtStep, Settled, OpenFromBoot, Judged
  <1>8. \E k \in 1 .. 7 : AtStep(k)'
    BY <1>7
  <1>9. reload' # Idle
    BY <1>7, RemainingSteps DEF AtStep, Idle
  <1>10. QED
    BY <1>4, <1>5, <1>8, <1>9 DEF IInv

\* Nothing in force depends on the disk.
LEMMA DiskInvariant ==
    ASSUME IInv, UNCHANGED <<adopted, chain, keys, built, pending, reload, logins, sessions>>
    PROVE  IInv'
  <1>1. \A k \in 1 .. 7 : AtStep(k) => AtStep(k)'
    BY DEF AtStep, OpenFromBoot, WaitingFor
  <1>2. Settled => Settled'
    BY DEF Settled, OpenFromBoot, WaitingFor
  <1>3. QED
    BY <1>1, <1>2 DEF IInv

\* The first six steps: each brings its part of the next configuration in force.
LEMMA StepInvariant ==
    ASSUME IInv, ReplaceSecrets \/ SwapConfig \/ EndDirectorySessions \/ SetPending \/ Bump
                 \/ ReplaceKeys
    PROVE  IInv'
  <1>1. /\ ApplyOrder[1] = "secrets" /\ ApplyOrder[2] = "config"
        /\ ApplyOrder[3] = "directory sessions" /\ ApplyOrder[4] = "pending"
        /\ ApplyOrder[5] = "generation" /\ ApplyOrder[6] = "keys"
    BY DEF ApplyOrder
  <1>2. ASSUME NEW k \in 1 .. 6, AtStep(k + 1)', \A s \in sessions' : IsRecord(s), logins' = logins
        PROVE  IInv'
    <2>1. k + 1 \in 1 .. 7
      OBVIOUS
    <2>2. reload' # Idle
      BY <1>2, <2>1, RemainingSteps DEF AtStep, Idle
    <2>3. QED
      BY <1>2, <2>1, <2>2 DEF IInv
  <1>3. CASE ReplaceSecrets
    <2>1. /\ AtStep(1) /\ reload # Idle
          /\ reload' = [next |-> reload.next, previous |-> reload.previous,
                        todo |-> Remaining(2)]
      <3>1. Next1(ApplyOrder[1])
        BY <1>1, <1>3 DEF ReplaceSecrets
      <3>2. 1 \in 1 .. 7 /\ 1 < 7 /\ 1 + 1 = 2
        OBVIOUS
      <3>3. QED
        BY <3>1, <3>2, StepTaken
    <2>2. AtStep(1 + 1)'
      BY <1>3, <2>1 DEF ReplaceSecrets, AtStep, OpenFromBoot, WaitingFor
    <2>3. QED
      BY <1>2, <1>3, <2>2 DEF ReplaceSecrets, IInv
  <1>4. CASE SwapConfig
    <2>1. /\ AtStep(2) /\ reload # Idle
          /\ reload' = [next |-> reload.next, previous |-> reload.previous,
                        todo |-> Remaining(3)]
      <3>1. Next1(ApplyOrder[2])
        BY <1>1, <1>4 DEF SwapConfig
      <3>2. 2 \in 1 .. 7 /\ 2 < 7 /\ 2 + 1 = 3
        OBVIOUS
      <3>3. QED
        BY <3>1, <3>2, StepTaken
    <2>2. AtStep(2 + 1)'
      BY <1>4, <2>1 DEF SwapConfig, AtStep, OpenFromBoot, WaitingFor
    <2>3. QED
      BY <1>2, <1>4, <2>2 DEF SwapConfig, IInv
  <1>5. CASE EndDirectorySessions
    <2>1. /\ AtStep(3) /\ reload # Idle
          /\ reload' = [next |-> reload.next, previous |-> reload.previous,
                        todo |-> Remaining(4)]
      <3>1. Next1(ApplyOrder[3])
        BY <1>1, <1>5 DEF EndDirectorySessions
      <3>2. 3 \in 1 .. 7 /\ 3 < 7 /\ 3 + 1 = 4
        OBVIOUS
      <3>3. QED
        BY <3>1, <3>2, StepTaken
    <2>2. /\ sessions' \subseteq sessions
          /\ UNCHANGED <<adopted, chain, keys, built, pending, logins>>
      BY <1>5 DEF EndDirectorySessions
    <2>3. \A s \in sessions' :
             \/ s.overlaps
             \/ s.method = "key" /\ s.right \in DOMAIN keys
             \/ s.method = "directory" /\ s.right = Ldap(reload.next)
      <3>1. \A s \in sessions :
               \/ s.overlaps
               \/ s.method = "key" /\ s.right \in DOMAIN keys
               \/ s.method = "directory" /\ s.right = Ldap(reload.previous)
        BY <2>1 DEF AtStep
      <3>2. CASE Ldap(reload.previous) # Ldap(reload.next)
        <4>1. sessions' = {s \in sessions : s.method = "key"}
          BY <1>5, <3>2 DEF EndDirectorySessions
        <4>2. QED
          BY <3>1, <4>1
      <3>3. CASE Ldap(reload.previous) = Ldap(reload.next)
        BY <2>2, <3>1, <3>3
      <3>4. QED
        BY <3>2, <3>3
    <2>4. AtStep(3 + 1)'
      <3>1. reload'.next = reload.next /\ reload'.previous = reload.previous
        BY <2>1
      <3>2. \A s \in sessions' :
               \/ s.overlaps
               \/ s.method = "key" /\ s.right \in DOMAIN keys'
               \/ s.method = "directory" /\ s.right = Ldap(reload'.next)
        BY <2>2, <2>3, <3>1
      <3>3. QED
        BY <2>1, <2>2, <3>1, <3>2 DEF AtStep, OpenFromBoot, WaitingFor
    <2>5. QED
      BY <1>2, <2>2, <2>4 DEF IInv
  <1>6. CASE SetPending
    <2>1. /\ AtStep(4) /\ reload # Idle
          /\ reload' = [next |-> reload.next, previous |-> reload.previous,
                        todo |-> Remaining(5)]
      <3>1. Next1(ApplyOrder[4])
        BY <1>1, <1>6 DEF SetPending
      <3>2. 4 \in 1 .. 7 /\ 4 < 7 /\ 4 + 1 = 5
        OBVIOUS
      <3>3. QED
        BY <3>1, <3>2, StepTaken
    <2>2. AtStep(4 + 1)'
      BY <1>6, <2>1 DEF SetPending, AtStep, OpenFromBoot, WaitingFor
    <2>3. QED
      BY <1>2, <1>6, <2>2 DEF SetPending, IInv
  <1>7. CASE Bump
    <2>1. /\ AtStep(5) /\ reload # Idle
          /\ reload' = [next |-> reload.next, previous |-> reload.previous,
                        todo |-> Remaining(6)]
      <3>1. Next1(ApplyOrder[5])
        BY <1>1, <1>7 DEF Bump
      <3>2. 5 \in 1 .. 7 /\ 5 < 7 /\ 5 + 1 = 6
        OBVIOUS
      <3>3. QED
        BY <3>1, <3>2, StepTaken
    <2>2. AtStep(5 + 1)'
      BY <1>7, <2>1 DEF Bump, AtStep, OpenFromBoot, WaitingFor
    <2>3. QED
      BY <1>2, <1>7, <2>2 DEF Bump, IInv
  <1>8. CASE ReplaceKeys
    <2>1. /\ AtStep(6) /\ reload # Idle
          /\ reload' = [next |-> reload.next, previous |-> reload.previous,
                        todo |-> Remaining(7)]
      <3>1. Next1(ApplyOrder[6])
        BY <1>1, <1>8 DEF ReplaceKeys
      <3>2. 6 \in 1 .. 7 /\ 6 < 7 /\ 6 + 1 = 7
        OBVIOUS
      <3>3. QED
        BY <3>1, <3>2, StepTaken
    <2>2. AtStep(6 + 1)'
      BY <1>8, <2>1 DEF ReplaceKeys, AtStep, OpenFromBoot, WaitingFor
    <2>3. QED
      BY <1>2, <1>8, <2>2 DEF ReplaceKeys, IInv
  <1>9. QED
    BY <1>3, <1>4, <1>5, <1>6, <1>7, <1>8

\* The last one: the reload is through, and the process settled again.
LEMMA RetainKeysInvariant ==
    ASSUME IInv, RetainKeys
    PROVE  IInv'
  <1>1. AtStep(7) /\ reload' = Idle
    <2>1. ApplyOrder[7] = "key sessions" /\ 7 \in 1 .. 7
      BY DEF ApplyOrder
    <2>2. Next1(ApplyOrder[7])
      BY <2>1 DEF RetainKeys
    <2>3. QED
      BY <2>1, <2>2, StepTaken
  <1>2. /\ sessions' = {s \in sessions : s.method = "key" => s.right \in DOMAIN keys}
        /\ UNCHANGED <<adopted, chain, keys, built, pending, logins>>
    BY DEF RetainKeys
  <1>3. /\ Adoptable(adopted) /\ OpenFromBoot(adopted)
        /\ chain = adopted /\ keys = KeysOf(adopted) /\ pending = WaitingFor(adopted)
    BY <1>1 DEF AtStep
  <1>4. \A l \in logins' \cup sessions' : Judged(l, DOMAIN keys, Ldap(adopted))
    BY <1>1, <1>2 DEF AtStep, Judged
  <1>5. Settled'
    BY <1>2, <1>3, <1>4 DEF Settled, OpenFromBoot, WaitingFor
  <1>6. QED
    BY <1>1, <1>2, <1>5 DEF IInv

\* A login is judged by what is in force; one that a reload overlaps says so.
LEMMA LoginInvariant ==
    ASSUME IInv, NEW method, NEW right, NEW grants,
           Login([method |-> method, right |-> right, grants |-> grants, overlaps |-> Overlapping]),
           \/ method = "key" /\ right \in DOMAIN keys
           \/ method = "directory" /\ right = Ldap(adopted)
    PROVE  IInv'
  <1> DEFINE l == [method |-> method, right |-> right, grants |-> grants, overlaps |-> Overlapping]
  <1>1. /\ logins' = logins \cup {l} /\ adopted # None
        /\ UNCHANGED <<adopted, chain, keys, built, pending, reload, sessions>>
    BY DEF Login
  <1>2. IsRecord(l) /\ Judged(l, DOMAIN keys, Ldap(adopted)) /\ (reload # Idle => l.overlaps)
    BY DEF IsRecord, Judged, Overlapping
  <1> HIDE DEF l
  <1>3. reload # Idle => \A k \in 1 .. 7 : AtStep(k) => AtStep(k)'
    BY <1>1, <1>2 DEF AtStep, OpenFromBoot, WaitingFor
  <1>4. reload = Idle => Settled'
    BY <1>1, <1>2 DEF IInv, Settled, OpenFromBoot, WaitingFor
  <1>5. QED
    BY <1>1, <1>2, <1>3, <1>4 DEF IInv

\* Sessions open from logins, logins and sessions end.
LEMMA SessionsInvariant ==
    ASSUME IInv, logins' \subseteq logins, sessions' \subseteq sessions \cup logins,
           UNCHANGED <<adopted, chain, keys, built, pending, reload>>
    PROVE  IInv'
  <1>1. \A k \in 1 .. 7 : AtStep(k) => AtStep(k)'
    BY DEF AtStep, OpenFromBoot, WaitingFor
  <1>2. Settled => Settled'
    BY DEF Settled, OpenFromBoot, WaitingFor
  <1>3. QED
    BY <1>1, <1>2 DEF IInv

\* Every step keeps the invariant.
LEMMA NextInvariant == IInv /\ [AccessNext]_vars => IInv'
  <1> SUFFICES ASSUME IInv, [AccessNext]_vars
               PROVE  IInv'
    OBVIOUS
  <1>1. CASE Restart \/ RestartFails
    BY <1>1, RestartInvariant, RestartFailsInvariant
  <1>2. CASE Reload
    BY <1>2, ApplyInvariant DEF Reload
  <1>3. ASSUME NEW dir \in ByHand, EditByHand(dir)
        PROVE  IInv'
    BY <1>3, DiskInvariant DEF EditByHand
  <1>4. ASSUME NEW dir \in Directories, Put(dir)
        PROVE  IInv'
    <2>1. CASE Apply(dir)
      BY <1>4, <2>1, ApplyInvariant DEF Put
    <2>2. CASE UNCHANGED <<adopted, chain, keys, built, pending, generation, reload, logins,
                           sessions>>
      BY <2>2, DiskInvariant
    <2>3. QED
      BY <1>4, <2>1, <2>2 DEF Put
  <1>5. CASE ReplaceSecrets \/ SwapConfig \/ EndDirectorySessions \/ SetPending \/ Bump
             \/ ReplaceKeys
    BY <1>5, StepInvariant
  <1>6. CASE RetainKeys
    BY <1>6, RetainKeysInvariant
  <1>7. ASSUME NEW id \in DOMAIN keys, LoginByKey(id)
        PROVE  IInv'
    BY <1>7, LoginInvariant DEF LoginByKey
  <1>8. CASE LoginByDirectory
    BY <1>8, LoginInvariant DEF LoginByDirectory
  <1>9. ASSUME NEW login \in logins, SessionOpens(login) \/ LoginFails(login)
        PROVE  IInv'
    BY <1>9, SessionsInvariant DEF SessionOpens, LoginFails
  <1>10. ASSUME NEW session \in sessions, SessionEnds(session)
         PROVE  IInv'
    BY <1>10, SessionsInvariant DEF SessionEnds
  <1>11. CASE UNCHANGED vars
    BY <1>11, DiskInvariant DEF vars
  <1>12. QED
    BY <1>1, <1>2, <1>3, <1>4, <1>5, <1>6, <1>7, <1>8, <1>9, <1>10, <1>11 DEF AccessNext

-----------------------------------------------------------------------------
(* The theorems.                                                           *)

\* The inductive invariant holds through boots, pushes, reloads, edits by hand,
\* logins and the ends of sessions.
THEOREM AccessInvariant == AccessSpec => []IInv
  BY InitInvariant, NextInvariant, PTL DEF AccessSpec

\* What is in force at any moment can run, credentials included: between the
\* steps of a reload, too, each credential that is needed can be read from the
\* chain in force, unless the reload is taking its user away.
THEOREM InForceConfigurationsRun == AccessSpec => []WhatIsInForceRuns
  <1>1. \A dir \in Loadable : dir \in Sound
    BY AccessAssumption, LoadedDirectoriesRun DEF Loadable, Sound
  <1>2. \A dir \in Loadable : \A id \in Needed(dir) : CanRead(dir, id)
    BY <1>1 DEF Sound, Runs
  <1>3. IInv => WhatIsInForceRuns
    <2> SUFFICES ASSUME IInv, adopted # None
                 PROVE  /\ adopted \in Sound
                        /\ \A id \in Needed(adopted) :
                              \/ CanRead(chain, id)
                              \/ reload # Idle /\ id \notin Needed(reload.next)
      BY DEF WhatIsInForceRuns, InForceRuns, CredentialsComeFirst
    <2>1. CASE reload = Idle
      BY <1>1, <1>2, <2>1 DEF IInv, Settled, Adoptable
    <2>2. CASE reload # Idle
      <3>1. PICK k \in 1 .. 7 : AtStep(k)
        BY <2>2 DEF IInv
      <3>2. /\ reload.next \in Loadable /\ reload.previous \in Loadable
            /\ adopted \in {reload.next, reload.previous}
            /\ chain = reload.next \/ (chain = reload.previous /\ adopted = reload.previous)
        BY <3>1 DEF AtStep, Adoptable
      <3>3. QED
        BY <1>1, <1>2, <2>2, <3>2
    <2>3. QED
      BY <2>1, <2>2
  <1>4. QED
    BY <1>3, AccessInvariant, PTL

\* After a reload the open sessions are those of its keys and its directory
\* rules, but for logins the reload overlapped; a directory login needs keys, an
\* API is open to all only from its boot, and what waits for a restart is named.
THEOREM SessionsAreOfTheRulesInForce == AccessSpec => []SessionsFollowTheRules
  <1>1. IInv => SessionsFollowTheRules
    <2> SUFFICES ASSUME Settled
                 PROVE  /\ \A s \in sessions :
                              \/ s.overlaps
                              \/ s.method = "key" /\ s.right \in DOMAIN keys
                              \/ s.method = "directory" /\ s.right = Ldap(adopted)
                        /\ Ldap(adopted) # None => DOMAIN keys # {}
                        /\ DOMAIN keys = {} => Ids(built, "api_keys") = {}
                        /\ pending = ChangedKeys(RestartOnly(built), RestartOnly(adopted))
      BY DEF IInv, SessionsFollowTheRules
    <2>1. DOMAIN keys = Ids(adopted, "api_keys")
      BY DEF Settled, KeysOf
    <2>2. QED
      BY <2>1 DEF Settled, Judged, Adoptable, LdapRequiresKeys, Ldap, OpenFromBoot, WaitingFor
  <1>2. QED
    BY <1>1, AccessInvariant, PTL

-----------------------------------------------------------------------------
(* Pulls of a project's checkout.                                          *)

\* Requirements that a later commit replaced do not come back after it.
NeverReturns ==
    \A k, m, n \in 1 .. MaxRev :
       k <= m /\ m <= n /\ Requirements[k] = Requirements[n] /\ Requirements[k] # NoReqs
       => Requirements[m] \in {NoReqs, Requirements[k]}

Places == {"idle", "queued", "git", "hung", "venv", "creating", "installing", "marking",
           "pulled", "failed"}
Working == Places \ {"idle", "queued"}

QueueFits ==
    /\ queue \in Seq(Pullers) /\ \A i, j \in DOMAIN queue : queue[i] = queue[j] => i = j
    /\ \A p \in Pullers : pc[p] # "idle" <=> \E i \in DOMAIN queue : queue[i] = p
    /\ \A i \in DOMAIN queue : i > 1 => pc[queue[i]] = "queued"

VenvFits(v) ==
    /\ v \in [python : BOOLEAN, pip : BOOLEAN, installed : Installable, marker : Installable]
    /\ v.marker # Mixed /\ (v.pip => v.python)

StreakFits ==
    /\ history \in Seq([before : Revs, after : Revs, ok : BOOLEAN])
    /\ streak \in 0 .. Len(history)
    /\ \A i \in DOMAIN history : i > Len(history) - streak => ~history[i].ok
    /\ streak < Len(history) => history[Len(history) - streak].ok

\* Where a pull is says how far the checkout and its virtualenv are.
PlaceFits(place, since, v, c) ==
    /\ place \in {"venv", "creating", "installing", "marking", "pulled"} => since <= c
    /\ place \in {"creating", "installing", "marking"} => Wanted(c) \notin {NoReqs, v.marker}
    /\ place = "creating" => ~v.python
    /\ place = "marking" => v.installed = Wanted(c)
    /\ place = "pulled" /\ NeverReturns => Wanted(c) \in {NoReqs, v.installed}

\* What the marker names was installed at some commit, and is still unless a
\* later commit asked for something else.
MarkerFits(v, c) ==
    v.marker # NoReqs =>
        \E m \in 1 .. c :
           /\ Requirements[m] = v.marker
           /\ v.installed = v.marker \/ \E n \in m .. c : Requirements[n] \notin {NoReqs, v.marker}

\* Whoever works on the checkout began where the last row ended, and so does
\* the next one; only a pull that was dropped may have moved it in between.
RowsFit ==
    /\ \A i \in 1 .. Len(history) - 1 :
          /\ history[i].after <= history[i + 1].before
          /\ ~lost => history[i].after = history[i + 1].before
    /\ \A p \in Pullers : pc[p] \in Working =>
          /\ before[p] <= checkout
          /\ history # <<>> => /\ history[Len(history)].after <= before[p]
                               /\ ~lost => history[Len(history)].after = before[p]
    /\ history # <<>> =>
          /\ history[Len(history)].after <= checkout
          /\ ~lost /\ (\A p \in Pullers : pc[p] \notin Working) =>
                history[Len(history)].after = checkout

ProjectInv ==
    /\ remote \in 1 .. MaxRev /\ checkout \in 0 .. remote
    /\ pc \in [Pullers -> Places]
    /\ before \in [Pullers -> Revs] /\ asked \in [Pullers -> Revs]
    /\ \A p \in Pullers : asked[p] <= remote
    /\ lost \in BOOLEAN /\ fails \in 0 .. MaxFails /\ pulls \in 0 .. MaxPulls
    /\ QueueFits /\ VenvFits(venv) /\ StreakFits /\ RowsFit
    /\ MarkerFits(venv, checkout)
    /\ \A p \in Pullers : PlaceFits(pc[p], asked[p], venv, checkout)

\* What a commit asks for can be installed.
LEMMA WantedIsInstallable ==
    ASSUME NEW r \in Revs
    PROVE  Wanted(r) \in Installable /\ Wanted(r) # Mixed
  BY ProjectPullAssumption DEF Wanted, Installable, Revs

\* The lock admits one.
LEMMA OneWorks ==
    ASSUME ProjectInv, NEW p \in Pullers, pc[p] \in Working, NEW q \in Pullers, pc[q] \in Working
    PROVE  p = q
  <1>1. PICK i \in DOMAIN queue : queue[i] = p
    BY DEF ProjectInv, QueueFits, Working
  <1>2. PICK j \in DOMAIN queue : queue[j] = q
    BY DEF ProjectInv, QueueFits, Working
  <1>3. ~(i > 1) /\ ~(j > 1)
    BY <1>1, <1>2 DEF ProjectInv, QueueFits, Working
  <1>4. i \in Nat /\ j \in Nat /\ i >= 1 /\ j >= 1
    BY DEF ProjectInv, QueueFits
  <1>5. i = j
    BY <1>3, <1>4
  <1>6. QED
    BY <1>1, <1>2, <1>5

\* So nobody works on the checkout when the lock goes to the first in line.
LEMMA NobodyWorks ==
    ASSUME ProjectInv, NEW p \in Pullers, pc[p] = "queued", p = Head(queue)
    PROVE  \A q \in Pullers : pc[q] \notin Working
  <1> SUFFICES ASSUME NEW q \in Pullers, pc[q] \in Working
               PROVE  FALSE
    OBVIOUS
  <1>1. PICK i \in DOMAIN queue : queue[i] = q
    BY DEF ProjectInv, QueueFits, Working
  <1>2. ~(i > 1)
    BY <1>1 DEF ProjectInv, QueueFits, Working
  <1>3. queue \in Seq(Pullers) /\ i \in Nat /\ i >= 1
    BY DEF ProjectInv, QueueFits
  <1>4. i = 1
    BY <1>2, <1>3
  <1>5. Head(queue) = queue[1]
    BY <1>3
  <1>6. QED
    BY <1>1, <1>4, <1>5 DEF Working

\* One joins the line.
LEMMA QueueGrows ==
    ASSUME ProjectInv, NEW p \in Pullers, pc[p] = "idle", Go(p, "queued"),
           queue' = Append(queue, p)
    PROVE  QueueFits'
  <1> DEFINE n == Len(queue)
  <1>1. queue \in Seq(Pullers) /\ n \in Nat /\ DOMAIN queue = 1 .. n
    BY DEF ProjectInv, QueueFits
  <1>2. /\ queue' \in Seq(Pullers) /\ DOMAIN queue' = 1 .. n + 1
        /\ queue'[n + 1] = p /\ \A i \in 1 .. n : queue'[i] = queue[i]
    BY <1>1
  <1>3. \A i \in 1 .. n : queue[i] \in Pullers /\ queue[i] # p
    BY <1>1 DEF ProjectInv, QueueFits
  <1>4. pc'[p] = "queued" /\ \A q \in Pullers : q # p => pc'[q] = pc[q]
    BY DEF Go, ProjectInv
  <1>5. \A i, j \in DOMAIN queue' : queue'[i] = queue'[j] => i = j
    <2>1. \A i, j \in 1 .. n : queue[i] = queue[j] => i = j
      BY <1>1 DEF ProjectInv, QueueFits
    <2> HIDE DEF n
    <2>2. QED
      BY <1>1, <1>2, <1>3, <2>1
  <1>6. ASSUME NEW q \in Pullers
        PROVE  pc'[q] # "idle" <=> \E i \in DOMAIN queue' : queue'[i] = q
    <2>1. pc[q] # "idle" <=> \E i \in 1 .. n : queue[i] = q
      BY <1>1 DEF ProjectInv, QueueFits
    <2> HIDE DEF n
    <2>2. CASE q = p
      BY <1>1, <1>2, <1>4, <2>2
    <2>3. CASE q # p
      BY <1>1, <1>2, <1>4, <2>1, <2>3
    <2>4. QED
      BY <2>2, <2>3
  <1>7. \A i \in DOMAIN queue' : i > 1 => pc'[queue'[i]] = "queued"
    <2>1. \A i \in 1 .. n : i > 1 => pc[queue[i]] = "queued"
      BY <1>1 DEF ProjectInv, QueueFits
    <2> HIDE DEF n
    <2>2. QED
      BY <1>1, <1>2, <1>3, <1>4, <2>1
  <1>8. QED
    BY <1>2, <1>5, <1>6, <1>7 DEF QueueFits

\* One leaves it, from where it stands.
LEMMA QueueShrinks ==
    ASSUME ProjectInv, NEW p \in Pullers, pc[p] # "idle", Go(p, "idle"), Unlock(p)
    PROVE  QueueFits'
  <1> DEFINE n == Len(queue)
             place == CHOOSE i \in DOMAIN queue : queue[i] = p
  <1>1. queue \in Seq(Pullers) /\ n \in Nat /\ DOMAIN queue = 1 .. n
    BY DEF ProjectInv, QueueFits
  <1>2. \E i \in DOMAIN queue : queue[i] = p
    BY DEF ProjectInv, QueueFits
  <1>3. place \in 1 .. n /\ queue[place] = p
    BY <1>1, <1>2
  <1>4. queue' = [i \in 1 .. n - 1 |-> IF i < place THEN queue[i] ELSE queue[i + 1]]
    BY DEF Unlock
  <1> HIDE DEF place, n
  <1>5. \A i, j \in 1 .. n : queue[i] = queue[j] => i = j
    BY <1>1 DEF ProjectInv, QueueFits
  <1>6. \A i \in 1 .. n : queue[i] \in Pullers /\ (i # place => queue[i] # p)
    BY <1>1, <1>3, <1>5
  <1>7. n - 1 \in Nat /\ DOMAIN queue' = 1 .. n - 1
    BY <1>1, <1>3, <1>4
  <1>8. \A i \in 1 .. n - 1 : \E k \in 1 .. n :
           k # place /\ queue'[i] = queue[k] /\ k = IF i < place THEN i ELSE i + 1
    BY <1>1, <1>3, <1>4
  <1>9. \A i \in 1 .. n - 1 : queue'[i] \in Pullers
    BY <1>6, <1>8
  <1>10. queue' \in Seq(Pullers)
    <2>1. queue' \in [1 .. n - 1 -> Pullers]
      BY <1>4, <1>7, <1>9
    <2>2. QED
      BY <1>7, <2>1, SeqDef
  <1>11. pc'[p] = "idle" /\ \A q \in Pullers : q # p => pc'[q] = pc[q]
    BY DEF Go, ProjectInv
  <1>12. \A i, j \in DOMAIN queue' : queue'[i] = queue'[j] => i = j
    BY <1>1, <1>3, <1>4, <1>5, <1>7
  <1>13. ASSUME NEW q \in Pullers
         PROVE  pc'[q] # "idle" <=> \E i \in DOMAIN queue' : queue'[i] = q
    <2>1. pc[q] # "idle" <=> \E i \in 1 .. n : queue[i] = q
      BY <1>1 DEF ProjectInv, QueueFits
    <2>2. CASE q = p
      BY <1>6, <1>7, <1>8, <1>11, <2>2
    <2>3. CASE q # p
      <3>1. (\E i \in DOMAIN queue' : queue'[i] = q) => \E k \in 1 .. n : queue[k] = q
        BY <1>7, <1>8
      <3>2. ASSUME NEW k \in 1 .. n, queue[k] = q
            PROVE  \E i \in DOMAIN queue' : queue'[i] = q
        <4>1. k # place
          BY <1>3, <2>3, <3>2
        <4>2. CASE k < place
          <5>1. k \in 1 .. n - 1 /\ queue'[k] = queue[k]
            BY <1>1, <1>3, <1>4, <4>2
          <5>2. QED
            BY <1>7, <3>2, <5>1
        <4>3. CASE k > place
          <5>1. k - 1 \in 1 .. n - 1 /\ ~(k - 1 < place) /\ (k - 1) + 1 = k
            BY <1>1, <1>3, <4>3
          <5>2. queue'[k - 1] = queue[k]
            BY <1>4, <5>1
          <5>3. QED
            BY <1>7, <3>2, <5>1, <5>2
        <4>4. QED
          BY <1>1, <1>3, <4>1, <4>2, <4>3
      <3>3. QED
        BY <1>11, <2>1, <2>3, <3>1, <3>2
    <2>4. QED
      BY <2>2, <2>3
  <1>14. \A i \in DOMAIN queue' : i > 1 => pc'[queue'[i]] = "queued"
    <2>1. \A i \in 1 .. n : i > 1 => pc[queue[i]] = "queued"
      BY <1>1 DEF ProjectInv, QueueFits
    <2> SUFFICES ASSUME NEW i \in 1 .. n - 1, i > 1
                 PROVE  pc'[queue'[i]] = "queued"
      BY <1>7
    <2>2. PICK k \in 1 .. n :
             k # place /\ queue'[i] = queue[k] /\ k = IF i < place THEN i ELSE i + 1
      BY <1>8
    <2>3. k > 1 /\ queue[k] \in Pullers /\ queue[k] # p
      BY <1>1, <1>6, <2>2
    <2>4. QED
      BY <1>11, <2>1, <2>2, <2>3
  <1>15. QED
    BY <1>10, <1>12, <1>13, <1>14 DEF QueueFits

\* The last row, if there is one.
LEMMA LastRow ==
    ASSUME ProjectInv, history # <<>>
    PROVE  /\ Len(history) \in Nat \ {0} /\ Len(history) \in DOMAIN history
           /\ history[Len(history)].after \in Revs
  <1>1. history \in Seq([before : Revs, after : Revs, ok : BOOLEAN])
    BY DEF ProjectInv, StreakFits
  <1>2. Len(history) \in Nat \ {0}
    BY <1>1
  <1>3. Len(history) \in DOMAIN history
    BY <1>1, <1>2
  <1> DEFINE n == Len(history)
             R == [before : Revs, after : Revs, ok : BOOLEAN]
  <1>4. history[n] \in R
    <2>1. history \in Seq(R) /\ n \in 1 .. Len(history)
      BY <1>1, <1>2
    <2> HIDE DEF n, R
    <2>2. QED
      BY <2>1, ElementOfSeq
  <1>5. QED
    BY <1>2, <1>3, <1>4

\* The one that works goes on working: the checkout only moves forward, to the
\* branch, and what it finds or leaves of the virtualenv fits its place.
LEMMA WorkerMoves ==
    ASSUME ProjectInv, NEW p \in Pullers, pc[p] \in Working, NEW place \in Working, Go(p, place),
           UNCHANGED <<remote, queue, before, asked, history, streak, lost, pulls>>,
           checkout' \in {checkout, remote}, fails' \in 0 .. MaxFails, VenvFits(venv'),
           MarkerFits(venv', checkout'), PlaceFits(place, asked[p], venv', checkout')
    PROVE  ProjectInv'
  <1>1. pc' \in [Pullers -> Places] /\ pc'[p] = place /\ \A q \in Pullers : q # p => pc'[q] = pc[q]
    BY DEF Go, ProjectInv, Working
  <1>2. \A q \in Pullers : q # p => pc[q] \notin Working /\ pc'[q] \notin Working
    BY <1>1, OneWorks
  <1>3. remote \in 1 .. MaxRev /\ checkout \in 0 .. remote /\ checkout' \in 0 .. remote
        /\ checkout <= checkout' /\ MaxRev \in Nat
    BY ProjectPullAssumption DEF ProjectInv
  <1>4. QueueFits'
    <2>1. \A q \in Pullers : (pc'[q] # "idle" <=> pc[q] # "idle")
                               /\ (pc[q] = "queued" => pc'[q] = "queued")
      BY <1>1 DEF Working
    <2>2. QueueFits /\ \A i \in DOMAIN queue : queue[i] \in Pullers
      BY DEF ProjectInv, QueueFits
    <2>3. QED
      BY <2>1, <2>2 DEF QueueFits
  <1>5. RowsFit'
    <2>1. history # <<>> =>
             /\ history[Len(history)].after \in Revs
             /\ history[Len(history)].after <= before[p]
             /\ ~lost => history[Len(history)].after = before[p]
      BY LastRow DEF ProjectInv, RowsFit
    <2>2. before[p] \in Revs /\ before[p] <= checkout
      BY DEF ProjectInv, RowsFit
    <2>3. before[p] <= checkout' /\ (history # <<>> => history[Len(history)].after <= checkout')
      BY <1>3, <2>1, <2>2 DEF Revs
    <2>4. \A i \in 1 .. Len(history) - 1 :
             /\ history[i].after <= history[i + 1].before
             /\ ~lost => history[i].after = history[i + 1].before
      BY DEF ProjectInv, RowsFit
    <2>5. pc'[p] \in Working
      BY <1>1
    <2> HIDE DEF Working
    <2>6. QED
      BY <1>1, <1>2, <2>1, <2>3, <2>4, <2>5 DEF RowsFit
  <1>6. \A q \in Pullers : PlaceFits(pc'[q], asked[q], venv', checkout')
    BY <1>1, <1>2 DEF PlaceFits, Working
  <1>7. StreakFits'
    BY DEF ProjectInv, StreakFits
  <1>8. QED
    BY <1>1, <1>3, <1>4, <1>5, <1>6, <1>7 DEF ProjectInv

\* What does not concern a pull, or one that is only in line.
LEMMA PushInvariant ==
    ASSUME ProjectInv, Push
    PROVE  ProjectInv'
  <1>1. /\ remote < MaxRev /\ remote' = remote + 1
        /\ UNCHANGED <<checkout, venv, queue, pc, before, asked, history, streak, lost, fails,
                       pulls>>
    BY DEF Push, run, record
  <1>2. /\ remote' \in 1 .. MaxRev /\ checkout' \in 0 .. remote'
        /\ \A p \in Pullers : asked'[p] <= remote'
    BY <1>1, ProjectPullAssumption DEF ProjectInv, Revs
  <1>3. QueueFits' /\ StreakFits' /\ RowsFit'
    BY <1>1 DEF ProjectInv, QueueFits, StreakFits, RowsFit
  <1>4. QED
    BY <1>1, <1>2, <1>3 DEF ProjectInv

\* A pull is asked for.
LEMMA StartInvariant ==
    ASSUME ProjectInv, NEW p \in Pullers, Start(p)
    PROVE  ProjectInv'
  <1>1. /\ pc[p] = "idle" /\ pulls < MaxPulls /\ pulls' = pulls + 1
        /\ Go(p, "queued") /\ queue' = Append(queue, p) /\ asked' = [asked EXCEPT ![p] = remote]
        /\ UNCHANGED <<remote, checkout, venv, before, history, streak, lost, fails>>
    BY DEF Start, record
  <1>2. /\ pc' \in [Pullers -> Places] /\ pc'[p] = "queued"
        /\ \A q \in Pullers : q # p => pc'[q] = pc[q]
    BY <1>1 DEF Go, ProjectInv, Places
  <1>3. QueueFits'
    BY <1>1, QueueGrows
  <1>4. /\ asked' \in [Pullers -> Revs] /\ asked'[p] = remote
        /\ \A q \in Pullers : q # p => asked'[q] = asked[q]
    BY <1>1, ProjectPullAssumption DEF ProjectInv, Revs
  <1>5. pulls' \in 0 .. MaxPulls
    BY <1>1, ProjectPullAssumption DEF ProjectInv
  <1>6. \A q \in Pullers : pc'[q] \in Working <=> pc[q] \in Working
    BY <1>1, <1>2 DEF Working
  <1>7. RowsFit'
    BY <1>1, <1>6, Zenon DEF ProjectInv, RowsFit
  <1>8. \A q \in Pullers : PlaceFits(pc'[q], asked'[q], venv, checkout)
    BY <1>2, <1>4 DEF ProjectInv, PlaceFits
  <1>9. StreakFits'
    BY <1>1 DEF ProjectInv, StreakFits
  <1>10. \A q \in Pullers : asked'[q] <= remote
    BY <1>4, ProjectPullAssumption DEF ProjectInv
  <1>11. QED
    BY <1>1, <1>2, <1>3, <1>4, <1>5, <1>7, <1>8, <1>9, <1>10 DEF ProjectInv

\* The lock comes to the one that was first in line.
LEMMA LockInvariant ==
    ASSUME ProjectInv, NEW p \in Pullers, Lock(p)
    PROVE  ProjectInv'
  <1>1. /\ pc[p] = "queued" /\ p = Head(queue) /\ Go(p, "git")
        /\ before' = [before EXCEPT ![p] = checkout]
        /\ UNCHANGED <<remote, checkout, venv, queue, asked, history, streak, lost, fails, pulls>>
    BY DEF Lock, record
  <1>2. /\ pc' \in [Pullers -> Places] /\ pc'[p] = "git"
        /\ \A q \in Pullers : q # p => pc'[q] = pc[q]
    BY <1>1 DEF Go, ProjectInv, Places
  <1>3. \A q \in Pullers : pc[q] \notin Working
    BY <1>1, NobodyWorks
  <1>4. /\ before' \in [Pullers -> Revs] /\ before'[p] = checkout
    BY <1>1, ProjectPullAssumption DEF ProjectInv, Revs
  <1>5. QueueFits'
    <2>1. queue \in Seq(Pullers) /\ \A i \in DOMAIN queue : queue[i] \in Pullers
      BY DEF ProjectInv, QueueFits
    <2>2. \A q \in Pullers : pc'[q] # "idle" <=> pc[q] # "idle"
      BY <1>1, <1>2
    <2>3. \A i \in DOMAIN queue : i > 1 => queue[i] # p
      <3>1. queue # <<>>
        BY <1>1 DEF ProjectInv, QueueFits
      <3>2. p = queue[1] /\ 1 \in DOMAIN queue
        BY <1>1, <2>1, <3>1
      <3>3. QED
        BY <2>1, <3>2 DEF ProjectInv, QueueFits
    <2>4. QED
      BY <1>1, <1>2, <2>1, <2>2, <2>3 DEF ProjectInv, QueueFits
  <1>6. RowsFit'
    <2>1. history # <<>> => /\ history[Len(history)].after <= checkout
                            /\ ~lost => history[Len(history)].after = checkout
      BY <1>3 DEF ProjectInv, RowsFit
    <2>2. checkout <= checkout /\ \A q \in Pullers : pc'[q] \in Working => q = p
      BY <1>2, <1>3 DEF ProjectInv
    <2>3. pc'[p] \in Working
      BY <1>2 DEF Working, Places
    <2>4. \A i \in 1 .. Len(history) - 1 :
             /\ history[i].after <= history[i + 1].before
             /\ ~lost => history[i].after = history[i + 1].before
      BY DEF ProjectInv, RowsFit
    <2>5. QED
      BY <1>1, <1>4, <2>1, <2>2, <2>3, <2>4 DEF RowsFit
  <1>7. StreakFits'
    BY <1>1 DEF ProjectInv, StreakFits
  <1>8. \A q \in Pullers : PlaceFits(pc'[q], asked[q], venv, checkout)
    BY <1>2 DEF ProjectInv, PlaceFits
  <1>9. QED
    BY <1>1, <1>2, <1>4, <1>5, <1>6, <1>7, <1>8 DEF ProjectInv

\* What is known of a pull at work.
LEMMA AtWork ==
    ASSUME ProjectInv, NEW p \in Pullers, pc[p] \in Working
    PROVE  /\ checkout \in Revs /\ remote \in Revs /\ checkout \in Nat /\ remote \in Nat
           /\ checkout <= remote /\ remote # 0
           /\ asked[p] \in Nat /\ asked[p] <= remote /\ fails \in 0 .. MaxFails
           /\ VenvFits(venv) /\ MarkerFits(venv, checkout)
           /\ PlaceFits(pc[p], asked[p], venv, checkout)
           /\ Wanted(checkout) \in Installable /\ Wanted(checkout) # Mixed
           /\ NoReqs \in Installable /\ Mixed \in Installable
           /\ MaxFails \in Nat
  <1>1. checkout \in Revs /\ remote \in Revs /\ asked[p] \in Revs
    BY ProjectPullAssumption DEF ProjectInv, Revs
  <1>2. QED
    BY <1>1, WantedIsInstallable, ProjectPullAssumption DEF ProjectInv, Revs, Installable

\* A later commit does not take away what an earlier one explains.
LEMMA MarkerStaysExplained ==
    ASSUME NEW v, NEW c \in Nat, NEW d \in Nat, c <= d, MarkerFits(v, c)
    PROVE  MarkerFits(v, d)
  <1>1. ASSUME v.marker # NoReqs
        PROVE  \E m \in 1 .. d : /\ Requirements[m] = v.marker
                                 /\ \/ v.installed = v.marker
                                    \/ \E n \in m .. d : Requirements[n] \notin {NoReqs, v.marker}
    <2>1. PICK m \in 1 .. c :
             /\ Requirements[m] = v.marker
             /\ \/ v.installed = v.marker
                \/ \E n \in m .. c : Requirements[n] \notin {NoReqs, v.marker}
      BY <1>1 DEF MarkerFits
    <2>2. m \in 1 .. d /\ \A n \in m .. c : n \in m .. d
      OBVIOUS
    <2>3. QED
      BY <2>1, <2>2
  <1>2. QED
    BY <1>1 DEF MarkerFits

\* The checkout goes to the branch, or a part of the way, or nowhere.
LEMMA GitMoves ==
    ASSUME ProjectInv, NEW p \in Pullers, pc[p] \in {"git", "hung"},
           NEW place \in {"venv", "failed", "hung"}, Go(p, place),
           checkout' \in {checkout, remote}, place = "venv" => checkout' = remote,
           fails' \in 0 .. MaxFails,
           UNCHANGED <<remote, venv, queue, before, asked, history, streak, lost, pulls>>
    PROVE  ProjectInv'
  <1>1. pc[p] \in Working /\ place \in Working
    BY DEF Working, Places
  <1>2. checkout' \in Nat /\ checkout <= checkout'
    BY <1>1, AtWork
  <1>3. MarkerFits(venv, checkout')
    BY <1>1, <1>2, AtWork, MarkerStaysExplained
  <1>4. PlaceFits(place, asked[p], venv, checkout')
    BY <1>1, AtWork DEF PlaceFits
  <1>5. QED
    BY <1>1, <1>3, <1>4, AtWork, WorkerMoves

\* git works, fails, hangs or is killed.
LEMMA GitInvariant ==
    ASSUME ProjectInv, NEW p \in Pullers,
           GitWorks(p) \/ GitFails(p) \/ GitHangs(p) \/ TimesOut(p)
    PROVE  ProjectInv'
  <1>1. fails \in 0 .. MaxFails /\ MaxFails \in Nat
    BY ProjectPullAssumption DEF ProjectInv
  <1>2. CASE GitWorks(p)
    BY <1>1, <1>2, GitMoves DEF GitWorks, record
  <1>3. CASE GitFails(p)
    BY <1>1, <1>3, GitMoves DEF GitFails, HalfPulled, record
  <1>4. CASE GitHangs(p)
    BY <1>1, <1>4, GitMoves DEF GitHangs, HalfPulled, record
  <1>5. CASE TimesOut(p)
    BY <1>1, <1>5, GitMoves DEF TimesOut, record
  <1>6. QED
    BY <1>2, <1>3, <1>4, <1>5

\* The marker is of what is installed, when what a commit asked for does not
\* come back after another asked for something else.
LEMMA MarkedIsInstalled ==
    ASSUME ProjectInv, NeverReturns, NEW p \in Pullers, pc[p] \in Working,
           Wanted(checkout) = venv.marker, Wanted(checkout) # NoReqs
    PROVE  venv.installed = venv.marker
  <1>1. PICK m \in 1 .. checkout :
           /\ Requirements[m] = venv.marker
           /\ \/ venv.installed = venv.marker
              \/ \E n \in m .. checkout : Requirements[n] \notin {NoReqs, venv.marker}
    BY AtWork DEF MarkerFits
  <1>2. checkout \in 1 .. MaxRev /\ Wanted(checkout) = Requirements[checkout]
    BY AtWork DEF Wanted, Revs
  <1>3. ASSUME NEW n \in m .. checkout
        PROVE  Requirements[n] \in {NoReqs, venv.marker}
    <2>1. m \in 1 .. MaxRev /\ n \in 1 .. MaxRev /\ m <= n /\ n <= checkout
      BY <1>2, ProjectPullAssumption
    <2>2. QED
      BY <1>1, <1>2, <2>1 DEF NeverReturns
  <1>4. QED
    BY <1>1, <1>3

\* The requirements are looked at.
LEMMA VenvCheckedInvariant ==
    ASSUME ProjectInv, NEW p \in Pullers, VenvChecked(p)
    PROVE  ProjectInv'
  <1> DEFINE place == IF Wanted(checkout) = NoReqs \/ Wanted(checkout) = venv.marker THEN "pulled"
                      ELSE IF ~venv.python THEN "creating" ELSE "installing"
  <1>1. /\ pc[p] = "venv" /\ Go(p, place)
        /\ UNCHANGED <<remote, checkout, venv, queue, before, asked, history, streak, lost,
                       fails, pulls>>
    BY DEF VenvChecked, record
  <1>2. pc[p] \in Working /\ place \in Working
    BY <1>1 DEF Working, Places
  <1>3. place = "pulled" /\ NeverReturns => Wanted(checkout) \in {NoReqs, venv.installed}
    BY <1>2, MarkedIsInstalled
  <1>4. PlaceFits(place, asked[p], venv, checkout)
    BY <1>1, <1>2, <1>3, AtWork DEF PlaceFits
  <1> HIDE DEF place
  <1>5. QED
    BY <1>1, <1>2, <1>4, AtWork, WorkerMoves

\* A virtualenv that is made, in part or whole, is of what is wanted.
LEMMA Remade ==
    ASSUME ProjectInv, NEW p \in Pullers, pc[p] \in {"creating", "installing"},
           NEW v, VenvFits(v), v.marker = venv.marker
    PROVE  MarkerFits(v, checkout)
  <1>1. pc[p] \in Working
    BY DEF Working, Places
  <1>2. Wanted(checkout) \notin {NoReqs, venv.marker} /\ checkout \in Nat
    BY <1>1, AtWork DEF PlaceFits
  <1>3. checkout # 0 /\ Wanted(checkout) = Requirements[checkout]
    BY <1>2 DEF Wanted
  <1>4. ASSUME venv.marker # NoReqs
        PROVE  \E m \in 1 .. checkout :
                  /\ Requirements[m] = venv.marker
                  /\ \E n \in m .. checkout : Requirements[n] \notin {NoReqs, venv.marker}
    <2>1. PICK m \in 1 .. checkout : Requirements[m] = venv.marker
      BY <1>1, <1>4, AtWork DEF MarkerFits
    <2>2. checkout \in m .. checkout
      BY <1>2
    <2>3. QED
      BY <1>2, <1>3, <2>1, <2>2
  <1>5. QED
    BY <1>4 DEF MarkerFits

\* An interrupted python3 -m venv leaves a virtualenv of its kind.
LEMMA HalfCreatedFits ==
    ASSUME ProjectInv, NEW p \in Pullers, pc[p] = "creating", HalfCreated
    PROVE  VenvFits(venv') /\ venv'.marker = venv.marker
  <1>1. VenvFits(venv) /\ ~venv.python
    BY AtWork DEF PlaceFits, Working, Places
  <1>2. venv' = [venv EXCEPT !.python = TRUE] \/ venv' = [venv EXCEPT !.python = FALSE]
    BY DEF HalfCreated
  <1>3. ~venv.pip
    BY <1>1 DEF VenvFits
  <1>4. CASE venv' = [venv EXCEPT !.python = TRUE]
    BY <1>1, <1>3, <1>4 DEF VenvFits
  <1>5. CASE venv' = [venv EXCEPT !.python = FALSE]
    BY <1>1, <1>3, <1>5 DEF VenvFits
  <1>6. QED
    BY <1>2, <1>4, <1>5

\* And so does an interrupted pip.
LEMMA HalfInstalledFits ==
    ASSUME ProjectInv, NEW p \in Pullers, pc[p] \in {"creating", "installing"}, HalfInstalled
    PROVE  VenvFits(venv') /\ venv'.marker = venv.marker
  <1>1. VenvFits(venv) /\ Mixed \in Installable
    BY AtWork DEF Working, Places
  <1>2. QED
    BY <1>1 DEF HalfInstalled, VenvFits

\* python3 -m venv and pip, as far as they get.
LEMMA InstallMoves ==
    ASSUME ProjectInv, NEW p \in Pullers, pc[p] \in {"creating", "installing"},
           NEW place \in {"installing", "marking", "failed"}, Go(p, place),
           VenvFits(venv'), venv'.marker = venv.marker,
           place = "marking" => venv'.installed = Wanted(checkout),
           fails' \in 0 .. MaxFails,
           UNCHANGED <<remote, checkout, queue, before, asked, history, streak, lost, pulls>>
    PROVE  ProjectInv'
  <1>1. pc[p] \in Working /\ place \in Working
    BY DEF Working, Places
  <1>2. MarkerFits(venv', checkout)
    BY Remade
  <1>3. PlaceFits(place, asked[p], venv', checkout)
    BY <1>1, AtWork DEF PlaceFits
  <1>4. QED
    BY <1>1, <1>2, <1>3, WorkerMoves

\* They are done or fail.
LEMMA InstallInvariant ==
    ASSUME ProjectInv, NEW p \in Pullers,
           Created(p) \/ CreateFails(p) \/ Installed(p) \/ NoPip(p) \/ InstallFails(p)
    PROVE  ProjectInv'
  <1>1. pc[p] \in {"creating", "installing"} /\ pc[p] \in Working
    BY DEF Created, CreateFails, Installed, NoPip, InstallFails, Working, Places
  <1>2. /\ VenvFits(venv) /\ Wanted(checkout) \in Installable /\ Mixed \in Installable
        /\ fails \in 0 .. MaxFails /\ MaxFails \in Nat
        /\ pc[p] = "creating" => ~venv.python
    BY <1>1, AtWork DEF PlaceFits
  <1>3. CASE Created(p)
    <2>1. venv' = [venv EXCEPT !.python = TRUE, !.pip = TRUE]
      BY <1>3 DEF Created
    <2>2. VenvFits(venv') /\ venv'.marker = venv.marker
      BY <1>2, <2>1 DEF VenvFits
    <2>3. QED
      BY <1>2, <1>3, <2>2, InstallMoves DEF Created, record
  <1>4. CASE CreateFails(p)
    <2>1. VenvFits(venv') /\ venv'.marker = venv.marker
      BY <1>1, <1>4, HalfCreatedFits DEF CreateFails
    <2>2. QED
      BY <1>2, <1>4, <2>1, InstallMoves DEF CreateFails, record
  <1>5. CASE Installed(p)
    <2>1. venv' = [venv EXCEPT !.installed = Wanted(checkout)]
      BY <1>5 DEF Installed
    <2>2. VenvFits(venv') /\ venv'.marker = venv.marker /\ venv'.installed = Wanted(checkout)
      BY <1>2, <2>1 DEF VenvFits
    <2>3. QED
      BY <1>2, <1>5, <2>2, InstallMoves DEF Installed, record
  <1>6. CASE NoPip(p)
    BY <1>2, <1>6, InstallMoves DEF NoPip, record
  <1>7. CASE InstallFails(p)
    <2>1. VenvFits(venv') /\ venv'.marker = venv.marker
      BY <1>1, <1>7, HalfInstalledFits DEF InstallFails
    <2>2. QED
      BY <1>2, <1>7, <2>1, InstallMoves DEF InstallFails, record
  <1>8. QED
    BY <1>3, <1>4, <1>5, <1>6, <1>7

\* The marker is written after the install, or not.
LEMMA MarkInvariant ==
    ASSUME ProjectInv, NEW p \in Pullers, Marked(p) \/ MarkFails(p)
    PROVE  ProjectInv'
  <1>1. pc[p] = "marking" /\ pc[p] \in Working
    BY DEF Marked, MarkFails, Working, Places
  <1>2. venv.installed = Wanted(checkout) /\ Wanted(checkout) # NoReqs /\ asked[p] <= checkout
    BY <1>1, AtWork DEF PlaceFits
  <1>3. CASE Marked(p)
    <2>1. /\ Go(p, "pulled") /\ venv' = [venv EXCEPT !.marker = Wanted(checkout)]
          /\ UNCHANGED <<remote, checkout, queue, before, asked, history, streak, lost, fails,
                         pulls>>
      BY <1>3 DEF Marked, record
    <2>2. VenvFits(venv') /\ venv'.marker = Wanted(checkout) /\ venv'.installed = Wanted(checkout)
      BY <1>1, <1>2, <2>1, AtWork DEF VenvFits
    <2>3. checkout \in 1 .. checkout /\ Requirements[checkout] = Wanted(checkout)
      BY <1>1, <1>2, AtWork DEF Wanted
    <2>4. MarkerFits(venv', checkout)
      BY <2>2, <2>3 DEF MarkerFits
    <2>5. PlaceFits("pulled", asked[p], venv', checkout)
      BY <1>2, <2>2 DEF PlaceFits
    <2>6. "pulled" \in Working
      BY DEF Working, Places
    <2>7. QED
      BY <1>1, <2>1, <2>2, <2>4, <2>5, <2>6, AtWork, WorkerMoves
  <1>4. CASE MarkFails(p)
    <2>1. /\ Go(p, "failed") /\ fails < MaxFails /\ fails' = fails + 1
          /\ UNCHANGED <<remote, checkout, venv, queue, before, asked, history, streak, lost,
                         pulls>>
      BY <1>4 DEF MarkFails, record
    <2>2. "failed" \in Working /\ PlaceFits("failed", asked[p], venv, checkout)
      BY DEF Working, Places, PlaceFits
    <2>3. QED
      BY <1>1, <2>1, <2>2, AtWork, WorkerMoves
  <1>5. QED
    BY <1>3, <1>4

\* The run is written down and the lock goes.
LEMMA RecordInvariant ==
    ASSUME ProjectInv, NEW p \in Pullers, Record(p)
    PROVE  ProjectInv'
  <1> DEFINE R == [before : Revs, after : Revs, ok : BOOLEAN]
             n == Len(history)
             row == [before |-> before[p], after |-> checkout, ok |-> pc[p] = "pulled"]
  <1>1. /\ pc[p] \in {"pulled", "failed"} /\ Go(p, "idle") /\ Unlock(p)
        /\ history' = Append(history, row)
        /\ streak' = IF pc[p] = "pulled" THEN 0 ELSE streak + 1
        /\ UNCHANGED <<remote, checkout, venv, before, asked, lost, fails, pulls>>
    BY DEF Record
  <1>2. pc[p] \in Working /\ pc[p] # "idle"
    BY <1>1 DEF Working, Places
  <1>3. /\ pc' \in [Pullers -> Places] /\ pc'[p] = "idle"
        /\ \A q \in Pullers : q # p => pc'[q] = pc[q]
    BY <1>1 DEF Go, ProjectInv, Places
  <1>4. \A q \in Pullers : pc'[q] \notin Working
    BY <1>2, <1>3, OneWorks DEF Working
  <1>5. QueueFits'
    BY <1>1, <1>2, QueueShrinks
  <1>6. row \in R /\ row.before = before[p] /\ row.after = checkout /\ row.ok = (pc[p] = "pulled")
    BY <1>2, AtWork DEF ProjectInv
  <1>7. /\ history \in Seq(R) /\ n \in Nat /\ streak \in 0 .. n /\ DOMAIN history = 1 .. n
        /\ \A i \in 1 .. n : i > n - streak => ~history[i].ok
        /\ streak < n => history[n - streak].ok
    BY DEF ProjectInv, StreakFits
  <1>8. pc[p] = "pulled" => row.ok
    BY <1>6
  <1>9. pc[p] = "failed" => ~row.ok
    BY <1>6
  <1> HIDE DEF row, R
  <1>10. /\ history' \in Seq(R) /\ Len(history') = n + 1 /\ DOMAIN history' = 1 .. n + 1
         /\ history'[n + 1] = row /\ \A i \in 1 .. n : history'[i] = history[i]
    BY <1>1, <1>6, <1>7
  <1>11. StreakFits'
    <2>1. history' \in Seq([before : Revs, after : Revs, ok : BOOLEAN])
      BY <1>10 DEF R
    <2> HIDE DEF n
    <2>2. CASE pc[p] = "pulled"
      <3>1. streak' = 0
        BY <1>1, <2>2
      <3>2. \A i \in 1 .. n + 1 : ~(i > n + 1)
        BY <1>7
      <3>3. history'[n + 1 - 0].ok
        BY <1>7, <1>8, <1>10, <2>2
      <3>4. QED
        BY <1>7, <1>10, <2>1, <3>1, <3>2, <3>3 DEF StreakFits
    <2>3. CASE pc[p] = "failed"
      <3>1. streak' = streak + 1 /\ streak' \in 0 .. n + 1
        BY <1>1, <1>7, <2>3
      <3>2. ASSUME NEW i \in 1 .. n + 1, i > n + 1 - streak'
            PROVE  ~history'[i].ok
        <4>1. CASE i = n + 1
          BY <1>9, <1>10, <2>3, <4>1
        <4>2. CASE i # n + 1
          <5>1. i \in 1 .. n /\ i > n - streak
            BY <1>7, <3>1, <3>2, <4>2
          <5>2. QED
            BY <1>7, <1>10, <5>1
        <4>3. QED
          BY <4>1, <4>2
      <3>3. ASSUME streak' < n + 1
            PROVE  history'[n + 1 - streak'].ok
        <4>1. n - streak \in 1 .. n /\ n + 1 - streak' = n - streak /\ streak < n
          BY <1>7, <3>1, <3>3
        <4>2. QED
          BY <1>7, <1>10, <4>1
      <3>4. QED
        BY <1>7, <1>10, <2>1, <3>1, <3>2, <3>3 DEF StreakFits
    <2>4. QED
      BY <1>1, <2>2, <2>3
  <1>12. RowsFit'
    <2>1. /\ checkout \in Revs /\ checkout <= checkout
          /\ n # 0 => /\ history[n].after <= before[p]
                      /\ ~lost => history[n].after = before[p]
          /\ \A i \in 1 .. n - 1 : /\ history[i].after <= history[i + 1].before
                                   /\ ~lost => history[i].after = history[i + 1].before
      <3>1. n # 0 => history # <<>>
        BY <1>7
      <3>2. checkout \in Revs /\ checkout <= checkout
        BY <1>2, AtWork
      <3>3. QED
        BY <1>2, <3>1, <3>2 DEF ProjectInv, RowsFit
    <2> HIDE DEF n
    <2>2. ASSUME NEW i \in 1 .. n
          PROVE  /\ history'[i].after <= history'[i + 1].before
                 /\ ~lost => history'[i].after = history'[i + 1].before
      <3>1. CASE i = n
        BY <1>6, <1>7, <1>10, <2>1, <3>1
      <3>2. CASE i # n
        <4>1. i \in 1 .. n - 1 /\ i + 1 \in 1 .. n
          BY <1>7, <3>2
        <4>2. QED
          BY <1>10, <2>1, <4>1
      <3>3. QED
        BY <3>1, <3>2
    <2>3. Len(history') - 1 = n /\ history'[Len(history')].after = checkout
      BY <1>6, <1>7, <1>10
    <2>4. QED
      BY <1>1, <1>4, <2>1, <2>2, <2>3 DEF RowsFit
  <1>13. \A q \in Pullers : PlaceFits(pc'[q], asked[q], venv, checkout)
    BY <1>3 DEF ProjectInv, PlaceFits
  <1>14. QED
    BY <1>1, <1>3, <1>5, <1>11, <1>12, <1>13 DEF ProjectInv

\* A client leaves: from the line without a trace, from its work with what it
\* has done so far.
LEMMA LeaveInvariant ==
    ASSUME ProjectInv, NEW p \in Pullers, Leave(p)
    PROVE  ProjectInv'
  <1>1. /\ pc[p] # "idle" /\ fails < MaxFails /\ fails' = fails + 1
        /\ Go(p, "idle") /\ Unlock(p) /\ lost' = (lost \/ pc[p] # "queued")
        /\ UNCHANGED <<remote, before, asked, history, streak, pulls>>
    BY DEF Leave, record
  <1>2. /\ pc' \in [Pullers -> Places] /\ pc'[p] = "idle"
        /\ \A q \in Pullers : q # p => pc'[q] = pc[q]
    BY <1>1 DEF Go, ProjectInv, Places
  <1>3. QueueFits'
    BY <1>1, QueueShrinks
  <1>4. checkout' \in {checkout, remote} /\ (pc[p] # "git" => checkout' = checkout)
    BY DEF Leave, HalfPulled
  <1>5. /\ checkout \in 0 .. remote /\ remote \in 1 .. MaxRev /\ MaxRev \in Nat
        /\ checkout' \in 0 .. remote /\ checkout <= checkout' /\ checkout' \in Nat
    BY <1>4, ProjectPullAssumption DEF ProjectInv
  <1>6. VenvFits(venv') /\ MarkerFits(venv', checkout')
    <2>1. CASE pc[p] = "creating"
      <3>1. HalfCreated /\ checkout' = checkout
        BY <2>1 DEF Leave
      <3>2. VenvFits(venv') /\ venv'.marker = venv.marker
        BY <2>1, <3>1, HalfCreatedFits
      <3>3. QED
        BY <2>1, <3>1, <3>2, Remade
    <2>2. CASE pc[p] = "installing" /\ venv.pip
      <3>1. HalfInstalled /\ checkout' = checkout
        BY <2>2 DEF Leave
      <3>2. VenvFits(venv') /\ venv'.marker = venv.marker
        BY <2>2, <3>1, HalfInstalledFits
      <3>3. QED
        BY <2>2, <3>1, <3>2, Remade
    <2>3. CASE pc[p] # "creating" /\ ~(pc[p] = "installing" /\ venv.pip)
      <3>1. venv' = venv
        BY <2>3, Zenon DEF Leave
      <3>2. VenvFits(venv) /\ MarkerFits(venv, checkout) /\ checkout \in Nat
        BY <1>5 DEF ProjectInv
      <3>3. QED
        BY <1>5, <3>1, <3>2, MarkerStaysExplained
    <2>4. QED
      BY <2>1, <2>2, <2>3
  <1>7. RowsFit' /\ \A q \in Pullers : PlaceFits(pc'[q], asked[q], venv', checkout')
    <2>1. CASE pc[p] = "queued"
      <3>1. UNCHANGED <<checkout, venv>> /\ (lost' <=> lost)
        BY <1>1, <2>1 DEF Leave
      <3>2. \A q \in Pullers : pc'[q] \in Working <=> pc[q] \in Working
        BY <1>2, <2>1 DEF Working
      <3>3. RowsFit'
        BY <1>1, <3>1, <3>2 DEF ProjectInv, RowsFit
      <3>4. \A q \in Pullers : PlaceFits(pc'[q], asked[q], venv', checkout')
        BY <1>2, <3>1 DEF ProjectInv, PlaceFits
      <3>5. QED
        BY <3>3, <3>4
    <2>2. CASE pc[p] # "queued"
      <3>1. pc[p] \in Working
        BY <1>1, <2>2 DEF ProjectInv, Working
      <3>2. \A q \in Pullers : pc'[q] \notin Working
        BY <1>2, <3>1, OneWorks DEF Working
      <3>3. lost'
        BY <1>1, <2>2
      <3>4. \A i \in 1 .. Len(history) - 1 : history[i].after <= history[i + 1].before
        BY DEF ProjectInv, RowsFit
      <3>5. history # <<>> => history[Len(history)].after <= checkout'
        <4>1. history # <<>> => history[Len(history)].after \in Revs
                                /\ history[Len(history)].after <= checkout
          BY LastRow DEF ProjectInv, RowsFit
        <4>2. QED
          BY <1>5, <4>1 DEF Revs
      <3>6. RowsFit'
        BY <1>1, <3>2, <3>3, <3>4, <3>5 DEF RowsFit
      <3>7. \A q \in Pullers : PlaceFits(pc'[q], asked[q], venv', checkout')
        BY <3>2 DEF PlaceFits, Working, Places
      <3>8. QED
        BY <3>6, <3>7
    <2>3. QED
      BY <2>1, <2>2
  <1>8. fails' \in 0 .. MaxFails /\ lost' \in BOOLEAN
    BY <1>1, ProjectPullAssumption DEF ProjectInv
  <1>9. StreakFits'
    BY <1>1 DEF ProjectInv, StreakFits
  <1>10. QED
    BY <1>1, <1>2, <1>3, <1>5, <1>6, <1>7, <1>8, <1>9 DEF ProjectInv

\* The invariant holds in a new process.
LEMMA ProjectInitInvariant ==
    ASSUME Init
    PROVE  ProjectInv
  <1>1. /\ remote = 1 /\ checkout \in {0, 1} /\ queue = <<>> /\ history = <<>> /\ streak = 0
        /\ pc = [p \in Pullers |-> "idle"] /\ before = [p \in Pullers |-> 0]
        /\ asked = [p \in Pullers |-> 0] /\ lost = FALSE /\ fails = 0 /\ pulls = 0
    BY DEF Init
  <1>2. MaxRev \in Nat \ {0} /\ {0, 1} \subseteq Revs /\ MaxFails \in Nat /\ MaxPulls \in Nat
    BY ProjectPullAssumption DEF Revs
  <1>3. NoReqs \in Installable /\ Wanted(1) \in Installable /\ Wanted(1) # Mixed /\ Mixed # NoReqs
        /\ Wanted(1) = Requirements[1]
    BY <1>2, WantedIsInstallable, ProjectPullAssumption DEF Installable, Wanted
  <1>4. VenvFits(venv) /\ MarkerFits(venv, checkout)
    <2>1. CASE venv = [python |-> FALSE, pip |-> FALSE, installed |-> NoReqs, marker |-> NoReqs]
      BY <1>3, <2>1 DEF VenvFits, MarkerFits
    <2>2. CASE /\ checkout = 1
               /\ venv = [python |-> TRUE, pip |-> TRUE, installed |-> Wanted(1),
                          marker |-> Wanted(1)]
      BY <1>3, <2>2 DEF VenvFits, MarkerFits
    <2>3. QED
      BY <2>1, <2>2 DEF Init
  <1>5. QueueFits
    BY <1>1 DEF QueueFits
  <1>6. StreakFits
    BY <1>1 DEF StreakFits
  <1>7. RowsFit
    BY <1>1 DEF RowsFit, Working
  <1>8. \A p \in Pullers : PlaceFits(pc[p], asked[p], venv, checkout)
    BY <1>1 DEF PlaceFits
  <1>9. /\ pc \in [Pullers -> Places] /\ before \in [Pullers -> Revs]
        /\ asked \in [Pullers -> Revs] /\ \A p \in Pullers : asked[p] <= remote
    BY <1>1, <1>2 DEF Places
  <1>10. /\ remote \in 1 .. MaxRev /\ checkout \in 0 .. remote
         /\ fails \in 0 .. MaxFails /\ pulls \in 0 .. MaxPulls
    BY <1>1, <1>2
  <1>11. lost \in BOOLEAN
    BY <1>1
  <1>12. QED
    BY <1>4, <1>5, <1>6, <1>7, <1>8, <1>9, <1>10, <1>11 DEF ProjectInv

\* Every step keeps it.
LEMMA ProjectStepInvariant ==
    ASSUME ProjectInv, [Next]_projectVars
    PROVE  ProjectInv'
  <1>1. CASE UNCHANGED projectVars
    <2>1. UNCHANGED <<remote, checkout, venv, queue, pc, before, asked, history, streak, lost,
                      fails, pulls>>
      BY <1>1 DEF projectVars, run, record
    <2>2. QueueFits' /\ StreakFits' /\ RowsFit'
      BY <2>1 DEF ProjectInv, QueueFits, StreakFits, RowsFit
    <2>3. QED
      BY <2>1, <2>2 DEF ProjectInv
  <1>2. ASSUME NEW p \in Pullers, Start(p) \/ Step(p) \/ GitHangs(p) \/ Leave(p)
        PROVE  ProjectInv'
    BY <1>2, StartInvariant, LockInvariant, GitInvariant, VenvCheckedInvariant,
       InstallInvariant, MarkInvariant, RecordInvariant, LeaveInvariant DEF Step
  <1>3. QED
    BY <1>1, <1>2, PushInvariant DEF Next

\* The inductive invariant of sync_project: the line at the checkout's lock,
\* the commit each pull read first, the virtualenv and its marker.
THEOREM ProjectInvariant == Spec => []ProjectInv
  BY ProjectInitInvariant, ProjectStepInvariant, PTL DEF Spec

\* The rows of a project's history (sync_project's before and after, recorded
\* under the lock) are the moves of its checkout, one after another, with any
\* number of pulls queued, failing and timing out; a client that leaves is the
\* only cause of a gap.
THEOREM HistoriesExplainTheCheckout == Spec => []HistoryExplainsTheCheckout
  <1>1. ProjectInv => HistoryExplainsTheCheckout
    BY DEF ProjectInv, RowsFit, HistoryExplainsTheCheckout, Working
  <1>2. QED
    BY <1>1, ProjectInvariant, PTL

\* The state of pulls, history and virtualenv is of its type: the line holds
\* each pull once, only its head works, and the streak counts the failures at
\* the end of the history.
THEOREM ProjectTyping == Spec => []TypeOK
  <1>1. ProjectInv => TypeOK
    BY Zenon DEF ProjectInv, QueueFits, VenvFits, StreakFits, TypeOK, Places
  <1>2. QED
    BY <1>1, ProjectInvariant, PTL

\* A pull that reports success left the checkout at least where the branch was
\* when the pull was asked for and its requirements installed (PyVenv::ensure),
\* after any failures and departures before it, if requirements that a commit
\* replaced do not come back: the marker still names what an interrupted install
\* of others has overwritten, and they would count as installed.
THEOREM SuccessLeavesTheProjectReady ==
    ASSUME NeverReturns
    PROVE  Spec => SuccessMeansReady
  <1>1. ASSUME ProjectInv, NEW p \in Pullers, pc[p] = "pulled"
        PROVE  /\ checkout >= asked[p]
               /\ Wanted(checkout) \in {NoReqs, venv.installed}
    BY <1>1, AtWork DEF PlaceFits, Working, Places
  <1>2. ProjectInv =>
           [\A p \in Pullers :
              (pc[p] = "pulled" /\ pc'[p] = "idle" /\ history' # history) =>
                  /\ checkout >= asked[p]
                  /\ Wanted(checkout) \in {NoReqs, venv.installed}]_projectVars
    BY <1>1
  <1>3. QED
    BY <1>2, ProjectInvariant, PTL DEF SuccessMeansReady
=============================================================================
