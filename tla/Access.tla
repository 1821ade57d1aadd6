------------------------------- MODULE Access -------------------------------
(***************************************************************************)
(* How a process adopts a configuration and who may use it meanwhile       *)
(* (main.rs, http/config.rs, application/config.rs, http/auth.rs,          *)
(* http/login.rs).  A directory is validated, committed to disk and, when  *)
(* asked, applied: the secrets chain, the configuration, the directory's   *)
(* sessions, the keys needing a restart, the generation and the API keys   *)
(* are replaced one after another while requests and logins go on.         *)
(*                                                                         *)
(* Sessions, the login form and the order validate, commit, apply are      *)
(* those of auth-rs and web-rs, which run one write at a time; a session   *)
(* holds the permissions of its login.  What a reload does to the caches   *)
(* and tasks is in TaskGenerations, to the refresh budget in RefreshLimiter.*)
(***************************************************************************)
EXTENDS Configuration

CONSTANTS
    Directories,  \* the directories someone may push or put on the disk
    ByHand,       \* those put there by hand, past the validation
    Variables,    \* the keys whose variable is set in the process's environment
    MaxLogins,    \* bound: logins in flight or open at a time
    MaxReloads    \* bound: reloads of one process

ASSUME AccessAssumption == None \notin Directories /\ \A dir \in Directories : Shaped(dir)

VARIABLES
    disk,       \* the configuration directory
    adopted,    \* the configuration in force, None while the process is down
    chain,      \* the configuration the secrets chain was built from
    keys,       \* the API keys in force, by id
    built,      \* the configuration the process was built from
    pending,    \* restart_pending: restart-only keys a reload could not adopt
    generation, \* of the tasks
    reload,     \* the reload being applied: [next, previous, todo]
    logins,     \* logins waiting for their answer
    sessions    \* open browser sessions

vars == <<disk, adopted, chain, keys, built, pending, generation, reload, logins, sessions>>

-----------------------------------------------------------------------------
(* Keys and grants.                                                        *)

Admin == [admin |-> TRUE, sources |-> {}, endpoints |-> {}]
Scoped(sources, endpoints) == [admin |-> FALSE, sources |-> sources, endpoints |-> endpoints]

\* resolve_api_keys: each key's variable has to be set.
KeysResolve(dir) == Ids(dir, "api_keys") \subseteq Variables
KeysOf(dir) ==
    [id \in Ids(dir, "api_keys") |->
        LET k == Items(dir, "api_keys")[id]
        IN  IF k.role = "admin" THEN Admin ELSE Scoped(k.sources, k.endpoints)]

LdapRequiresKeys(dir) == dir.server.ldap # None => Ids(dir, "api_keys") # {}

\* grant_for: what the rules naming a person add up to.
GrantFor(rules, naming) ==
    IF \E i \in naming : rules[i].admin THEN Admin
    ELSE Scoped(UNION {rules[i].sources : i \in naming}, UNION {rules[i].endpoints : i \in naming})

RestartOnly(dir) == [ui |-> dir.server.ui, assets |-> dir.server.assets]
ChangedKeys(was, now) == {key \in DOMAIN was : was[key] # now[key]}

-----------------------------------------------------------------------------
(* Boot, and putting a directory in place.                                 *)

Loadable == {dir \in Directories : Loads(dir)}

Idle == [next |-> None, previous |-> None, todo |-> <<>>]

Boots(dir) == dir \in Loadable /\ KeysResolve(dir) /\ LdapRequiresKeys(dir)

Builds(dir) ==
    /\ adopted' = dir /\ chain' = dir /\ built' = dir
    /\ keys' = KeysOf(dir)
    /\ pending' = {} /\ generation' = 0
    /\ reload' = Idle /\ logins' = {} /\ sessions' = {}
    /\ UNCHANGED disk

AccessInit ==
    /\ disk \in {dir \in ByHand : Boots(dir)}
    /\ adopted = disk /\ chain = disk /\ built = disk
    /\ keys = KeysOf(disk)
    /\ pending = {} /\ generation = 0
    /\ reload = Idle /\ logins = {} /\ sessions = {}

Restart == Boots(disk) /\ Builds(disk)

\* A start that fails leaves the process down.
RestartFails ==
    /\ ~Boots(disk)
    /\ adopted' = None /\ chain' = None /\ built' = None
    /\ keys' = <<>> /\ pending' = {} /\ generation' = 0
    /\ reload' = Idle /\ logins' = {} /\ sessions' = {}
    /\ UNCHANGED disk

EditByHand(dir) == disk' = dir /\ UNCHANGED <<adopted, chain, keys, built, pending, generation, reload, logins, sessions>>

\* keys_for: authentication is not turned off under a running process.
Prepared(dir) ==
    /\ KeysResolve(dir) /\ LdapRequiresKeys(dir)
    /\ DOMAIN KeysOf(dir) # {} \/ DOMAIN keys = {}

\* Faulty variant: the configuration is in force before the chain that
\* resolves its credentials.
ApplyOrder_ConfigFirst == <<"config", "secrets", "directory sessions", "pending", "generation", "keys", "key sessions">>

\* What apply does and then swap_keys, in order.
ApplyOrder == <<"secrets", "config", "directory sessions", "pending", "generation", "keys", "key sessions">>

Apply(dir) ==
    /\ Prepared(dir) /\ generation < MaxReloads
    /\ reload' = [next |-> dir, previous |-> adopted, todo |-> ApplyOrder]
    /\ logins' = {[l EXCEPT !.overlaps = TRUE] : l \in logins}
    /\ UNCHANGED <<adopted, chain, keys, built, pending, generation, sessions>>

Running == adopted # None /\ reload = Idle

\* PUT /config: staged, loaded, committed, and applied when asked to.
Put(dir) ==
    /\ Running /\ dir \in Loadable
    /\ disk' = dir
    /\ \/ UNCHANGED <<adopted, chain, keys, built, pending, generation, reload, logins, sessions>>
       \/ Apply(dir)

\* POST /config/reload
Reload == Running /\ disk \in Loadable /\ Apply(disk) /\ UNCHANGED disk

-----------------------------------------------------------------------------
(* Applying it.                                                            *)

Next1(step) ==
    /\ reload.todo # <<>> /\ Head(reload.todo) = step
    /\ reload' = IF Len(reload.todo) = 1 THEN Idle ELSE [reload EXCEPT !.todo = Tail(@)]

ReplaceSecrets ==
    /\ Next1("secrets") /\ chain' = reload.next
    /\ UNCHANGED <<disk, adopted, keys, built, pending, generation, logins, sessions>>

SwapConfig ==
    /\ Next1("config") /\ adopted' = reload.next
    /\ UNCHANGED <<disk, chain, keys, built, pending, generation, logins, sessions>>

Ldap(dir) == dir.server.ldap

\* Faulty variant: only turning the directory off ends its sessions.
EndDirectorySessions_TurnedOff ==
    /\ Next1("directory sessions")
    /\ sessions' = IF Ldap(reload.previous) # None /\ Ldap(reload.next) = None
                   THEN {s \in sessions : s.method = "key"} ELSE sessions
    /\ UNCHANGED <<disk, adopted, chain, keys, built, pending, generation, logins>>

EndDirectorySessions ==
    /\ Next1("directory sessions")
    /\ sessions' = IF Ldap(reload.previous) # Ldap(reload.next)
                   THEN {s \in sessions : s.method = "key"} ELSE sessions
    /\ UNCHANGED <<disk, adopted, chain, keys, built, pending, generation, logins>>

SetPending ==
    /\ Next1("pending") /\ pending' = ChangedKeys(RestartOnly(built), RestartOnly(reload.next))
    /\ UNCHANGED <<disk, adopted, chain, keys, built, generation, logins, sessions>>

Bump ==
    /\ Next1("generation") /\ generation' = generation + 1
    /\ UNCHANGED <<disk, adopted, chain, keys, built, pending, logins, sessions>>

ReplaceKeys ==
    /\ Next1("keys") /\ keys' = KeysOf(reload.next)
    /\ UNCHANGED <<disk, adopted, chain, built, pending, generation, logins, sessions>>

RetainKeys ==
    /\ Next1("key sessions")
    /\ sessions' = {s \in sessions : s.method = "key" => s.right \in DOMAIN keys}
    /\ UNCHANGED <<disk, adopted, chain, keys, built, pending, generation, logins>>

-----------------------------------------------------------------------------
(* Logins and sessions.                                                    *)

Room == Cardinality(logins) + Cardinality(sessions) < MaxLogins
Overlapping == reload # Idle

\* A password, or a key, is checked against what is in force when it arrives;
\* the answer, and so the session, comes later.
Login(login) ==
    /\ adopted # None /\ built.server.ui /\ Room
    /\ logins' = logins \cup {login}
    /\ UNCHANGED <<disk, adopted, chain, keys, built, pending, generation, reload, sessions>>

LoginByKey(id) ==
    id \in DOMAIN keys
    /\ Login([method |-> "key", right |-> id, grants |-> keys[id], overlaps |-> Overlapping])

\* The rules that name someone are found by the directory (external).
LoginByDirectory ==
    /\ adopted # None /\ Ldap(adopted) # None
    /\ \E naming \in SUBSET DOMAIN Ldap(adopted).access \ {{}} :
          Login([method |-> "directory", right |-> Ldap(adopted),
                 grants |-> GrantFor(Ldap(adopted).access, naming), overlaps |-> Overlapping])

SessionOpens(login) ==
    /\ logins' = logins \ {login} /\ sessions' = sessions \cup {login}
    /\ UNCHANGED <<disk, adopted, chain, keys, built, pending, generation, reload>>

\* A wrong password, a throttled account, a directory that is away.
LoginFails(login) ==
    /\ logins' = logins \ {login}
    /\ UNCHANGED <<disk, adopted, chain, keys, built, pending, generation, reload, sessions>>

\* Logout, or the end of its time.
SessionEnds(session) ==
    /\ sessions' = sessions \ {session}
    /\ UNCHANGED <<disk, adopted, chain, keys, built, pending, generation, reload, logins>>

AccessNext ==
    \/ Restart \/ RestartFails \/ Reload
    \/ \E dir \in ByHand : EditByHand(dir)
    \/ \E dir \in Directories : Put(dir)
    \/ ReplaceSecrets \/ SwapConfig \/ EndDirectorySessions \/ SetPending
    \/ Bump \/ ReplaceKeys \/ RetainKeys
    \/ \E id \in DOMAIN keys : LoginByKey(id)
    \/ LoginByDirectory
    \/ \E login \in logins : SessionOpens(login) \/ LoginFails(login)
    \/ \E session \in sessions : SessionEnds(session)

AccessSpec == AccessInit /\ [][AccessNext]_vars

-----------------------------------------------------------------------------
(* Properties.                                                             *)

Sound == {dir \in Directories : Runs(dir) /\ GrantsExist(dir)}

\* Whatever is pushed, or put on the disk and reloaded, the configuration in
\* force is one the process can run: every lookup by name finds what it
\* expects, and every grant names something there is.
InForceRuns == adopted # None => adopted \in Sound

\* A credential that a source, a project or the directory login in force
\* needs can be read from the chain in force, also between two steps of a
\* reload, unless that very reload is about to take away its user.
CredentialsComeFirst ==
    adopted # None =>
        \A id \in Needed(adopted) :
            \/ CanRead(chain, id)
            \/ reload # Idle /\ id \notin Needed(reload.next)

\* So whatever is in force can run, credentials included, at any moment of a
\* reload.
WhatIsInForceRuns == InForceRuns /\ CredentialsComeFirst

\* Once a reload is through, a session whose key is gone or whose directory
\* rules changed is one that was still being opened while the reload ran; the
\* directory is a way in only where keys close the API, and an API open to
\* all was so from its boot; what waits for a restart is named.
SessionsFollowTheRules ==
    (adopted # None /\ reload = Idle) =>
        /\ \A s \in sessions :
              \/ s.overlaps
              \/ s.method = "key" /\ s.right \in DOMAIN keys
              \/ s.method = "directory" /\ s.right = Ldap(adopted)
        /\ Ldap(adopted) # None => DOMAIN keys # {}
        /\ DOMAIN keys = {} => Ids(built, "api_keys") = {}
        /\ pending = ChangedKeys(RestartOnly(built), RestartOnly(adopted))

\* A source that gathers from another's hosts waits for its data.  The
\* validation refuses one that waits for itself ("cannot use itself") and
\* accepts two that wait for each other.  README, section 5.
EveryGatherHasARoot ==
    adopted # None =>
        LET sources == Items(adopted, "sources")
            waits == {id \in DOMAIN sources : sources[id].hosts_from # None}
        IN  \A loop \in SUBSET waits \ {{}} : \E id \in loop : sources[id].hosts_from \notin loop

\* "changed rules end the LDAP sessions and the next login is judged by the new
\* ones" (docs/ldap-login.md), "a reload is how a key is revoked": a login that
\* was waiting for its answer outlives both.  README, section 5.
NoSessionOutlivesItsRules ==
    (adopted # None /\ reload = Idle) =>
        \A s \in sessions :
            IF s.method = "key" THEN s.right \in DOMAIN keys ELSE s.right = Ldap(adopted)

\* A key that keeps its name and loses a source leaves its open sessions with
\* what it granted when they were opened.  README, section 5.
SessionsGrantWhatKeysDo ==
    (adopted # None /\ reload = Idle) =>
        \A s \in sessions :
            s.method = "key" /\ s.right \in DOMAIN keys => s.grants = keys[s.right]
=============================================================================
