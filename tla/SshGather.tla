------------------------------ MODULE SshGather ------------------------------
(***************************************************************************)
(* One gather of an ssh source (connectors/ssh.rs): a task per host takes  *)
(* one of `concurrency` permits, tries the host's addresses in order with  *)
(* a timeout around each, checks the server's key, logs in, runs the       *)
(* command and reports.  The source's own timeout drops the whole gather.  *)
(* Servers do whatever servers do: each step may succeed, fail or hang.    *)
(***************************************************************************)
EXTENDS SshHosts

CONSTANTS
    Gathers,  \* the gathers to be considered
    Offers,   \* keys a server may offer: [kind, key]
    Outputs,  \* what a command may print: [json, names]
    Size      \* of a streamed script, in pieces that arrive or do not

\* A dataset names finitely many hosts.
IsDataset(entry) ==
    LET named == DOMAIN entry.hostvars \cup UNION {entry.groups[g] : g \in DOMAIN entry.groups}
    IN  named \subseteq Nat /\ IsFiniteSet(named)

ASSUME SshGatherAssumption ==
    /\ Size \in Nat \ {0}
    /\ None \notin Gathers /\ \A g \in Gathers : g.concurrency \in Nat
    /\ \A g \in Gathers :
          \/ g.hosts.kind = "list" /\ g.hosts.names \in Seq(Nat)
          \/ g.hosts.kind = "source" /\ (g.hosts.entry # None => IsDataset(g.hosts.entry))

VARIABLES
    gather,   \* this gather's settings
    phase,    \* "ready", "gathering", "done" or "unused"
    task,     \* of each host: [at, attempt]
    permits,  \* of the semaphore of the fan-out
    results,  \* what the tasks returned, in order of completion
    outcome,  \* what execute returned, None before
    runs      \* history: scripts and files run on hosts

sshVars == <<gather, phase, task, permits, results, outcome, runs>>

Specs == InScope(gather)
TaskIds == DOMAIN task
Live == {i \in TaskIds : task[i].at \in {"dialling", "connected", "sending", "running"}}
AddressOf(i) == Specs[i].addresses[task[i].attempt]

SshInit ==
    /\ gather \in Gathers
    /\ phase = "ready"
    /\ task = <<>>
    /\ permits = 0
    /\ results = <<>>
    /\ outcome = None
    /\ runs = {}

SshUnused ==
    /\ gather = None
    /\ phase = "unused"
    /\ task = <<>>
    /\ permits = 0
    /\ results = <<>>
    /\ outcome = None
    /\ runs = {}

Start ==
    /\ phase = "ready"
    /\ IF Refused(gather)
       THEN /\ phase' = "done"
            /\ outcome' = [kind |-> "failed"]
            /\ UNCHANGED <<task, permits>>
       ELSE /\ phase' = "gathering"
            /\ task' = [i \in DOMAIN Specs |-> [at |-> "queued", attempt |-> 1]]
            /\ permits' = gather.concurrency
            /\ UNCHANGED outcome
    /\ UNCHANGED <<gather, results, runs>>

-----------------------------------------------------------------------------
(* The end of a task and of the gather.                                    *)

\* A group over exactly the hosts that report a variable, named after it,
\* next to (or in place of) the one over all that answered, where a host that
\* was listed twice is twice.  Members sorted: the tasks end in any order.
GroupsOf(hostvars, reachable) ==
    LET keys == UNION {hostvars[h] : h \in DOMAIN hostvars}
    IN  [k \in keys \cup {"ssh_gathered"} |->
            IF k \in keys THEN Sorted({h \in DOMAIN hostvars : k \in hostvars[h]})
            ELSE reachable]

\* The hosts of the results in `some`, sorted.
HostsInOrder(all, some) ==
    LET before(i, j) == \/ all[i].host < all[j].host
                        \/ all[i].host = all[j].host /\ i < j
        order == CHOOSE list \in [1 .. Cardinality(some) -> some] :
                    \A m, n \in DOMAIN list : m < n => before(list[m], list[n])
    IN  [n \in DOMAIN order |-> all[order[n]].host]

\* Of a host listed twice the later answer.
HostVars(all, answered) ==
    LET last(h) == CHOOSE i \in answered :
                      all[i].host = h /\ \A j \in answered : all[j].host = h => j <= i
    IN  [h \in {all[i].host : i \in answered} |-> all[last(h)].vars]

Of(all, what) == {i \in DOMAIN all : all[i].kind = what}

\* Faulty variant: a host that has answered nothing is in no list.
Collected_NoFailures(all) ==
    LET hostvars == HostVars(all, Of(all, "answer"))
    IN  [kind |-> "gathered", hostvars |-> hostvars,
         groups |-> GroupsOf(hostvars, HostsInOrder(all, Of(all, "answer"))), unreachable |-> {}]

\* What the loop over join_next makes of all results; a task that panicked is
\* only logged.
Collected(all) ==
    LET hostvars == HostVars(all, Of(all, "answer"))
    IN  [kind |-> "gathered", hostvars |-> hostvars,
         groups |-> GroupsOf(hostvars, HostsInOrder(all, Of(all, "answer"))),
         unreachable |-> {all[i].host : i \in Of(all, "failure")}]

\* A task returns: its permit is free, and with the last one so does execute.
Ends(i, result) ==
    /\ task' = [task EXCEPT ![i].at = "joined"]
    /\ permits' = permits + 1
    /\ results' = Append(results, result)
    /\ IF \A j \in TaskIds \ {i} : task[j].at = "joined"
       THEN phase' = "done" /\ outcome' = Collected(results')
       ELSE UNCHANGED <<phase, outcome>>
    /\ UNCHANGED gather

Failure(i) == [kind |-> "failure", host |-> Specs[i].name]
TaskMoves(i, at) ==
    /\ task' = [task EXCEPT ![i].at = at]
    /\ UNCHANGED <<gather, phase, permits, results, outcome>>

Run(i, whole) == [task |-> i, attempt |-> task[i].attempt, key |-> task[i].key, whole |-> whole]

\* What the host runs when the session is cut while the script is sent.
RunsWhenCut(i) ==
    IF task[i].at # "sending" THEN {}
    ELSE {Run(i, FALSE) : arrived \in {n \in 0 .. Size - 1 : RemoteRuns(n, Size)}}

-----------------------------------------------------------------------------
(* One host.                                                               *)

Acquire(i) ==
    /\ task[i].at = "queued" /\ permits > 0
    /\ permits' = permits - 1
    /\ task' = [task EXCEPT ![i].at = "dialling"]
    /\ UNCHANGED <<gather, phase, results, outcome, runs>>

\* A connection that fails, or takes too long, leaves this address.
NextAddress(i) ==
    IF task[i].attempt < Len(Specs[i].addresses)
    THEN /\ task' = [task EXCEPT ![i] = [at |-> "dialling", attempt |-> @.attempt + 1]]
         /\ UNCHANGED <<gather, phase, permits, results, outcome>>
    ELSE Ends(i, Failure(i))

NothingThere(i) ==
    /\ task[i].at = "dialling"
    /\ NextAddress(i)
    /\ UNCHANGED runs

\* The server's key decides, before authentication; a refusal is final.
Connect(i) ==
    /\ task[i].at = "dialling"
    /\ \E offered \in Offers :
          IF KeyAccepted(gather, AddressOf(i), offered)
          THEN /\ task' = [task EXCEPT ![i] =
                     [at |-> "connected", attempt |-> @.attempt, key |-> offered]]
               /\ UNCHANGED <<gather, phase, permits, results, outcome>>
          ELSE Ends(i, Failure(i))
    /\ UNCHANGED runs

\* Logged in with the first signature the server takes, and the command runs;
\* a streamed script has yet to be sent.
LogIn(i) ==
    /\ task[i].at = "connected"
    /\ \E negotiated \in {None, "sha256", "sha1"}, taken \in SUBSET {"plain", "sha256", "sha1"} :
          IF \E n \in DOMAIN Signatures(gather, negotiated) : Signatures(gather, negotiated)[n] \in taken
          THEN IF Streamed(gather.script)
               THEN TaskMoves(i, "sending") /\ UNCHANGED runs
               ELSE TaskMoves(i, "running") /\ runs' = runs \cup {Run(i, TRUE)}
          ELSE Ends(i, Failure(i)) /\ UNCHANGED runs

\* The whole script has arrived.
Sent(i) ==
    /\ task[i].at = "sending"
    /\ TaskMoves(i, "running")
    /\ runs' = runs \cup {Run(i, whole) : whole \in {w \in {TRUE} : RemoteRuns(Size, Size)}}

\* The channel has closed: what was printed, and the status if one came.
Finish(i) ==
    /\ task[i].at = "running"
    /\ \E status \in {None, 0, 1}, output \in Outputs :
          Ends(i, IF HostFailed(status) THEN Failure(i)
                  ELSE [kind |-> "answer", host |-> Specs[i].name,
                        vars |-> Variables(gather.script, output)])
    /\ UNCHANGED runs

\* After the connection an error is final: the same server would answer.
SessionFails(i) ==
    /\ task[i].at \in {"connected", "sending", "running"}
    /\ Ends(i, Failure(i))
    /\ runs' = runs \cup RunsWhenCut(i)

\* The timeout is around all of execute_on_host, the command included.
AddressTimesOut(i) ==
    /\ i \in Live
    /\ NextAddress(i)
    /\ runs' = runs \cup RunsWhenCut(i)

Panic(i) ==
    /\ i \in Live
    /\ Ends(i, [kind |-> "panic", host |-> Specs[i].name])
    /\ runs' = runs \cup RunsWhenCut(i)

\* Faulty variant: the tasks are detached and go on by themselves.
SourceTimesOut_Detached ==
    /\ phase = "gathering"
    /\ phase' = "done"
    /\ outcome' = [kind |-> "failed"]
    /\ UNCHANGED <<gather, task, permits, results, runs>>

\* timeout_seconds drops the gather, its JoinSet and every session with it.
SourceTimesOut ==
    /\ phase = "gathering"
    /\ phase' = "done"
    /\ outcome' = [kind |-> "failed"]
    /\ runs' = runs \cup UNION {RunsWhenCut(i) : i \in TaskIds}
    /\ task' = [i \in TaskIds |-> [task[i] EXCEPT !.at = "joined"]]
    /\ UNCHANGED <<gather, permits, results>>

HostStep(i) ==
    \/ Acquire(i) \/ NothingThere(i) \/ Connect(i) \/ LogIn(i) \/ Sent(i)
    \/ Finish(i) \/ SessionFails(i) \/ AddressTimesOut(i) \/ Panic(i)

SshNext == Start \/ SourceTimesOut \/ \E i \in TaskIds : HostStep(i)

\* The runtime starts the gather, hands permits out and fires the timers; no
\* server has to answer, and the source's timeout is not counted on.
SshFairness ==
    /\ WF_sshVars(Start)
    /\ \A i \in 1 .. 3 : WF_sshVars(i \in TaskIds /\ Acquire(i))
                         /\ WF_sshVars(i \in TaskIds /\ AddressTimesOut(i))

-----------------------------------------------------------------------------

HostsAsked == {Specs[i].name : i \in DOMAIN Specs}
Panicked == {results[i].host : i \in {j \in DOMAIN results : results[j].kind = "panic"}}

\* The list of unreachable hosts is what keeps their last data (ssh.rs:367):
\* when a gather has answered, every host it was asked for has either brought
\* its variables or is listed, but for a task that panicked, and never both
\* unless the settings name it twice.
EveryHostIsAccountedFor ==
    phase = "done" /\ outcome.kind = "gathered" =>
        LET gathered == DOMAIN outcome.hostvars
        IN  /\ gathered \cup outcome.unreachable \cup Panicked = HostsAsked
            /\ \A h \in gathered \cap outcome.unreachable :
                  \E i, j \in DOMAIN Specs : i # j /\ Specs[i].name = h /\ Specs[j].name = h

\* A scoped gather asks nobody else, and the groups are those of the answers,
\* in an order that does not depend on who answered first: a changed order
\* would be a changed ETag (ssh.rs:307).
GroupsAreOfTheAnswers ==
    phase = "done" /\ outcome.kind = "gathered" =>
        /\ gather.scope.kind = "host" => HostsAsked \subseteq gather.scope.target
        /\ \A k \in DOMAIN outcome.groups :
              LET members == outcome.groups[k]
                  has(h) == \E n \in DOMAIN members : members[n] = h
                  reported == \E h \in DOMAIN outcome.hostvars : k \in outcome.hostvars[h]
              IN  /\ \A a, b \in DOMAIN members : a < b => members[a] <= members[b]
                  /\ reported =>
                        /\ \A a, b \in DOMAIN members : a < b => members[a] < members[b]
                        /\ \A h \in DOMAIN outcome.hostvars : k \in outcome.hostvars[h] <=> has(h)
                  /\ ~reported =>
                        k = "ssh_gathered" /\ \A h \in DOMAIN outcome.hostvars : has(h)

GatherAccountsForEveryHost == EveryHostIsAccountedFor /\ GroupsAreOfTheAnswers

\* With a known_hosts file, what runs on a host runs behind a key that the
\* file records for the address dialled, whichever address that was
\* (ssh.rs:50), and what runs there is all of the script (ssh.rs:602).
NothingRunsUnverified ==
    \A r \in runs :
        /\ r.whole
        /\ gather.known # None =>
              /\ r.key.kind = "plain"
              /\ \E n \in DOMAIN gather.known.lines :
                    LET line == gather.known.lines[n]
                    IN  /\ line.kind = "entry" /\ line.key = r.key.key
                        /\ <<Specs[r.task].addresses[r.attempt], gather.port>> \in line.names

\* No more sessions than `concurrency`, and none once the sync is over, also
\* when its timeout ended it (ssh.rs:217).
NoSessionOutlivesTheGather ==
    /\ Cardinality(Live) <= (IF gather = None THEN 0 ELSE gather.concurrency)
    /\ phase # "gathering" => Live = {}

\* Servers that hang, one address after another, cost their own timeouts: with
\* at least one permit the gather ends without the source's timeout.
GathersEnd == phase = "ready" /\ gather.concurrency > 0 ~> phase = "done"

\* ssh.rs:239: "anything after the TCP connect (auth, exec) does not" move on
\* to the next address.  The code's timeout covers the command too, so a slow
\* script is run again through the next address.
NoSecondRun == \A r, s \in runs : r.task = s.task => r = s
=============================================================================
