------------------------------ MODULE SshHosts ------------------------------
(***************************************************************************)
(* What an ssh gather is made of before any host is dialled: the hosts and *)
(* the addresses to try for each (domain/source.rs and parse_hosts), the   *)
(* server keys it accepts (connectors/known_hosts.rs), the script or files *)
(* it runs and what their output amounts to (connectors/ssh.rs).  A gather *)
(* is a record: where its hosts come from, the scope, the known_hosts file,*)
(* its private key and its script.  Names and addresses are numbers, so    *)
(* that they sort.                                                         *)
(***************************************************************************)
EXTENDS Naturals, Sequences, FiniteSets

CONSTANTS None \* an absent value of any kind

Sorted(names) ==
    CHOOSE list \in [1 .. Cardinality(names) -> names] :
        \A m, n \in DOMAIN list : m < n => list[m] < list[n]

-----------------------------------------------------------------------------
(* Hosts and addresses.                                                    *)

\* MatchPattern: members of the groups and the hosts named; nothing is all.
\* A name that is nowhere in the dataset is dropped with a warning.
Picked(from, dataset) ==
    IF from.groups = {} /\ from.hosts = {}
    THEN DOMAIN dataset.hostvars
    ELSE LET members == UNION {dataset.groups[g] : g \in DOMAIN dataset.groups}
         IN  (UNION {dataset.groups[g] : g \in from.groups \cap DOMAIN dataset.groups})
             \cup (from.hosts \cap (DOMAIN dataset.hostvars \cup members))

\* ConnectVia: the addresses to try for a host, none when it has to have an
\* ansible_host and has not.  The same address twice is tried once.
Candidates(via, host, dataset) ==
    LET address == IF host \in DOMAIN dataset.hostvars THEN dataset.hostvars[host] ELSE None
        both(a, b) == IF a = b THEN <<a>> ELSE <<a, b>>
    IN  CASE via = "hostname" -> <<host>>
          [] via = "ansible_host" -> IF address = None THEN <<>> ELSE <<address>>
          [] address = None -> <<host>>
          [] via = "ansible_host_then_hostname" -> both(address, host)
          [] via = "hostname_then_ansible_host" -> both(host, address)

\* HostsFromSource::resolve, of the dataset cached for the other source.
Resolve(from, dataset) ==
    LET kept == {h \in Picked(from, dataset) : Candidates(from.via, h, dataset) # <<>>}
        order == Sorted(kept)
    IN  [i \in DOMAIN order |->
            [name |-> order[i], addresses |-> Candidates(from.via, order[i], dataset)]]

\* parse_hosts: a list in the settings is dialled by name.  No hosts at all,
\* like a source that is not cached yet, is <<>> and fails the sync.
HostSpecs(gather) ==
    CASE gather.hosts.kind = "list" ->
            [i \in DOMAIN gather.hosts.names |->
                [name |-> gather.hosts.names[i], addresses |-> <<gather.hosts.names[i]>>]]
      [] gather.hosts.kind = "source" /\ gather.hosts.entry = None -> <<>>
      [] OTHER -> Resolve(gather.hosts.from, gather.hosts.entry)

\* narrow_to_scope: only a host scope narrows; a group scope gathers all.
InScope(gather) ==
    LET specs == HostSpecs(gather)
        kept == Sorted({i \in DOMAIN specs : specs[i].name \in gather.scope.target})
    IN  IF gather.scope.kind # "host" THEN specs ELSE [n \in DOMAIN kept |-> specs[kept[n]]]

-----------------------------------------------------------------------------
(* Server keys.                                                            *)

\* KnownHosts::parse: comments, markers and lines that do not read are
\* skipped; a marker's key is therefore not recorded.
KeyEntries(lines) == {lines[i] : i \in {j \in DOMAIN lines : lines[j].kind = "entry"}}

\* KnownHosts::check: the entries of this name at this port, plain or hashed
\* (pattern_matches), say known, changed or unknown.
CheckKey(lines, address, port, key) ==
    LET recorded == {e.key : e \in {f \in KeyEntries(lines) : <<address, port>> \in f.names}}
    IN  IF recorded = {} THEN "unknown"
        ELSE IF key \in recorded THEN "known" ELSE "changed"

\* check_server_key: without a file any key will do; with one a certificate
\* is refused whole and a plain key must be known.
KeyAccepted(gather, address, offered) ==
    gather.known # None =>
        /\ offered.kind = "plain"
        /\ CheckKey(gather.known.lines, address, gather.port, offered.key) = "known"

\* rsa_hash_candidates: the signatures to try, given what the server said.
\* Keys that are not RSA have no hash to negotiate.
Signatures(gather, negotiated) ==
    CASE gather.key # "rsa" -> <<"plain">>
      [] negotiated = None -> <<"sha256", "sha1">>
      [] OTHER -> <<negotiated>>

-----------------------------------------------------------------------------
(* What is run, and what it printed.                                       *)

DropWhileFlag(words) ==
    LET named == {i \in DOMAIN words : words[i] # "flag"}
    IN  IF named = {} THEN <<>>
        ELSE SubSeq(words, CHOOSE i \in named : \A j \in named : i <= j, Len(words))

\* interpreter: the program and flags after `#!`, env and its options skipped.
Interpreter(line) == IF line # <<>> /\ Head(line) = "env" THEN DropWhileFlag(Tail(line)) ELSE line

\* stream_command and plan: the script must be readable, and a `#!` line must
\* name a program in plain words.  Files on the hosts are not looked at here.
PlanFails(script) ==
    CASE script.location = "host" -> FALSE
      [] script.location = "instance" /\ ~script.readable -> TRUE
      [] script.line = None -> FALSE
      [] OTHER -> Interpreter(script.line) = <<>>
                  \/ \E i \in DOMAIN Interpreter(script.line) : Interpreter(script.line)[i] = "odd"

Streamed(script) == script.location # "host"

\* execute, up to the fan-out: everything that fails the sync as a whole.
Refused(gather) ==
    \/ InScope(gather) = <<>>
    \/ PlanFails(gather.script)
    \/ gather.known # None /\ ~gather.known.readable
    \/ gather.key \in {"missing", "unreadable", "undecodable"}

\* The command that receives a streamed script compares its size with what
\* was sent, and runs it only whole.
RemoteRuns(arrived, sent) == arrived = sent

\* finish_host_output: only a status other than zero is a failure.
HostFailed(status) == status # None /\ status # 0

\* parse_host_output and parse_facts_output: the names of the variables.  An
\* output that is no JSON is kept raw; a facts file that is neither JSON nor
\* INI becomes an error under its own name, and one without a name is skipped.
Variables(script, output) ==
    CASE script.location = "host" -> output.names \ {None}
      [] output.json -> output.names
      [] OTHER -> {"raw_output", "parse_error"}
=============================================================================
