----------------------------- MODULE MCGathering -----------------------------
(***************************************************************************)
(* Gathers of two hosts, listed or taken from another source, with and     *)
(* without a known_hosts file, and scripts that read and print in every    *)
(* order that matters to the pipes.                                        *)
(***************************************************************************)
EXTENDS Gathering, TLC

Full == [kind |-> "full", target |-> {}]
Listed(names) == [kind |-> "list", names |-> names]

\* Host 1 has the address 11, host 2 none; 3 is a member of a group only.
Inventory == [hostvars |-> (1 :> 11 @@ 2 :> None), groups |-> [web |-> {1, 3}]]
Other(entry, groups, hosts, via) ==
    [kind |-> "source", entry |-> entry, from |-> [groups |-> groups, hosts |-> hosts, via |-> via]]

\* The first line is of the addresses of host 1, the second of host 2's other
\* port; a marker and a comment record nothing.
KnownFile ==
    [readable |-> TRUE,
     lines |-> << [kind |-> "comment"],
                  [kind |-> "entry", names |-> {<<1, 22>>, <<11, 22>>}, key |-> "k1"],
                  [kind |-> "entry", names |-> {<<2, 2222>>}, key |-> "k1"],
                  [kind |-> "marker", names |-> {<<2, 22>>}, key |-> "k1"] >>]
Inline(line) == [location |-> "inline", readable |-> TRUE, line |-> line]
OnHost == [location |-> "host", readable |-> TRUE, line |-> None]
OnInstance(readable, line) == [location |-> "instance", readable |-> readable, line |-> line]

Plain == [hosts |-> Listed(<<1, 2>>), scope |-> Full, concurrency |-> 2, port |-> 22,
          known |-> None, key |-> "other", script |-> Inline(None)]

MCGathers ==
    {Plain, [Plain EXCEPT !.hosts = Listed(<<>>)],
     [Plain EXCEPT !.hosts = Listed(<<1, 1>>), !.script = OnHost],
     [Plain EXCEPT !.concurrency = 1, !.known = KnownFile],
     [Plain EXCEPT !.known = [KnownFile EXCEPT !.readable = FALSE]],
     [Plain EXCEPT !.scope = [kind |-> "host", target |-> {2, 9}], !.key = "rsa", !.script = OnHost],
     [Plain EXCEPT !.scope = [kind |-> "host", target |-> {9}]],
     [Plain EXCEPT !.scope = [kind |-> "group", target |-> {"web"}], !.script = OnHost, !.concurrency = 0],
     [Plain EXCEPT !.hosts = Other(None, {}, {}, "hostname")],
     [Plain EXCEPT !.hosts = Other(Inventory, {"web", "gone"}, {}, "ansible_host"), !.port = 2222,
                   !.known = KnownFile]}
    \cup {[Plain EXCEPT !.hosts = Other(Inventory, {}, {}, "hostname_then_ansible_host"),
                        !.known = known, !.concurrency = 1] : known \in {None, KnownFile}}
    \cup {[Plain EXCEPT !.hosts = Other(Inventory, {"web"}, {2, 9}, "ansible_host_then_hostname"),
                        !.script = OnHost, !.scope = [kind |-> "host", target |-> {1, 3}]]}
    \cup {[Plain EXCEPT !.key = key] : key \in {"missing", "unreadable", "undecodable"}}
    \cup {[Plain EXCEPT !.script = what, !.hosts = Listed(<<1>>)] :
             what \in {OnInstance(FALSE, None), Inline(<<"env", "flag", "name">>),
                         OnInstance(TRUE, <<"env", "flag">>), OnInstance(TRUE, <<"name", "odd">>)}}

MCOffers == {[kind |-> "plain", key |-> "k1"], [kind |-> "plain", key |-> "k2"],
             [kind |-> "certificate", key |-> "k1"]}
MCOutputs == {[json |-> TRUE, names |-> {"os"}], [json |-> TRUE, names |-> {"os", "net"}],
              [json |-> FALSE, names |-> {None, "ssh_gathered"}]}

Job(kind, input, steps) ==
    {[kind |-> kind, input |-> input, steps |-> steps \o <<end>>, parses |-> parses] :
        end \in {"exit 0", "exit 1", "hang"}, parses \in BOOLEAN}
MCScripts ==
    Job("connector", 0, <<"print", "log", "print", "log">>)
    \cup Job("enricher", 3, <<"log", "log", "read", "read", "read", "read", "print", "print">>)
    \cup Job("output", 3, <<"read", "print", "print", "print">>)
    \cup Job("enricher", 2, <<>>)
=============================================================================
