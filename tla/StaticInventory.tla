--------------------------- MODULE StaticInventory ---------------------------
(***************************************************************************)
(* A static Ansible inventory read from a checkout: the tree of groups in  *)
(* the inventory file, and the variable files beside it, as one dataset    *)
(* (domain/static_inventory.rs and its connector).                         *)
(*                                                                         *)
(* A node is [name, children |-> sequence of nodes, hosts |-> host -> vars,*)
(* vars]; an inventory is the sequence of its top-level nodes in the order *)
(* of their names.  A variable file is a map, or Vault when it is          *)
(* encrypted; `group_vars` and `host_vars` map a name to the sequence of   *)
(* its files, and to Both when a file and a directory have that name.      *)
(***************************************************************************)
EXTENDS Naturals, Sequences, FiniteSets, SequencesExt, Functions, TLC

CONSTANTS Vault, Both, NoVars

-----------------------------------------------------------------------------
(* The walk over the tree. *)

NoInfo == [hosts |-> {}, children |-> {}, vars |-> <<>>]
EmptyWalk == [groups |-> <<>>, hostvars |-> <<>>]

Later(f, g) == g @@ f       \* HashMap::extend: g's values win

\* Walk::group.  What the name has gathered so far is taken out of the map and
\* put back, with this declaration added, once the children are walked: the
\* keys of a mapping come in the order of their names.
RECURSIVE WalkGroup(_, _)
WalkGroup(walk, node) ==
    LET name   == node.name
        info   == IF name \in DOMAIN walk.groups THEN walk.groups[name] ELSE NoInfo
        taken  == [walk EXCEPT !.groups = Restrict(@, DOMAIN @ \ {name})]
        below  == FoldLeft(WalkGroup, taken, node.children)
        own(h) == IF h \in DOMAIN below.hostvars THEN Later(below.hostvars[h], node.hosts[h])
                                                 ELSE node.hosts[h]
    IN [groups |-> Later(below.groups, name :>
                      [hosts    |-> info.hosts \cup DOMAIN node.hosts,
                       children |-> info.children
                                       \cup {node.children[i].name : i \in DOMAIN node.children},
                       vars     |-> Later(info.vars, node.vars)]),
        hostvars |-> Later(below.hostvars, [h \in DOMAIN node.hosts |-> own(h)])]

\* Faulty variant: a second declaration of a group replaces the first.
Walked_Replace(tree) ==
    FoldLeft(LAMBDA walk, node : LET alone == WalkGroup(EmptyWalk, node)
                                 IN [groups |-> Later(walk.groups, alone.groups),
                                     hostvars |-> Later(walk.hostvars, alone.hostvars)],
             EmptyWalk, tree)

Walked(tree) == FoldLeft(WalkGroup, EmptyWalk, tree)

-----------------------------------------------------------------------------
(* The files. *)

\* read_vars_dir: a name that is both a file and a directory is refused, so is
\* anything encrypted; the files of a directory are merged in order.
Unreadable(files) ==
    \E n \in DOMAIN files : files[n] = Both \/ \E i \in DOMAIN files[n] : files[n][i] = Vault

FileVars(files, name) ==
    IF name \in DOMAIN files THEN FoldLeft(Later, <<>>, files[name]) ELSE <<>>

\* A variable file overrides the inline variables.
WithFile(vars, files, name) == Later(vars, FileVars(files, name))

\* Range patterns, unknown keys and what is not YAML: the parser says so.
Parse(input) ==
    LET walk == Walked(input.tree)
        vars(g) == WithFile(walk.groups[g].vars, input.groupVars, g)
        groups == DOMAIN walk.groups
    IN IF input.malformed \/ Unreadable(input.groupVars) \/ Unreadable(input.hostVars)
       THEN [status |-> 500]
       ELSE [status   |-> 200,
             hostvars |-> [h \in DOMAIN walk.hostvars |->
                             WithFile(walk.hostvars[h], input.hostVars, h)],
             groups   |-> [g \in groups \ {"ungrouped"} |->
                             [walk.groups[g] EXCEPT !.vars = IF vars(g) = <<>> THEN NoVars ELSE vars(g)]],
             warnings |-> (DOMAIN input.groupVars \ (groups \cup {"all"}))
                             \cup (DOMAIN input.hostVars \ DOMAIN walk.hostvars)]
=============================================================================
