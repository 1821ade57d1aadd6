--------------------------- MODULE ScriptInventory ---------------------------
(***************************************************************************)
(* What a connector's script prints, an Ansible dynamic inventory, as a    *)
(* dataset (domain/dataset.rs).                                            *)
(*                                                                         *)
(* A printed inventory is [meta, hostvars, groups]: meta says whether      *)
(* `_meta` is absent ("none"), there without hostvars ("bare"), not what   *)
(* it should be ("malformed") or there ("hostvars"), and groups maps every *)
(* other top-level key to its value [form |-> "list", "object" or "other", *)
(* fields |-> the object's keys, nested |-> all its values are objects,    *)
(* typed |-> they have the types of a group's, hosts, children, vars].     *)
(* Absent and empty variables of a group are one here.                     *)
(***************************************************************************)
GroupFields == {"hosts", "children", "vars"}
MetaGroups == {"all", "ungrouped"}

\* A map of objects by host or group name where a group should be: the format
\* before 0.36.
OldShape(out, key) ==
    /\ key \in DOMAIN out.groups
    /\ out.groups[key].form = "object"
    /\ out.groups[key].fields \cap GroupFields = {}
    /\ out.groups[key].fields = {} \/ out.groups[key].nested

\* parse_group refuses a group that does not parse, and an object with keys of
\* which Ansible reads none; one that it reads excuses the others.
BadGroup(value) ==
    \/ value.form = "other" \/ ~value.typed
    \/ /\ value.form = "object" /\ value.fields # {}
       /\ value.fields \cap GroupFields = {}

NotAnInventory(out) ==
    \/ out.meta = "none" /\ (OldShape(out, "hostvars") \/ OldShape(out, "groups"))
    \/ out.meta = "malformed"
    \/ \E name \in DOMAIN out.groups : BadGroup(out.groups[name])

GroupRead(value) == [hosts |-> value.hosts, children |-> value.children, vars |-> value.vars]

\* A meta-group is skipped, but a host listed in one is a host.
Remembered(out) == UNION {out.groups[name].hosts : name \in MetaGroups \cap DOMAIN out.groups}

Warnings(out) ==
    (IF out.meta = "none" THEN {<<"_meta", "none">>} ELSE {})
    \cup {<<name, "ignored keys">> : name \in {n \in DOMAIN out.groups :
              out.groups[n].form = "object" /\ out.groups[n].fields \ GroupFields # {}}}
    \cup {<<name, "vars">> : name \in {n \in MetaGroups \cap DOMAIN out.groups : out.groups[n].vars # <<>>}}

\* Faulty variant: a host that is listed loses the variables it was given.
WithHosts_Overwrite(hostvars, hosts) ==
    [h \in DOMAIN hostvars \cup hosts |-> IF h \in hosts THEN <<>> ELSE hostvars[h]]

\* Hosts without variables where there was nothing about them.
WithHosts(hostvars, hosts) ==
    [h \in DOMAIN hostvars \cup hosts |-> IF h \in DOMAIN hostvars THEN hostvars[h] ELSE <<>>]

\* from_ansible_inventory, of what is an inventory.
FromAnsible(out) ==
    [hostvars |-> WithHosts(IF out.meta = "hostvars" THEN out.hostvars ELSE <<>>, Remembered(out)),
     groups   |-> [name \in DOMAIN out.groups \ MetaGroups |-> GroupRead(out.groups[name])]]

\* add_group_members: to a full sync a host named only in a group has no
\* variables, a scoped one makes no claim about it.
AddGroupMembers(d) ==
    [d EXCEPT !.hostvars = WithHosts(@, UNION {d.groups[g].hosts : g \in DOMAIN d.groups})]

Synced(out, full) == IF full THEN AddGroupMembers(FromAnsible(out)) ELSE FromAnsible(out)

\* render_ansible, the way back: a key for what is not empty.
Printed(hostvars, groups) ==
    [meta |-> "hostvars", hostvars |-> hostvars,
     groups |-> [name \in DOMAIN groups |->
         [form |-> "object", nested |-> FALSE, typed |-> TRUE,
          fields |-> (IF groups[name].hosts # {} THEN {"hosts"} ELSE {})
                        \cup (IF groups[name].children # {} THEN {"children"} ELSE {})
                        \cup (IF groups[name].vars # <<>> THEN {"vars"} ELSE {}),
          hosts |-> groups[name].hosts, children |-> groups[name].children,
          vars |-> groups[name].vars]]]

-----------------------------------------------------------------------------
(* Properties of a reading. *)

\* Every host a script names anywhere is a host of its source after a full
\* sync, with the variables given for it; after a scoped one a host only an
\* ordinary group names is left as it is.  No group is lost but Ansible's own
\* two, and their variables not without a warning (from_ansible_inventory,
\* add_group_members).
RemembersEveryHost(out, full, read, warnings) ==
    LET given == IF out.meta = "hostvars" THEN DOMAIN out.hostvars ELSE {}
        named(names) == UNION {out.groups[n].hosts : n \in names \cap DOMAIN out.groups}
        ordinary == DOMAIN out.groups \ {"all", "ungrouped"}
    IN /\ full => DOMAIN read.hostvars = given \cup named(DOMAIN out.groups)
       /\ ~full => DOMAIN read.hostvars = given \cup named({"all", "ungrouped"})
       /\ \A h \in given : read.hostvars[h] = out.hostvars[h]
       /\ DOMAIN read.groups = ordinary
       /\ \A n \in DOMAIN out.groups :
             IF n \in ordinary THEN /\ read.groups[n].hosts = out.groups[n].hosts
                                    /\ read.groups[n].vars = out.groups[n].vars
             ELSE out.groups[n].vars # <<>> => <<n, "vars">> \in warnings

\* What an endpoint prints, read back by a full sync, is an inventory of the
\* same hosts, variables and groups, without a warning (output.rs:5).
ReadsBack(hostvars, groups) ==
    LET back == Printed(hostvars, groups)
    IN /\ ~NotAnInventory(back) /\ Warnings(back) = {}
       /\ Synced(back, TRUE) = [hostvars |-> hostvars, groups |-> groups]
=============================================================================
