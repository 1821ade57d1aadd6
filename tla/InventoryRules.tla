--------------------------- MODULE InventoryRules ---------------------------
(***************************************************************************)
(* One request and its answer, for what turns cached datasets into an      *)
(* inventory or a script's output into a dataset: an endpoint's call, the  *)
(* host search, a declarative enricher's merge, what a script prints.      *)
(***************************************************************************)
EXTENDS ViewReads, EndpointOutput, ScriptInventory

CONSTANT VarValues              \* serde_json::Value: what a variable can be

-----------------------------------------------------------------------------
(* What may be asked. *)

\* Names are sequences of segments; variables are kept under one segment (a
\* top-level name with a dot hides the path it looks like: PathsMeanTheSame).
IsName(n) == n \in Seq(Range(n)) /\ n # <<>>
IsNameList(list) == list \in Seq(Range(list)) /\ \A i \in DOMAIN list : IsName(list[i])
Plain(vars) == \A n \in DOMAIN vars : IsName(n) /\ Len(n) = 1

\* A dataset as from_ansible_inventory makes it, without Ansible's own groups.
IsDataset(d) ==
    /\ d = [hostvars |-> d.hostvars, groups |-> d.groups]
    /\ \A h \in DOMAIN d.hostvars : Plain(d.hostvars[h])
    /\ \A g \in DOMAIN d.groups :
          /\ d.groups[g] = GroupRead(d.groups[g])
          /\ d.groups[g].vars # None => Plain(d.groups[g].vars)
          /\ g \notin MetaGroups

\* An endpoint of a valid configuration merges sources there are and limits
\* itself by one of them (config.rs:628).
IsEndpoint(e, cache) ==
    /\ e = [sources |-> e.sources, limit |-> e.limit, output |-> e.output, config |-> e.config]
    /\ e.sources \subseteq DOMAIN cache
    /\ e.limit \in e.sources \cup {None}
    /\ \A s \in e.sources : cache[s] # None => IsDataset(cache[s])

\* fields and exclude_fields are lists of names.
ListsNames(settings) ==
    /\ settings.fields # None => IsNameList(settings.fields)
    /\ settings.exclude # None => IsNameList(settings.exclude)

\* What a source or a member of a view has read: finitely many hosts and
\* groups; a valid configuration has no view without members
\* (config.rs:667).
IsContent(d) ==
    /\ IsFiniteSet(DOMAIN d.hostvars) /\ IsFiniteSet(DOMAIN d.groups)
    /\ \A g \in DOMAIN d.groups :
          /\ d.groups[g] = GroupRead(d.groups[g]) /\ IsFiniteSet(d.groups[g].hosts)
          /\ {g} # None

AreMembers(members) ==
    /\ members \in Seq(Range(members)) /\ members # <<>>
    /\ \A i \in DOMAIN members :
          members[i].entry # None => IsContent(members[i].entry) /\ members[i].age \in Int

\* /status selects by names and groups, on one page.
SelectsByName(q) == q.patterns = None /\ q.filter = {} /\ q.limit = None /\ q.offset = 0

\* None is not a map: not even one of two groups' variables.
NoneIsNoMerge(own, other) ==
    (own # None /\ other # None) =>
        \A names \in SUBSET DOMAIN other : Over(Restrict(other, names), own) # None

MayAsk(r) ==
    /\ (r.what = "source" /\ r.dataset # None) =>
          /\ IsContent(r.dataset)
          /\ {"limit", "offset"} \subseteq DOMAIN r.q /\ r.q.limit \in Nat \cup {None}
    /\ r.what \in {"view", "groups", "status"} => AreMembers(r.members)
    /\ r.what = "status" => SelectsByName(r.q)
    /\ r.what = "vars" =>
          /\ \A n \in DOMAIN r.vars : IsName(n) /\ r.vars[n] \in VarValues
          /\ ListsNames(r.q) /\ r.q.exclude # None
          /\ \A p \in r.paths : IsName(p)
    /\ r.what = "name" =>
          /\ r.pattern \in Seq(Range(r.pattern))
          /\ r.text \in Seq(Range(r.text)) /\ "*" \notin Range(r.text)
    /\ (r.what = "endpoint" /\ r.endpoint # None) =>
          /\ IsEndpoint(r.endpoint, r.cache)
          /\ ListsNames(r.params) /\ ListsNames(r.endpoint.config)
    /\ r.what = "search" =>
          /\ r.limit \in Nat
          /\ IsFiniteSet(r.names) /\ r.names \subseteq Int
          /\ \A h \in r.names : r.rank[h] \in Int
          /\ \A e \in DOMAIN r.endpoints \cap r.key.endpoints : IsEndpoint(r.endpoints[e], r.cache)
    /\ r.what = "enrich" =>
          \A g \in DOMAIN r.target.groups :
             /\ r.target.groups[g] = GroupRead(r.target.groups[g])
             /\ g \in DOMAIN r.source.groups =>
                   NoneIsNoMerge(r.target.groups[g].vars, r.source.groups[g].vars)
    /\ r.what = "script" => r.full \in BOOLEAN

\* A value is not nothing, what an object holds is a value, and an object is
\* still one when keys are taken out of it, at any depth.
Within(w, v) == w = v \/ (IsObject(w) /\ IsObject(v) /\ DOMAIN w.keys \subseteq DOMAIN v.keys)

ASSUME VarValuesAssumption ==
    /\ None \notin VarValues
    /\ \A v \in {x \in VarValues : IsObject(x)} :
          /\ v = ObjectOf([k \in DOMAIN v.keys |-> v.keys[k]])
          /\ \A k \in DOMAIN v.keys : v.keys[k] \in VarValues
          /\ \A K \in SUBSET DOMAIN v.keys : \A f \in [K -> VarValues] :
                (\A k \in K : Within(f[k], v.keys[k])) => ObjectOf(f) \in VarValues

ASSUME RequestsAssumption ==
    /\ None \notin {"ansible", "json", "csv"} \cup [index : Nat]
    /\ None # [groups |-> {}, hosts |-> {}, advertised |-> FALSE]
    /\ \A batch \in DOMAIN Requests : \A r \in Requests[batch] : MayAsk(r)

-----------------------------------------------------------------------------
(* The requests. *)

\* GET or POST /endpoints/{id}, and its /counts.
CallEndpoint ==
    /\ Asked("endpoint")
    /\ response' =
         IF ~request.allowed THEN [status |-> 403]
         ELSE IF request.endpoint = None THEN [status |-> 404]
         ELSE LET answer == Execute(request.cache, request.endpoint, request.params, request.script)
              IN [status |-> answer.status, answer |-> answer,
                  counts |-> Counts(request.cache, request.endpoint)]
    /\ UNCHANGED request

\* GET /hosts/search: at most `limit` hosts, between 1 and 100.
SearchHosts ==
    /\ Asked("search")
    /\ response' =
         [status |-> 200,
          found |-> IF request.short THEN [total |-> 0, matches |-> <<>>]
                    ELSE Search(request.cache, request.views, request.endpoints, request.key,
                                request.names, request.rank, Max({1, request.limit}))]
    /\ UNCHANGED request

Enrich ==
    /\ Asked("enrich")
    /\ response' = [status |-> 200,
                    target |-> Enriched(request.target, request.source, request.enricher)]
    /\ UNCHANGED request

\* parse_dataset, and what a sync then writes.
ReadScript ==
    /\ Asked("script")
    /\ response' = IF NotAnInventory(request.out) THEN [status |-> 500]
                   ELSE [status |-> 200, warnings |-> Warnings(request.out),
                         dataset |-> Synced(request.out, request.full)]
    /\ UNCHANGED request

RuleNext == CallEndpoint \/ SearchHosts \/ Enrich \/ ReadScript

RulesSpec == ReadInit /\ [][ReadNext \/ RuleNext]_<<request, response>>

-----------------------------------------------------------------------------
(* Properties. *)

\* Everything but the hosts survives a limit: a host the limiting source lists
\* comes out with the variables and the groups it has without the limit, and
\* no other host comes out, whatever the request asks; the groups of the
\* inventory name no host it does not have.
LimitOnlyRestricts ==
    (Answers("endpoint") /\ request.endpoint.output \in {"ansible", "json"}) =>
        LET e == request.endpoint
            out == response.answer.body
            all == Execute(request.cache, [e EXCEPT !.limit = None], request.params, "ends").body
            kept == DOMAIN all.hostvars
                       \cap (IF e.limit = None THEN DOMAIN all.hostvars
                             ELSE DOMAIN request.cache[e.limit].hostvars)
        IN /\ out.hostvars = Restrict(all.hostvars, kept)
           /\ \A g \in DOMAIN out.groups : out.groups[g].hosts \subseteq kept
           /\ \A s \in e.sources : \A g \in DOMAIN request.cache[s].groups :
                 \A h \in kept \cap request.cache[s].groups[g].hosts :
                    g \in DOMAIN out.groups /\ h \in out.groups[g].hosts

\* What an endpoint excludes leaves by no door: neither the host's variables
\* nor those of a group, from whichever source.
ExcludedStaysOut ==
    (Answers("endpoint") /\ request.endpoint.output \in {"ansible", "json"}) =>
        LET q == QueryOf(request.endpoint, request.params)
            out == response.answer.body
        IN \A i \in DOMAIN q.exclude :
              /\ \A h \in DOMAIN out.hostvars : Lookup(out.hostvars[h], q.exclude[i]) = None
              /\ \A g \in DOMAIN out.groups :
                    out.groups[g].vars # None => Lookup(out.groups[g].vars, q.exclude[i]) = None

\* The search names a host only to a key that may read a source or view that
\* serves it, and names an endpoint exactly when a call of that endpoint, with
\* no parameters, would answer with the host in it.
SearchSaysWhatEndpointsReturn ==
    Answers("search") =>
        \A i \in DOMAIN response.found.matches :
            LET m == response.found.matches[i]
                returns(e) ==
                    LET a == Execute(request.cache, request.endpoints[e], NoParams, "ends")
                    IN /\ a.status = 200
                       /\ m.host \in
                            (IF request.endpoints[e].output = None
                             THEN UNION {DOMAIN a.given[s].hostvars : s \in DOMAIN a.given}
                             ELSE IF request.endpoints[e].output = "csv" THEN DOMAIN a.body.rows
                             ELSE DOMAIN a.body.hostvars)
            IN /\ m.sources # {} /\ m.sources \subseteq request.key.sources
               /\ m.endpoints = {e \in DOMAIN request.endpoints \cap request.key.endpoints : returns(e)}

\* A declarative enricher moves variables and nothing else: the target keeps
\* its hosts and the members of its groups, its own variables but those taken,
\* and gets nothing that an exclusion names.
OnlyVariablesCross ==
    Answers("enrich") =>
        LET new == response.target
            old == request.target
            e   == request.enricher
            free(before, after, from, name) ==
                \A v \in DOMAIN after :
                    \/ v \in DOMAIN before /\ after[v] = before[v]
                    \/ /\ v \in DOMAIN from /\ after[v] = from[v]
                       /\ e.fieldsExcluded = None \/ v \notin e.fieldsExcluded
                       /\ name = None \/ e.groupsExcluded = None \/ name \notin e.groupsExcluded
            varsOf(d, g) == IF g \in DOMAIN d.groups /\ d.groups[g].vars # None
                            THEN d.groups[g].vars ELSE <<>>
        IN /\ DOMAIN new.hostvars = DOMAIN old.hostvars
           /\ \A g \in DOMAIN old.groups : /\ g \in DOMAIN new.groups
                                           /\ new.groups[g].hosts = old.groups[g].hosts
           /\ \A g \in DOMAIN new.groups :
                 /\ g \in DOMAIN old.groups \/ new.groups[g].hosts \subseteq DOMAIN old.hostvars
                 /\ DOMAIN varsOf(old, g) \subseteq DOMAIN varsOf(new, g)
                 /\ free(varsOf(old, g), varsOf(new, g), varsOf(request.source, g), g)
           /\ \A h \in DOMAIN new.hostvars :
                 /\ DOMAIN old.hostvars[h] \subseteq DOMAIN new.hostvars[h]
                 /\ h \in DOMAIN request.source.hostvars
                       => free(old.hostvars[h], new.hostvars[h], request.source.hostvars[h], None)

\* A full or scoped sync of what a script prints forgets none of its hosts
\* (dataset.rs).
NoHostIsForgotten ==
    Answers("script") => RemembersEveryHost(request.out, request.full, response.dataset, response.warnings)

\* "Ansible dynamic inventory is the inverse of from_ansible_inventory"
\* (output.rs:5), for every answer an endpoint gives.
OutputReadsBack ==
    (Answers("endpoint") /\ request.endpoint.output = "ansible") =>
        LET plain(g) == [g EXCEPT !.vars = IF @ = None THEN <<>> ELSE @]
            body == response.answer.body
        IN ReadsBack(body.hostvars, [g \in DOMAIN body.groups |-> plain(body.groups[g])])

\* What an endpoint is configured to keep back stays back.
EndpointsKeepTheirLimits == LimitOnlyRestricts /\ ExcludedStaysOut

\* Neither merging an enricher's source nor reading what a script or an
\* endpoint prints adds or loses a host, a member or a variable.
NothingIsLostInMerging == OnlyVariablesCross /\ NoHostIsForgotten /\ OutputReadsBack

-----------------------------------------------------------------------------
(* What the comments say and the code does not do. *)

\* "a dropped group had no vars and no children to lose" (output.rs): a group
\* whose named hosts a filter all took goes with its variables.
DroppedGroupsHadNothing ==
    (Answers("endpoint") /\ request.endpoint.output = "ansible") =>
        LET merged == MergedGroups(Inputs(request.cache, request.endpoint))
        IN \A g \in DOMAIN merged \ DOMAIN response.answer.body.groups :
              merged[g].children = {} /\ merged[g].vars \in {None, <<>>}
=============================================================================
