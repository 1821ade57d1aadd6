--------------------------- MODULE EndpointOutput ---------------------------
(***************************************************************************)
(* Endpoints: several sources merged into one inventory, limited, filtered,*)
(* shaped and rendered, by a builtin or a script; the size of that output; *)
(* the search that says which endpoints a host reaches; and what a         *)
(* declarative enricher takes from its source.  Pure functions of the      *)
(* cached datasets and one request.                                        *)
(*                                                                         *)
(* Source ids are numbers in the order of their names; a cache maps ids to *)
(* datasets (see HostSelection) or None.  An endpoint is                   *)
(*   [sources, limit |-> id or None, output |-> format or None (a script), *)
(*    config |-> settings]                                                 *)
(* and settings are [patterns, group, filter, fields, exclude, renamed],   *)
(* each None where the endpoint's config or the request says nothing.      *)
(***************************************************************************)
EXTENDS ViewRouting

-----------------------------------------------------------------------------
(* Settings. *)

Settings == {"patterns", "group", "filter", "fields", "exclude"}

\* A request's parameter overrides the endpoint's config, setting by setting.
Setting(endpoint, params) ==
    [s \in Settings |-> IF params[s] # None THEN params[s] ELSE endpoint.config[s]]

\* The query the settings amount to: an absent or empty one restricts nothing.
QueryOf(endpoint, params) ==
    LET s == Setting(endpoint, params)
        some(x, default) == IF x = None THEN default ELSE x
    IN [patterns |-> s.patterns,
        group    |-> IF s.group = {} THEN None ELSE s.group,
        filter   |-> some(s.filter, {}),
        fields   |-> IF s.fields = <<>> THEN None ELSE s.fields,
        exclude  |-> some(s.exclude, <<>>)]

\* check_params: a setting renamed in 0.32, or a malformed condition.
ParamsRefused(endpoint, params) ==
    \/ params.renamed
    \/ \E cond \in QueryOf(endpoint, params).filter : ~WellFormed(cond)

-----------------------------------------------------------------------------
(* Limit, merge, filter. *)

\* apply_limit: every dataset keeps the hosts the limiting source lists; a
\* limiting source that is not there lists none.
Limited(datasets, limit) ==
    IF limit = None THEN datasets
    ELSE LET allowed == IF limit \in DOMAIN datasets THEN DOMAIN datasets[limit].hostvars ELSE {}
         IN [s \in DOMAIN datasets |->
               [hostvars |-> Restrict(datasets[s].hostvars, allowed \cap DOMAIN datasets[s].hostvars),
                groups   |-> [g \in DOMAIN datasets[s].groups |->
                                [datasets[s].groups[g] EXCEPT !.hosts = @ \cap allowed]]]]

\* Later ids overwrite earlier ones, name by name.
Laid(layers) ==
    [n \in UNION {DOMAIN layers[s] : s \in DOMAIN layers} |->
        layers[Max({s \in DOMAIN layers : n \in DOMAIN layers[s]})][n]]

Having(datasets, g) == {s \in DOMAIN datasets : g \in DOMAIN datasets[s].groups}

\* Faulty variant: a source's groups replace those of the sources before it.
MergedGroups_Replace(datasets) == Laid([s \in DOMAIN datasets |-> datasets[s].groups])

MergedGroups(datasets) ==
    [g \in UNION {DOMAIN datasets[s].groups : s \in DOMAIN datasets} |->
        LET having == Having(datasets, g)
            withVars == {s \in having : datasets[s].groups[g].vars # None}
        IN [hosts    |-> UNION {datasets[s].groups[g].hosts : s \in having},
            children |-> UNION {datasets[s].groups[g].children : s \in having},
            vars     |-> IF withVars = {} THEN None
                         ELSE Laid([s \in withVars |-> datasets[s].groups[g].vars])]]

MergedVars(datasets) ==
    [h \in UNION {DOMAIN datasets[s].hostvars : s \in DOMAIN datasets} |->
        Laid([s \in {s \in DOMAIN datasets : h \in DOMAIN datasets[s].hostvars} |->
                datasets[s].hostvars[h]])]

\* A group keeps its surviving hosts.  One that named hosts needs a host or a
\* child to stay, one that named none needs a child or variables.
Pruned(groups, survivors) ==
    LET stays(g) ==
            \/ groups[g].children # {}
            \/ groups[g].hosts \cap survivors # {}
            \/ groups[g].hosts = {} /\ groups[g].vars \notin {None, <<>>}
    IN [g \in {x \in DOMAIN groups : stays(x)} |-> [groups[g] EXCEPT !.hosts = @ \cap survivors]]

\* A var declared on a group reaches its members: exclude_fields drops it too.
Shaped(q, groups) == [g \in DOMAIN groups |-> [groups[g] EXCEPT !.vars = ShapeGroupVars(q, @)]]

\* merge_and_filter: hosts are chosen by their whole variables, shaped after.
MergeAndFilter(datasets, q) ==
    LET groups == MergedGroups(datasets)
        vars   == MergedVars(datasets)
        named  == IF q.group = None THEN DOMAIN vars
                  ELSE UNION {groups[g].hosts : g \in q.group \cap DOMAIN groups}
        out    == {h \in DOMAIN vars \cap named : FilterIsEmpty(q) \/ Matches(q, h, vars[h])}
    IN [hostvars |-> [h \in out |-> ShapeHost(q, vars[h])],
        groups   |-> Pruned(Shaped(q, groups), out)]

\* The formats: ansible and json carry both, csv a row for each host with the
\* named columns, or every top-level name seen.
Rendered(format, merged, q) ==
    IF format # "csv" THEN merged
    ELSE LET columns == IF q.fields # None THEN Range(q.fields)
                        ELSE UNION {DOMAIN merged.hostvars[h] : h \in DOMAIN merged.hostvars}
         IN [rows |-> [h \in DOMAIN merged.hostvars |->
                         [c \in columns |-> Lookup(merged.hostvars[h], c)]]]

-----------------------------------------------------------------------------
(* The handlers. *)

NoParams == [patterns |-> None, group |-> None, filter |-> None, fields |-> None,
             exclude |-> None, renamed |-> FALSE]

Gathered(cache, endpoint) == Restrict(cache, endpoint.sources)
Missing(cache, endpoint) == {s \in endpoint.sources : cache[s] = None}

\* What a transformer is given, builtin or script.
Inputs(cache, endpoint) == Limited(Gathered(cache, endpoint), endpoint.limit)

\* A script answers by its own rules: what counts here is what it is given,
\* and how it ended.
Transformed(cache, endpoint, params, script) ==
    LET q == QueryOf(endpoint, params)
    IN CASE endpoint.output # None ->
              [status |-> 200,
               body |-> Rendered(endpoint.output, MergeAndFilter(Inputs(cache, endpoint), q), q)]
         [] endpoint.output = None /\ script = "fails" -> [status |-> 500]
         [] endpoint.output = None /\ script = "hangs" -> [status |-> 504]
         [] OTHER -> [status |-> 200, given |-> Inputs(cache, endpoint)]

\* execute_endpoint
Execute(cache, endpoint, params, script) ==
    IF endpoint.output # None /\ ParamsRefused(endpoint, params) THEN [status |-> 400]
    ELSE IF Missing(cache, endpoint) # {}
         THEN [status |-> 503, missing |-> Missing(cache, endpoint)]
    ELSE Transformed(cache, endpoint, params, script)

\* endpoint_counts: nothing is counted for a script, or when a call would
\* answer 503; a table has no groups.
Counts(cache, endpoint) ==
    LET merged == MergeAndFilter(Inputs(cache, endpoint), QueryOf(endpoint, NoParams))
    IN IF endpoint.output # None /\ ParamsRefused(endpoint, NoParams) THEN [status |-> 400]
       ELSE IF endpoint.output = None \/ Missing(cache, endpoint) # {}
            THEN [status |-> 200, hosts |-> None, groups |-> None]
       ELSE [status |-> 200, hosts |-> Cardinality(DOMAIN merged.hostvars),
             groups |-> IF endpoint.output = "csv" THEN None
                        ELSE Cardinality(DOMAIN merged.groups)]

-----------------------------------------------------------------------------
(* Host search. *)

\* default_hosts: a malformed setting fails closed.
DefaultHosts(cache, endpoint) ==
    IF ParamsRefused(endpoint, NoParams) THEN {}
    ELSE DOMAIN MergeAndFilter(Inputs(cache, endpoint), QueryOf(endpoint, NoParams)).hostvars

Holders(cache, h) == {s \in DOMAIN cache : cache[s] # None /\ h \in DOMAIN cache[s].hostvars}

HasConfig(endpoint) == \E s \in Settings : endpoint.config[s] # None

\* Faulty variant: a limited endpoint is asked about its sources.
Reaches_NoLimit(cache, endpoint, h) ==
    /\ Missing(cache, endpoint) = {}
    /\ IF endpoint.output # None /\ HasConfig(endpoint)
       THEN h \in DefaultHosts(cache, endpoint)
       ELSE endpoint.sources \cap Holders(cache, h) # {}

\* Does an endpoint's default output include the host?  Where no setting can
\* filter it out, the sources that hold it, or the limiting one, decide.
Reaches(cache, endpoint, h) ==
    /\ Missing(cache, endpoint) = {}
    /\ IF endpoint.output # None /\ HasConfig(endpoint)
       THEN h \in DefaultHosts(cache, endpoint)
       ELSE IF endpoint.limit # None THEN endpoint.limit \in Holders(cache, h)
       ELSE endpoint.sources \cap Holders(cache, h) # {}

\* search(): the hosts with the query in their name, best match first, that a
\* source or view the key may read serves; with the endpoints it may run.
Search(cache, views, endpoints, key, names, rank, limit) ==
    LET sources(h) == Holders(cache, h) \cap key.sources
        serving(h) == {v \in DOMAIN views \cap key.sources : h \in ViewHosts(views[v])}
        found == {h \in names : sources(h) \cup serving(h) # {}}
        better(h) == {g \in found : rank[g] < rank[h] \/ (rank[g] = rank[h] /\ g < h)}
        nth(i) == CHOOSE h \in found : Cardinality(better(h)) = i - 1
    IN [total   |-> Cardinality(found),
        matches |-> [i \in 1..Min({limit, Cardinality(found)}) |->
            [host |-> nth(i), sources |-> sources(nth(i)) \cup serving(nth(i)),
             endpoints |-> {e \in DOMAIN endpoints \cap key.endpoints :
                               Reaches(cache, endpoints[e], nth(i))}]]]

-----------------------------------------------------------------------------
(* Declarative enrichers. *)

\* An absent list selects everything and an exclusion beats an inclusion.
Admits(name, allowed, excluded) ==
    /\ excluded = None \/ name \notin excluded
    /\ allowed = None \/ name \in allowed

TakenVars(vars, e) == Restrict(vars, {n \in DOMAIN vars : Admits(n, e.fields, e.fieldsExcluded)})

\* execute_declarative_merge and group_vars_for_target: variables of hosts the
\* target has, and of groups, by name; a group it lacks is created, `all` with
\* the target's hosts.
Enriched(target, source, e) ==
    LET hosts == {h \in DOMAIN target.hostvars \cap DOMAIN source.hostvars :
                     TakenVars(source.hostvars[h], e) # <<>>}
        groups == {g \in DOMAIN source.groups :
                     /\ source.groups[g].vars # None
                     /\ Admits(g, e.groups, e.groupsExcluded)
                     /\ TakenVars(source.groups[g].vars, e) # <<>>}
        taken(g) == TakenVars(source.groups[g].vars, e)
        group(g) ==
            IF g \notin DOMAIN target.groups
            THEN [hosts |-> IF g = "all" THEN DOMAIN target.hostvars ELSE {},
                  children |-> {}, vars |-> taken(g)]
            ELSE LET own == target.groups[g].vars
                 IN [target.groups[g] EXCEPT
                        !.vars = IF own = None THEN taken(g) ELSE Over(taken(g), own)]
    IN [hostvars |-> [h \in DOMAIN target.hostvars |->
                        IF h \in hosts THEN Over(TakenVars(source.hostvars[h], e), target.hostvars[h])
                                       ELSE target.hostvars[h]],
        groups |-> [g \in DOMAIN target.groups \cup groups |->
                        IF g \in groups THEN group(g) ELSE target.groups[g]]]
=============================================================================
