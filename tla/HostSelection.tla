---------------------------- MODULE HostSelection ----------------------------
(***************************************************************************)
(* Which hosts, groups and variables a dataset read returns: the host and  *)
(* group selectors, the host filter, pages, `fields`/`exclude_fields` with *)
(* dotted paths, and `groups=matching`.  Pure functions of one cache entry *)
(* and one query.                                                          *)
(*                                                                         *)
(* A dataset is [hostvars |-> host -> vars, groups |-> name -> group].     *)
(* Hosts are numbers, in the order of their names.  A variable name is a   *)
(* sequence of segments ("a.b" is <<"a", "b">>), a value is a scalar       *)
(* [num, text] (num is NaN when the text is not a number, text is its rank *)
(* in the order of texts and 0 is the empty one) or an object              *)
(* [keys |-> segment -> value].                                            *)
(***************************************************************************)
EXTENDS Integers, Sequences, FiniteSets, FiniteSetsExt, Functions

CONSTANT None                     \* Option::None

NaN == -1

\* A map with one more entry, and one map over another: the new value wins.
Put(f, key, value) == [x \in DOMAIN f \cup {key} |-> IF x = key THEN value ELSE f[x]]
Over(f, g) == [x \in DOMAIN f \cup DOMAIN g |-> IF x \in DOMAIN f THEN f[x] ELSE g[x]]

-----------------------------------------------------------------------------
(* var_path: dotted paths into variables. *)

IsObject(v) == "keys" \in DOMAIN v
ObjectOf(f) == [keys |-> f]
EmptyObject == ObjectOf(<<>>)

\* One step below a value, or None.
Below(v, segment) ==
    IF v # None /\ IsObject(v) /\ segment \in DOMAIN v.keys THEN v.keys[segment] ELSE None

\* The value at path below v, or None.
Walk(v, path) ==
    LET At[i \in 0..Len(path)] == IF i = 0 THEN v ELSE Below(At[i - 1], path[i])
    IN At[Len(path)]

\* A top-level key of that exact name wins over the path.
Lookup(vars, path) ==
    IF path \in DOMAIN vars THEN vars[path]
    ELSE IF <<path[1]>> \in DOMAIN vars THEN Walk(vars[<<path[1]>>], Tail(path))
    ELSE None

\* insert_path: the value at the end of the segments, objects made on the way.
InsertPath(v, segments, value) ==
    LET n == Len(segments)
        found(k) == Walk(v, SubSeq(segments, 1, k))
        here(k) == IF found(k) = None THEN EmptyObject ELSE found(k)
        New[k \in 0..n] ==
            IF k = n THEN value
            ELSE IF IsObject(here(k)) THEN ObjectOf(Put(here(k).keys, segments[k + 1], New[k + 1]))
            ELSE here(k)
    IN IF n = 0 THEN v ELSE New[0]

KeepPath(vars, out, path) ==
    LET root == <<path[1]>>
        value == Lookup(vars, path)
    IN IF path \in DOMAIN vars THEN Put(out, path, vars[path])
       ELSE IF value = None THEN out
       ELSE IF root \in DOMAIN out /\ ~IsObject(out[root]) THEN out
       ELSE LET obj == IF root \in DOMAIN out THEN out[root] ELSE EmptyObject
            IN Put(out, root, InsertPath(obj, Tail(path), value))

KeepPaths(vars, paths) ==
    LET Out[n \in 0..Len(paths)] == IF n = 0 THEN <<>> ELSE KeepPath(vars, Out[n - 1], paths[n])
    IN Out[Len(paths)]

\* remove_path: the key goes, the rest of the object stays.
RemovePath(v, segments) ==
    LET n == Len(segments)
        keys(k) == Walk(v, SubSeq(segments, 1, k - 1)).keys
        Left[k \in 1..n] ==
            ObjectOf(IF k = n THEN Restrict(keys(n), DOMAIN keys(n) \ {segments[n]})
                              ELSE Put(keys(k), segments[k], Left[k + 1]))
    IN IF n = 0 \/ Walk(v, segments) = None THEN v ELSE Left[1]

DropPath(vars, path) ==
    IF path \in DOMAIN vars THEN Restrict(vars, DOMAIN vars \ {path})
    ELSE IF Len(path) > 1 /\ <<path[1]>> \in DOMAIN vars
         THEN [vars EXCEPT ![<<path[1]>>] = RemovePath(@, Tail(path))]
         ELSE vars

DropPaths(vars, paths) ==
    LET Left[n \in 0..Len(paths)] == IF n = 0 THEN vars ELSE DropPath(Left[n - 1], paths[n])
    IN Left[Len(paths)]

\* VarSelect::host; a group's variables lose `exclude_fields` only.
ShapeHost(q, vars) ==
    DropPaths(IF q.fields = None THEN vars ELSE KeepPaths(vars, q.fields), q.exclude)

ShapeGroupVars(q, vars) == IF vars = None THEN None ELSE DropPaths(vars, q.exclude)

-----------------------------------------------------------------------------
(* host_filter: name patterns and conditions on variables. *)

\* The two-pointer glob walk: where it is in the pattern and in the text, and
\* the last `*` (0: none) with where the text was then.  A character is an
\* element of a sequence.
GlobStep(p, t, s) ==
    IF s.ti > Len(t) THEN s
    ELSE IF s.pi <= Len(p) /\ p[s.pi] \in {"?", t[s.ti]}
         THEN [pi |-> s.pi + 1, ti |-> s.ti + 1, sp |-> s.sp, st |-> s.st]
    ELSE IF s.pi <= Len(p) /\ p[s.pi] = "*"
         THEN [pi |-> s.pi + 1, ti |-> s.ti, sp |-> s.pi, st |-> s.ti]
    ELSE IF s.sp # 0 THEN [pi |-> s.sp + 1, ti |-> s.st + 1, sp |-> s.sp, st |-> s.st + 1]
    ELSE s

\* Each turn moves on in the pattern or moves st on, so the walk has ended by
\* then: at the end of the text, or before it with no `*` to go back to.
GlobTurns(p, t) == (Len(p) + 2) * (Len(t) + 2)

GlobWalk(p, t) ==
    LET Walks[n \in 0..GlobTurns(p, t)] ==
            IF n = 0 THEN [pi |-> 1, ti |-> 1, sp |-> 0, st |-> 0] ELSE GlobStep(p, t, Walks[n - 1])
        end == Walks[GlobTurns(p, t)]
    IN end.ti > Len(t) /\ \A k \in end.pi..Len(p) : p[k] = "*"

Scalar(v) == "text" \in DOMAIN v
EmptyText == [num |-> NaN, text |-> 0]

\* What `key=` matches.
IsEmptyVar(v) == v = None \/ v = EmptyText \/ v = EmptyObject

\* Two numbers compare as numbers, anything else as text.
Rank(a, b, v) == IF a.num # NaN /\ b.num # NaN THEN v.num ELSE v.text

TextOf(v) == IF v = None THEN EmptyText ELSE IF Scalar(v) THEN v ELSE [num |-> NaN, text |-> 99]

\* Condition::holds.  Containing a text is taken for equality of scalars.
Holds(cond, vars) ==
    LET var == Lookup(vars, cond.key)
        actual == TextOf(var)
        a == Rank(actual, cond.value, actual)
        b == Rank(actual, cond.value, cond.value)
    IN IF cond.value = EmptyText THEN (cond.op = "=") <=> IsEmptyVar(var)
       ELSE CASE cond.op \in {"=", "~"}   -> actual.text = cond.value.text
              [] cond.op \in {"!=", "!~"} -> actual.text # cond.value.text
              [] OTHER ->
                   /\ actual # EmptyText
                   /\ CASE cond.op = ">" -> a > b [] cond.op = ">=" -> a >= b
                        [] cond.op = "<" -> a < b [] cond.op = "<=" -> a <= b

\* parse_condition: only = and != mean something against nothing.
WellFormed(cond) == cond.value = EmptyText => cond.op \in {"=", "!="}

\* A query whose host parameter holds a wildcard selects by pattern instead:
\* `patterns` is then the set of hosts its patterns match.
ExactHosts(q) == IF q.patterns = None THEN q.host ELSE None
FilterIsEmpty(q) == q.patterns = None /\ q.filter = {}

Matches(q, h, vars) ==
    /\ q.patterns = None \/ h \in q.patterns
    /\ \A cond \in q.filter : Holds(cond, vars)

\* host_filter(): what is refused before anything is read.
Refused(q) ==
    \/ q.patterns # None /\ q.refresh
    \/ \E cond \in q.filter : ~WellFormed(cond)

-----------------------------------------------------------------------------
(* The selection of a source read. *)

\* resolve_hostnames: the named hosts, the members of any named group, both,
\* or every host; a group's members count whether or not they have variables.
Resolve(d, host, group) ==
    LET inGroups == UNION {d.groups[g].hosts : g \in group \cap DOMAIN d.groups}
    IN IF host # None
       THEN {h \in host \cap DOMAIN d.hostvars : group = None \/ h \in inGroups}
       ELSE IF group # None THEN inGroups ELSE DOMAIN d.hostvars

Selected(d, q) ==
    {h \in Resolve(d, ExactHosts(q), q.group) :
        FilterIsEmpty(q) \/ (h \in DOMAIN d.hostvars /\ Matches(q, h, d.hostvars[h]))}

\* A host's place is the number of selected hosts before it, by name.
PageOf(selection, q) ==
    LET place(h) == Cardinality({x \in selection : x < h})
    IN {h \in selection : /\ q.offset <= place(h)
                          /\ q.limit # None => place(h) < q.offset + q.limit}

\* group_trim::matching - groups with a host of the page, and the groups above
\* them, found by repeating the pass over all groups until nothing is added.
Above(groups, kept) ==
    kept \cup {g \in DOMAIN groups : groups[g].children \cap kept # {}}

\* Faulty variant: one pass, so a grandparent may be left out.
Kept_OnePass(groups, page) ==
    Above(groups, {g \in DOMAIN groups : groups[g].hosts \cap page # {}})

Kept(groups, page) ==
    LET onPage == {g \in DOMAIN groups : groups[g].hosts \cap page # {}}
        Pass[n \in 0..Cardinality(DOMAIN groups)] ==
            IF n = 0 THEN onPage ELSE Above(groups, Pass[n - 1])
    IN Pass[Cardinality(DOMAIN groups)]

Trimmed(groups, page) ==
    [g \in Kept(groups, page) |->
        [hosts |-> groups[g].hosts \cap page,
         children |-> groups[g].children \cap Kept(groups, page),
         vars |-> groups[g].vars]]

\* Which groups come back, and with how much of their membership.
GroupsOf(groups, page, q) ==
    LET wanted == Restrict(groups, DOMAIN groups \cap
                                       (IF q.group = None THEN DOMAIN groups ELSE q.group))
        shown == IF q.groups = "matching" THEN Trimmed(wanted, page) ELSE wanted
    IN IF q.groups = "none" THEN None
       ELSE [g \in DOMAIN shown |-> [shown[g] EXCEPT !.vars = ShapeGroupVars(q, @)]]

\* The paginated envelope of get_source_dataset.
DatasetPage(d, q) ==
    LET selection == Selected(d, q)
        page == PageOf(selection, q)
    IN [total    |-> Cardinality(selection),
        hostvars |-> [h \in page \cap DOMAIN d.hostvars |-> ShapeHost(q, d.hostvars[h])],
        groups   |-> GroupsOf(d.groups, page, q)]

\* /hosts answers the names of the same selection.
HostList(d, q) == Selected(d, q)

\* /groups: each group with its number of different hosts.
GroupList(groups) ==
    [g \in DOMAIN groups |->
        [hostCount |-> Cardinality(groups[g].hosts), children |-> groups[g].children,
         hasVars |-> groups[g].vars # None]]

\* /groups/{group}: None is its 404.
GroupDetail(groups, g) ==
    IF g \notin DOMAIN groups THEN None
    ELSE [hostCount |-> Cardinality(groups[g].hosts), children |-> groups[g].children,
          vars |-> IF groups[g].vars = None THEN <<>> ELSE groups[g].vars]
=============================================================================
