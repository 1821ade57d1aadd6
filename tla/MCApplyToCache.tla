--------------------------- MODULE MCApplyToCache ---------------------------
(***************************************************************************)
(* Model-checking instance of ApplyToCache: an ordinary group, the meta    *)
(* group `all`, and the layouts of them a connector may return.            *)
(***************************************************************************)
EXTENDS ApplyToCache, TLC

CONSTANTS h1, h2, web, all, k1

In(hosts, v) == [hosts |-> hosts, vars |-> v]

\* No groups; a group of both hosts with its variables set; one of one host
\* without, and the other host placed in a meta group.
SomeLayouts ==
    { <<>>, web :> In({h1, h2}, {k1}), (web :> In({h2}, {})) @@ (all :> In({h1}, {})) }

\* A local source of either mode, and a federated one.
Kind(remote, mode, groupVars) ==
    [remote |-> remote, sync_mode |-> mode, host_sync_updates_group_vars |-> groupVars]
SomeSources == { Kind(FALSE, "replace", TRUE), Kind(FALSE, "merge", FALSE),
                 Kind(TRUE, "replace", TRUE) }

\* What a write was about is read only by the properties of its own step.
View == <<source, entry, now, owed, gathered>>
=============================================================================
