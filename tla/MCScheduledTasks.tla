-------------------------- MODULE MCScheduledTasks --------------------------
(***************************************************************************)
(* Model-checking instance of ScheduledTasks: a source and another that    *)
(* takes its hosts from it, a task of each kind, and two sources that take *)
(* their hosts from each other.                                            *)
(***************************************************************************)
EXTENDS ScheduledTasks, TLC

CONSTANTS base, dependent, project, enricher

Chain == (base :> {}) @@ (dependent :> {base})
Kinds == (base :> {}) @@ (project :> {}) @@ (enricher :> {base})
Circle == (base :> {dependent}) @@ (dependent :> {base})
Each == {Chain, Kinds, Circle}
=============================================================================
