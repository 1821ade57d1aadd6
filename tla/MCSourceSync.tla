---------------------------- MODULE MCSourceSync ----------------------------
(***************************************************************************)
(* Model-checking instance of SourceSync.                                  *)
(*                                                                         *)
(* The view drops what no later step and no property can read: the fields  *)
(* of an idle caller (Ask overwrites them), the advertised claim, the      *)
(* `origin` of a scoped request, and the counter's value beside whether it *)
(* moved past what each caller saw.                                        *)
(***************************************************************************)
EXTENDS SourceSync, TLC

Symmetry == Permutations(Callers) \cup Permutations(Hosts)

CallerView(c) ==
    IF pc[c] = "idle" THEN <<>>
    ELSE <<req[c].scope, req[c].targets, coalescable(req[c]), fullSyncs # seen[c],
           asked[c], overtaken[c] = {},
           IF pc[c] \in InSync THEN gid[c] ELSE 0>>

View == <<pc, [c \in Callers |-> CallerView(c)], queue, holder, entry, health,
          started, asks, {h \in Cached : entry.host[h] \in okRuns}>>

\* For the property that reads the claim.
ClaimView == <<View, claim>>
=============================================================================
