------------------------- MODULE MCOnDemandRefresh -------------------------
(***************************************************************************)
(* Model-checking instance of OnDemandRefresh.                             *)
(***************************************************************************)
EXTENDS OnDemandRefresh, TLC

CONSTANTS r1, r2, r3

\* Host lists as a view routes them, and as a consumer may write them:
\* overlapping, in either order, no host twice.
Lists == { <<1>>, <<1, 2>>, <<2, 1>> }

\* The same list as the one consumer wrote a host twice.
TwiceNamed == { <<1>>, <<1, 1>> }

Symmetry == Permutations(Readers)

\* What no property of a safety run reads.
View == <<limiter, read, data, refreshed, now, used>>
=============================================================================
