---------------------------- MODULE MCProjectPull ----------------------------
(***************************************************************************)
(* Model-checking instances of ProjectPull.                                *)
(***************************************************************************)
EXTENDS ProjectPull

CONSTANTS scheduled, manual, boot, a, b, none, mixed

\* Requirements that never return to what they were, and ones that do.
Forward == <<a, none, b>>
Reverted == <<a, b, a>>
=============================================================================
