---------------------------- MODULE MCFederation ----------------------------
(***************************************************************************)
(* Model-checking instance of DatasetReads and RemotePull: every kind of   *)
(* reader, and the central, against one origin.                            *)
(***************************************************************************)
EXTENDS RemotePull, TLC

CONSTANTS src1, src2, h1, h2

MCMembers == <<src1, src2>>

\* Two hosts, and a sync that changes both: a host's pull then lands a mixture.
MCContents == {h1 :> 1 @@ h2 :> 1, h1 :> 2 @@ h2 :> 2}

\* What no step of the chosen kind reads is left out of the fingerprint.
View ==
    IF kind = "remote"
    THEN <<cache[Source], saved[Source], writes, restarts, kind, now, born, savedBorn, centralVars>>
    ELSE readsVars
=============================================================================
