---------------------------- MODULE MCSnapshots ----------------------------
(***************************************************************************)
(* Model-checking instance of Snapshots.                                   *)
(***************************************************************************)
EXTENDS Snapshots, Integers, TLC

CONSTANTS s1, s2

Symmetry == Permutations(Sources)

InUse == {path, tmp} \cup {fd[w] : w \in Savers}

\* Generations matter by their differences, an unlinked inode and a dead
\* process's memory not at all; `earned` is for RestartsDoNotLaunder, whose
\* run does not use this view.
View ==
    <<phase, gaveUp, path, tmp, [i \in Inodes |-> IF i \in InUse THEN content[i] ELSE Torn],
      writes, restarts, failures, now, skipped,
      IF phase = "down" THEN <<>>
      ELSE <<configured, cache, unbumped, run, marking, boot, joined, tasks, snapshotting, generation - saved,
             IF step["task"] = "idle" THEN 0 ELSE generation - intended,
             step, left, image, fd, sole>> >>
=============================================================================
