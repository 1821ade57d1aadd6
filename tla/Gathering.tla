------------------------------ MODULE Gathering ------------------------------
(***************************************************************************)
(* What a sync, an enrichment or an endpoint waits for under its timeout:  *)
(* the fan-out of an ssh gather or the run of a script.  Which one is      *)
(* settled by the connector of the source, when it starts.                 *)
(***************************************************************************)
EXTENDS SshGather, ScriptRun

vars == <<sshVars, scriptVars>>

Init ==
    \/ SshInit /\ ScriptUnused
    \/ SshUnused /\ ScriptInit

SshStep == SshNext /\ UNCHANGED scriptVars
ScriptStep == ScriptNext /\ UNCHANGED sshVars
Next == SshStep \/ ScriptStep

Spec == Init /\ [][Next]_vars /\ SshFairness /\ ScriptFairness

-----------------------------------------------------------------------------

\* Whoever waited and no longer does, because it was answered or because its
\* timeout dropped the future, leaves no session, no remote task of its own
\* and no child process behind (ssh.rs:217, connectors/process.rs:64).
NothingOutlivesTheWait == NoSessionOutlivesTheGather /\ NoScriptOutlivesItsCaller

\* Every command runs under the eye of whoever asked for it, behind a key that
\* was verified (ssh.rs:50, ssh.rs:217).
NothingRunsUnwatched == NothingRunsUnverified /\ NothingOutlivesTheWait

\* With servers that hang and scripts that print as much as they like, a
\* gather of at least one permit and a script that ends are over without the
\* timeout of whoever waits for them (ssh.rs:235, enrichers/process.rs:78).
GathersAndScriptsEnd ==
    /\ GathersEnd
    /\ ScriptsAreAnswered

\* The states of a gather and of a script's run.
TypeOK ==
    /\ ScriptTypeOK
    /\ phase \in {"ready", "gathering", "done", "unused"} /\ permits \in Nat
    /\ \A i \in TaskIds :
          task[i].at \in {"queued", "dialling", "connected", "sending", "running", "joined"}

\* A gather accounts for every host it was asked for and a script's answer is
\* the one it ended with.
AnswersAreWhole == TypeOK /\ GatherAccountsForEveryHost /\ AnswersAreTheScripts
=============================================================================
