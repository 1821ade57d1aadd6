------------------------------ MODULE ScriptRun ------------------------------
(***************************************************************************)
(* One run of a script in a child process: of a script connector, of a     *)
(* script enricher or of an endpoint's output (connectors/process.rs,      *)
(* enrichers/process.rs, output/process.rs, process_env.rs).  The child    *)
(* reads its input and writes its output through pipes that hold one piece *)
(* each; the service drains the output while a task of its own hands the   *)
(* input over.  Who called gives up after a timeout.                       *)
(***************************************************************************)
EXTENDS Naturals, Sequences, FiniteSets

CONSTANTS
    Scripts, \* of what kind, the pieces of input it is given, and its steps
    MaxBusy  \* spawns tried again while the file is busy

ASSUME ScriptRunAssumption == MaxBusy \in Nat /\ \A s \in Scripts : s.input \in Nat

VARIABLES
    script,  \* [kind, input, steps, parses]
    caller,  \* "spawning", "waiting", "joining", "done", "gone" or "unused"
    busy,    \* attempts to spawn a file that was busy
    child,   \* "none", "running", "exited" or "killed"
    step,    \* the child's next step
    stdin,   \* the pipe: pieces in it
    stdout,  \* the pipe the child writes to
    stderr,
    writer,  \* the task that hands the input over: "none", "writing", "ended", "broken", "failed"
    unsent,  \* pieces the writer still has
    answer   \* what the caller got: "none", "failed" or "data"

scriptVars == <<script, caller, busy, child, step, stdin, stdout, stderr, writer, unsent, answer>>

Pipe == 1 \* pieces a pipe holds

Blank ==
    /\ busy = 0
    /\ child = "none"
    /\ step = 1
    /\ stdin = 0
    /\ stdout = 0
    /\ stderr = 0
    /\ writer = "none"
    /\ answer = "none"

ScriptInit ==
    /\ script \in Scripts
    /\ caller = "spawning"
    /\ unsent = script.input
    /\ Blank

ScriptUnused ==
    /\ script = "none"
    /\ caller = "unused"
    /\ unsent = 0
    /\ Blank

-----------------------------------------------------------------------------
(* The service.                                                            *)

\* The exec of a file open for writing fails and ran nothing: it is tried
\* again a few times; any other failure is reported.
Spawn ==
    /\ caller = "spawning"
    /\ \/ /\ busy < MaxBusy /\ busy' = busy + 1
          /\ UNCHANGED <<caller, child, writer, answer>>
       \/ /\ caller' = "done" /\ answer' = "failed"
          /\ UNCHANGED <<busy, child, writer>>
       \/ /\ child' = "running" /\ caller' = "waiting"
          /\ writer' = IF script.kind = "connector" THEN "none" ELSE "writing"
          /\ UNCHANGED <<busy, answer>>
    /\ UNCHANGED <<script, step, stdin, stdout, stderr, unsent>>

\* A pipe whose reader has gone breaks the write; one that is full makes it
\* wait; the end of the data closes it.
WriteInput ==
    /\ writer = "writing"
    /\ \/ /\ child # "running" /\ writer' = "broken"
          /\ UNCHANGED <<stdin, unsent>>
       \/ /\ child = "running" /\ unsent > 0 /\ stdin < Pipe
          /\ stdin' = stdin + 1 /\ unsent' = unsent - 1
          /\ UNCHANGED writer
       \/ /\ child = "running" /\ unsent = 0 /\ writer' = "ended"
          /\ UNCHANGED <<stdin, unsent>>
    /\ UNCHANGED <<script, caller, busy, child, step, stdout, stderr, answer>>

\* Any other error of the pipe.
InputFails ==
    /\ writer = "writing" /\ child = "running"
    /\ writer' = "failed"
    /\ UNCHANGED <<script, caller, busy, child, step, stdin, stdout, stderr, unsent, answer>>

\* Faulty variant: the output is drained once the input has been written.
Drain_AfterInput ==
    /\ caller = "waiting" /\ writer # "writing"
    /\ \/ stdout > 0 /\ stdout' = 0 /\ UNCHANGED stderr
       \/ stderr > 0 /\ stderr' = 0 /\ UNCHANGED stdout
    /\ UNCHANGED <<script, caller, busy, child, step, stdin, writer, unsent, answer>>

\* wait_with_output reads both pipes while the child runs.
Drain ==
    /\ caller = "waiting"
    /\ \/ stdout > 0 /\ stdout' = 0 /\ UNCHANGED stderr
       \/ stderr > 0 /\ stderr' = 0 /\ UNCHANGED stdout
    /\ UNCHANGED <<script, caller, busy, child, step, stdin, writer, unsent, answer>>

\* The child has exited and its output is at its end.
Reap ==
    /\ caller = "waiting" /\ child = "exited" /\ stdout = 0 /\ stderr = 0
    /\ caller' = "joining"
    /\ UNCHANGED <<script, busy, child, step, stdin, stdout, stderr, writer, unsent, answer>>

Status == script.steps[Len(script.steps)]

\* The exit status counts first; then an error of the input, unless the child
\* just stopped reading; then whether the output parses.
Verdict ==
    IF Status = "exit 0" /\ writer # "failed" /\ script.parses THEN "data" ELSE "failed"

Return ==
    /\ caller = "joining" /\ writer # "writing"
    /\ caller' = "done"
    /\ answer' = Verdict
    /\ UNCHANGED <<script, busy, child, step, stdin, stdout, stderr, writer, unsent>>

\* The caller's timeout drops the run: the child is killed and the pipes go.
GiveUp ==
    /\ caller \in {"spawning", "waiting", "joining"}
    /\ caller' = "gone"
    /\ answer' = "failed"
    /\ child' = IF child = "running" THEN "killed" ELSE child
    /\ stdout' = 0
    /\ stderr' = 0
    /\ UNCHANGED <<script, busy, step, stdin, writer, unsent>>

-----------------------------------------------------------------------------
(* The script, one step after another.                                     *)

Does(what) == child = "running" /\ script.steps[step] = what
ChildGoes == step' = step + 1 /\ UNCHANGED <<script, caller, busy, child, writer, unsent, answer>>

\* Reads a piece, or finds the end of the input.
ChildReads ==
    /\ Does("read")
    /\ \/ stdin > 0 /\ stdin' = stdin - 1
       \/ stdin = 0 /\ writer # "writing" /\ UNCHANGED stdin
    /\ ChildGoes
    /\ UNCHANGED <<stdout, stderr>>

ChildWrites ==
    /\ \/ Does("print") /\ stdout < Pipe /\ stdout' = stdout + 1 /\ UNCHANGED stderr
       \/ Does("log") /\ stderr < Pipe /\ stderr' = stderr + 1 /\ UNCHANGED stdout
    /\ ChildGoes
    /\ UNCHANGED stdin

ChildExits ==
    /\ Does("exit 0") \/ Does("exit 1")
    /\ child' = "exited"
    /\ stdin' = 0
    /\ UNCHANGED <<script, caller, busy, step, stdout, stderr, writer, unsent, answer>>

ScriptNext ==
    \/ Spawn \/ WriteInput \/ InputFails \/ Drain \/ Reap \/ Return \/ GiveUp
    \/ ChildReads \/ ChildWrites \/ ChildExits

\* The service's tasks and a script that is not stuck in its own code keep
\* running; the caller's timeout is not counted on.
ScriptFairness ==
    /\ WF_scriptVars(Spawn) /\ WF_scriptVars(WriteInput) /\ WF_scriptVars(Drain)
    /\ WF_scriptVars(Reap) /\ WF_scriptVars(Return)
    /\ WF_scriptVars(ChildReads) /\ WF_scriptVars(ChildWrites) /\ WF_scriptVars(ChildExits)

-----------------------------------------------------------------------------

ScriptTypeOK ==
    /\ caller \in {"spawning", "waiting", "joining", "done", "gone", "unused"}
    /\ child \in {"none", "running", "exited", "killed"}
    /\ {stdin, stdout, stderr} \subseteq 0 .. Pipe /\ unsent \in Nat
    /\ writer \in {"none", "writing", "ended", "broken", "failed"}
    /\ answer \in {"none", "failed", "data"}

\* Data comes from a script that has ended well and whose input, if it read
\* all of it, was all there; and a script that ended well with output that
\* parses is believed although it left its input unread
\* (enrichers/process.rs:123).
AnswersAreTheScripts ==
    /\ answer = "data" => child = "exited" /\ Status = "exit 0" /\ script.parses
    /\ caller = "done" /\ child = "exited" /\ Status = "exit 0" /\ script.parses /\ writer # "failed"
          => answer = "data"

\* When a caller has returned or given up no script of its run is left
\* (connectors/process.rs:64).
NoScriptOutlivesItsCaller == caller \in {"done", "gone", "unused"} => child # "running"

\* A script that ends by itself is answered without its caller's timeout,
\* however much it prints before, while or after it is given its input
\* (enrichers/process.rs:78).
Hangs == \E i \in DOMAIN script.steps : script.steps[i] = "hang"
ScriptsAreAnswered == caller = "spawning" /\ ~Hangs ~> caller \in {"done", "gone"}
=============================================================================
