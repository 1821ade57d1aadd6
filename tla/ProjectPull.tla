----------------------------- MODULE ProjectPull -----------------------------
(***************************************************************************)
(* Pulls of one project's checkout (application/projects.rs): by the boot, *)
(* by the scheduler, by a request, one at a time under the lock of the     *)
(* checkout, each followed by its virtualenv (adapters/out/python.rs) and  *)
(* recorded in the project's history (domain/sync_health.rs).              *)
(*                                                                         *)
(* A commit is a number, 0 for no checkout; each has the requirements it   *)
(* asks for, NoReqs when it has no requirements.txt.                       *)
(***************************************************************************)
EXTENDS Naturals, Sequences

CONSTANTS
    Pullers,        \* who pulls; each has one pull at a time
    Requests,       \* the pullers a client waits for, and may leave
    MaxRev,         \* bound on the commits pushed
    Requirements,   \* [1 .. MaxRev -> what requirements.txt asks for]
    NoReqs,         \* no requirements.txt
    Mixed,          \* an interrupted install left some of both
    MaxFails,       \* bound on the steps that fail
    MaxPulls        \* bound on the pulls

ASSUME ProjectPullAssumption ==
    /\ Requests \subseteq Pullers
    /\ MaxRev \in Nat \ {0} /\ {MaxFails, MaxPulls} \subseteq Nat
    /\ DOMAIN Requirements = 1 .. MaxRev
    /\ Mixed # NoReqs /\ \A r \in 1 .. MaxRev : Requirements[r] # Mixed

VARIABLES
    remote,     \* the tip of the branch
    checkout,   \* the commit the checkout is at
    venv,       \* what is on disk of the virtualenv
    queue,      \* pullers at the checkout's lock, in order: the first one holds it
    pc,         \* [Pullers -> where its pull is]
    before,     \* [Pullers -> the commit its pull read first]
    asked,      \* [Pullers -> the tip when its pull began]
    history,    \* the project's runs, oldest first
    streak,     \* consecutive_failures of its health
    lost,       \* a client left in the middle of its pull
    fails, pulls

run == <<queue, pc, before, asked>>
record == <<history, streak>>
projectVars == <<remote, checkout, venv, run, record, lost, fails, pulls>>

Revs == 0 .. MaxRev
Wanted(r) == IF r = 0 THEN NoReqs ELSE Requirements[r]
Installable == {Wanted(r) : r \in Revs} \cup {NoReqs, Mixed}

TypeOK ==
    /\ remote \in 1 .. MaxRev /\ checkout \in 0 .. remote
    /\ venv \in [python : BOOLEAN, pip : BOOLEAN, installed : Installable, marker : Installable]
    /\ venv.marker # Mixed /\ (venv.pip => venv.python)
    /\ pc \in [Pullers -> {"idle", "queued", "git", "hung", "venv", "creating", "installing",
                           "marking", "pulled", "failed"}]
    /\ queue \in Seq(Pullers) /\ \A i, j \in DOMAIN queue : queue[i] = queue[j] => i = j
    /\ \A p \in Pullers : pc[p] # "idle" <=> \E i \in DOMAIN queue : queue[i] = p
    /\ \A i \in DOMAIN queue : i > 1 => pc[queue[i]] = "queued"
    /\ before \in [Pullers -> Revs] /\ asked \in [Pullers -> Revs]
    /\ history \in Seq([before : Revs, after : Revs, ok : BOOLEAN])
    /\ streak \in 0 .. Len(history)
    /\ \A i \in DOMAIN history : i > Len(history) - streak => ~history[i].ok
    /\ streak < Len(history) => history[Len(history) - streak].ok
    /\ lost \in BOOLEAN /\ fails \in 0 .. MaxFails /\ pulls \in 0 .. MaxPulls

\* A new process: a checkout and a virtualenv of an earlier one may be there.
Init ==
    /\ remote = 1 /\ checkout \in {0, 1}
    /\ \/ venv = [python |-> FALSE, pip |-> FALSE, installed |-> NoReqs, marker |-> NoReqs]
       \/ /\ checkout = 1 /\ Wanted(1) # NoReqs
          /\ venv = [python |-> TRUE, pip |-> TRUE, installed |-> Wanted(1), marker |-> Wanted(1)]
    /\ queue = <<>> /\ pc = [p \in Pullers |-> "idle"]
    /\ before = [p \in Pullers |-> 0] /\ asked = [p \in Pullers |-> 0]
    /\ history = <<>> /\ streak = 0 /\ lost = FALSE /\ fails = 0 /\ pulls = 0

Push ==
    /\ remote < MaxRev /\ remote' = remote + 1
    /\ UNCHANGED <<checkout, venv, run, record, lost, fails, pulls>>

-----------------------------------------------------------------------------
(* A pull.                                                                 *)

Go(p, where) == pc' = [pc EXCEPT ![p] = where]

Start(p) ==
    /\ pc[p] = "idle" /\ pulls < MaxPulls /\ pulls' = pulls + 1
    /\ Go(p, "queued") /\ queue' = Append(queue, p)
    /\ asked' = [asked EXCEPT ![p] = remote]
    /\ UNCHANGED <<remote, checkout, venv, before, record, lost, fails>>

\* The lock of the checkout is fair; the commit is read under it.
Lock(p) ==
    /\ pc[p] = "queued" /\ p = Head(queue) /\ Go(p, "git")
    /\ before' = [before EXCEPT ![p] = checkout]
    /\ UNCHANGED <<remote, checkout, venv, queue, asked, record, lost, fails, pulls>>

\* The clone, or the fetch and the hard reset.
GitWorks(p) ==
    /\ pc[p] = "git" /\ Go(p, "venv")
    /\ checkout' = remote
    /\ UNCHANGED <<remote, venv, queue, before, asked, record, lost, fails, pulls>>

\* The reset of an existing checkout may have happened.
HalfPulled == checkout' \in {checkout, IF checkout = 0 THEN 0 ELSE remote}

\* No credential, or an error of git.
GitFails(p) ==
    /\ pc[p] = "git" /\ fails < MaxFails /\ fails' = fails + 1
    /\ Go(p, "failed") /\ HalfPulled
    /\ UNCHANGED <<remote, venv, queue, before, asked, record, lost, pulls>>

GitHangs(p) ==
    /\ pc[p] = "git" /\ fails < MaxFails /\ fails' = fails + 1
    /\ Go(p, "hung") /\ HalfPulled
    /\ UNCHANGED <<remote, venv, queue, before, asked, record, lost, pulls>>

\* timeout_seconds have passed: git is killed.
TimesOut(p) ==
    /\ pc[p] = "hung" /\ Go(p, "failed")
    /\ UNCHANGED <<remote, checkout, venv, queue, before, asked, record, lost, fails, pulls>>

\* Faulty variant: a virtualenv with a python counts as installed.
VenvChecked_ByPython(p) ==
    /\ pc[p] = "venv"
    /\ Go(p, IF Wanted(checkout) = NoReqs \/ venv.python THEN "pulled" ELSE "creating")
    /\ UNCHANGED <<remote, checkout, venv, queue, before, asked, record, lost, fails, pulls>>

\* The requirements are compared with the marker of the last install.
VenvChecked(p) ==
    /\ pc[p] = "venv"
    /\ LET wanted == Wanted(checkout)
       IN  Go(p, IF wanted = NoReqs \/ wanted = venv.marker THEN "pulled"
                 ELSE IF ~venv.python THEN "creating" ELSE "installing")
    /\ UNCHANGED <<remote, checkout, venv, queue, before, asked, record, lost, fails, pulls>>

Created(p) ==
    /\ pc[p] = "creating" /\ Go(p, "installing")
    /\ venv' = [venv EXCEPT !.python = TRUE, !.pip = TRUE]
    /\ UNCHANGED <<remote, checkout, queue, before, asked, record, lost, fails, pulls>>

\* python3 -m venv links the interpreter first and installs pip last.
HalfCreated == \E python \in BOOLEAN : venv' = [venv EXCEPT !.python = python]

CreateFails(p) ==
    /\ pc[p] = "creating" /\ fails < MaxFails /\ fails' = fails + 1
    /\ Go(p, "failed") /\ HalfCreated
    /\ UNCHANGED <<remote, checkout, queue, before, asked, record, lost, pulls>>

Installed(p) ==
    /\ pc[p] = "installing" /\ venv.pip /\ Go(p, "marking")
    /\ venv' = [venv EXCEPT !.installed = Wanted(checkout)]
    /\ UNCHANGED <<remote, checkout, queue, before, asked, record, lost, fails, pulls>>

NoPip(p) ==
    /\ pc[p] = "installing" /\ ~venv.pip /\ Go(p, "failed")
    /\ UNCHANGED <<remote, checkout, venv, queue, before, asked, record, lost, fails, pulls>>

HalfInstalled == venv' \in {venv, [venv EXCEPT !.installed = Mixed]}

InstallFails(p) ==
    /\ pc[p] = "installing" /\ venv.pip /\ fails < MaxFails /\ fails' = fails + 1
    /\ Go(p, "failed") /\ HalfInstalled
    /\ UNCHANGED <<remote, checkout, queue, before, asked, record, lost, pulls>>

\* Only after a successful install.
Marked(p) ==
    /\ pc[p] = "marking" /\ Go(p, "pulled")
    /\ venv' = [venv EXCEPT !.marker = Wanted(checkout)]
    /\ UNCHANGED <<remote, checkout, queue, before, asked, record, lost, fails, pulls>>

MarkFails(p) ==
    /\ pc[p] = "marking" /\ fails < MaxFails /\ fails' = fails + 1
    /\ Go(p, "failed")
    /\ UNCHANGED <<remote, checkout, venv, queue, before, asked, record, lost, pulls>>

Unlock(p) ==
    LET place == CHOOSE i \in DOMAIN queue : queue[i] = p
    IN  queue' = [i \in 1 .. Len(queue) - 1 |-> IF i < place THEN queue[i] ELSE queue[i + 1]]

\* Faulty variant: only a pull that worked is written down.
Record_SuccessOnly(p) ==
    /\ pc[p] \in {"pulled", "failed"} /\ Go(p, "idle") /\ Unlock(p)
    /\ history' = IF pc[p] = "failed" THEN history
                  ELSE Append(history, [before |-> before[p], after |-> checkout, ok |-> TRUE])
    /\ streak' = IF pc[p] = "pulled" THEN 0 ELSE streak
    /\ UNCHANGED <<remote, checkout, venv, before, asked, lost, fails, pulls>>

\* The commit is read again, health and history record, the lock goes.
Record(p) ==
    /\ pc[p] \in {"pulled", "failed"} /\ Go(p, "idle") /\ Unlock(p)
    /\ history' = Append(history,
                         [before |-> before[p], after |-> checkout, ok |-> pc[p] = "pulled"])
    /\ streak' = IF pc[p] = "pulled" THEN 0 ELSE streak + 1
    /\ UNCHANGED <<remote, checkout, venv, before, asked, lost, fails, pulls>>

\* A client that leaves drops its pull where it is, and kills what it runs.
Leave(p) ==
    /\ p \in Requests /\ pc[p] # "idle" /\ fails < MaxFails /\ fails' = fails + 1
    /\ Go(p, "idle") /\ Unlock(p)
    /\ lost' = (lost \/ pc[p] # "queued")
    /\ CASE pc[p] = "creating" -> HalfCreated
         [] pc[p] = "installing" /\ venv.pip -> HalfInstalled
         [] OTHER -> UNCHANGED venv
    /\ IF pc[p] = "git" THEN HalfPulled ELSE UNCHANGED checkout
    /\ UNCHANGED <<remote, before, asked, record, pulls>>

Step(p) ==
    \/ Lock(p) \/ GitWorks(p) \/ GitFails(p) \/ TimesOut(p) \/ VenvChecked(p)
    \/ Created(p) \/ CreateFails(p) \/ Installed(p) \/ NoPip(p) \/ InstallFails(p)
    \/ Marked(p) \/ MarkFails(p) \/ Record(p)

Next == Push \/ \E p \in Pullers : Start(p) \/ Step(p) \/ GitHangs(p) \/ Leave(p)

Spec == Init /\ [][Next]_projectVars

\* Every step of a pull ends, git, python and pip by their timeout.
FairSpec == Spec /\ \A p \in Pullers : WF_projectVars(Step(p))

-----------------------------------------------------------------------------
(* Properties.                                                             *)

\* The rows of the history are the moves of the checkout: they never overlap,
\* and without a client that left none is missing, however pulls queue.
HistoryExplainsTheCheckout ==
    /\ \A i \in 1 .. Len(history) - 1 :
          IF lost THEN history[i].after <= history[i + 1].before
          ELSE history[i].after = history[i + 1].before
    /\ (history # <<>> /\ ~lost /\ \A p \in Pullers : pc[p] \in {"idle", "queued"})
          => history[Len(history)].after = checkout

\* A pull that reports success left the checkout at a tip as new as the branch
\* was when it was asked for, with its requirements installed.
SuccessMeansReady ==
    [][\A p \in Pullers :
          (pc[p] = "pulled" /\ pc'[p] = "idle" /\ history' # history) =>
              /\ checkout >= asked[p]
              /\ Wanted(checkout) \in {NoReqs, venv.installed}]_projectVars

\* Every pull ends, and lets the next one have the checkout.
PullsEnd == \A p \in Pullers : pc[p] # "idle" ~> pc[p] = "idle"

\* Every pull ends, and one that says it succeeded left the project ready.
PullsEndReady == []TypeOK /\ SuccessMeansReady /\ PullsEnd

-----------------------------------------------------------------------------
(* What the docs and comments say and the code does not do.                *)

\* "Bring [the virtualenv] in step with [...] requirements.txt" (ports/venv.rs):
\* a pull fails only when something goes wrong in it, not for what an earlier
\* one left behind.
NothingIsLeftBroken ==
    [][\A p \in Pullers :
          (pc[p] \notin {"failed", "hung"} /\ pc'[p] = "failed") => fails' > fails]_projectVars

\* "Every sync records" (docs/projects.md): no move of the checkout is missing
\* from the history.
EveryMoveIsRecorded ==
    (history # <<>> /\ \A p \in Pullers : pc[p] \in {"idle", "queued"})
      => history[Len(history)].after = checkout
=============================================================================
