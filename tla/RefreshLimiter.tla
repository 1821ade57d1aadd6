--------------------------- MODULE RefreshLimiter ---------------------------
(***************************************************************************)
(* The process-wide cap on on-demand refreshes: the semaphore inside       *)
(* RefreshCoordinator and the accounting that lets a reload resize it      *)
(* while refreshes hold permits (application/refresh.rs).                  *)
(*                                                                         *)
(* A shrink takes back the permits that are free and records the rest as   *)
(* debt, which acquire() settles.  Settling and acquiring are two steps:   *)
(* the limits' lock is released in between.  The semaphore is tokio's:     *)
(* waiters queue in order and a returned permit goes straight to the first.*)
(***************************************************************************)
EXTENDS Naturals, Sequences, FiniteSets

CONSTANTS
    Callers,    \* refreshes that may want a permit
    Sizes       \* values refresh_max_concurrent is configured with

\* What a usize can be given.
Declared == Sizes \cap Nat

VARIABLES
    capacity,   \* Limits::capacity
    debt,       \* Limits::shrink_debt
    available,  \* free permits of the semaphore
    queue,      \* callers waiting for a permit, oldest first
    at          \* where each caller is in acquire()

limiterVars == <<capacity, debt, available, queue, at>>

Smaller(m, n) == IF m <= n THEN m ELSE n

\* max_concurrent.max(1): zero would hang every refresh.
Clamp(n) == IF n = 0 THEN 1 ELSE n

Holding == {c \in Callers : at[c] = "holding"}

LimiterTypeOK ==
    /\ capacity \in Nat \ {0}
    /\ debt \in Nat
    /\ available \in Nat
    /\ queue \in Seq(Callers)
    /\ at \in [Callers -> {"away", "settled", "waiting", "holding"}]

LimiterInit ==
    /\ capacity \in {Clamp(n) : n \in Declared}
    /\ debt = 0
    /\ available = capacity
    /\ queue = <<>>
    /\ at = [c \in Callers |-> "away"]

\* Semaphore::add_permits: to the waiters first, the rest stays free.  Used
\* by a grow, and by one permit when a holder drops it; `from` is where the
\* callers were, the one that returned its permit included.
AddPermits(n, from) ==
    LET k      == Smaller(n, Len(queue))
        served == {queue[i] : i \in 1 .. k}
    IN  /\ available' = available + (n - k)
        /\ queue' = SubSeq(queue, k + 1, Len(queue))
        /\ at' = [c \in Callers |-> IF c \in served THEN "holding" ELSE from[c]]

\* RefreshCoordinator::resize.  Growing pays pending debt before it adds.
Resize(n) ==
    LET target == Clamp(n)
    IN  /\ capacity' = target
        /\ IF target >= capacity
           THEN LET cancelled == Smaller(target - capacity, debt)
                IN  /\ debt' = debt - cancelled
                    /\ AddPermits((target - capacity) - cancelled, at)
           ELSE LET shrink == capacity - target
                    forgot == Smaller(shrink, available)
                IN  /\ debt' = debt + (shrink - forgot)
                    /\ available' = available - forgot
                    /\ UNCHANGED <<queue, at>>

\* acquire(), first half: outstanding debt is taken out of the free permits.
Settle(c) ==
    /\ at[c] = "away"
    /\ at' = [at EXCEPT ![c] = "settled"]
    /\ LET forgot == Smaller(debt, available)
       IN  /\ debt' = debt - forgot
           /\ available' = available - forgot
    /\ UNCHANGED <<capacity, queue>>

\* Second half: a free permit, or a place in the queue.
Acquire(c) ==
    /\ at[c] = "settled"
    /\ IF available > 0
       THEN /\ at' = [at EXCEPT ![c] = "holding"]
            /\ available' = available - 1
            /\ UNCHANGED queue
       ELSE /\ at' = [at EXCEPT ![c] = "waiting"]
            /\ queue' = Append(queue, c)
            /\ UNCHANGED available
    /\ UNCHANGED <<capacity, debt>>

\* The permit is dropped when refresh_hosts returns, or is itself dropped.
Release(c) ==
    /\ at[c] = "holding"
    /\ AddPermits(1, [at EXCEPT ![c] = "away"])
    /\ UNCHANGED <<capacity, debt>>

\* A line that one who stands in it leaves.
Without(line, c) ==
    LET place == CHOOSE i \in DOMAIN line : line[i] = c
    IN  [i \in 1 .. Len(line) - 1 |-> IF i < place THEN line[i] ELSE line[i + 1]]

\* The request is dropped while it waits: it leaves the queue.
Abandon(c) ==
    /\ at[c] = "waiting"
    /\ at' = [at EXCEPT ![c] = "away"]
    /\ queue' = Without(queue, c)
    /\ UNCHANGED <<capacity, debt, available>>

LimiterNext ==
    \/ \E n \in Declared : Resize(n)
    \/ \E c \in Callers : Settle(c) \/ Acquire(c) \/ Release(c) \/ Abandon(c)

LimiterSpec == LimiterInit /\ [][LimiterNext]_limiterVars

\* Refreshes end (their budget sees to it) and a poll of acquire() does not
\* stop halfway; requests keep arriving.  Nobody is bound to resize or to
\* give up waiting.
LimiterFairness ==
    \A c \in Callers : /\ WF_limiterVars(Settle(c))
                       /\ WF_limiterVars(Acquire(c))
                       /\ WF_limiterVars(Release(c))

FairLimiter == LimiterSpec /\ LimiterFairness

-----------------------------------------------------------------------------
(* Properties.                                                             *)

\* Resizes, returns and settlements never lose or mint a permit: what is free
\* and what is held is the declared capacity plus the debt still owed.
PermitsConserved == available + Cardinality(Holding) = capacity + debt

\* While a shrink is unsettled concurrency stays within the old capacity: the
\* pool never exceeds what it was, or what a grow declares.
PoolOnlyGrowsAsDeclared ==
    [][capacity' + debt' <= capacity + debt \/ capacity' + debt' = capacity']_limiterVars

\* No permit lies free while somebody waits for one.
NobodyWaitsForAFreePermit == queue # <<>> => available = 0

-----------------------------------------------------------------------------
(* What a comment of the program says and the code does not do.            *)

\* "the pool converges on the declared capacity as traffic arrives" (acquire).
\* A permit returned while others wait goes to the first of them, and never
\* becomes free for acquire() to settle the debt with.
PoolConverges == debt > 0 ~> debt = 0
=============================================================================
