------------------------------ MODULE ScanBudget ------------------------------
(***************************************************************************)
(* Scan jobs under a provider budget: the composition of the job queue     *)
(* with ProviderBudget, and the time at which execute_job retries a scan   *)
(* that the budget stopped (ProviderRateLimitExceeded of                   *)
(* app/services/schedules.py).                                             *)
(*                                                                         *)
(* The clock counts half seconds, so that a window may end between two     *)
(* whole seconds; it does not move during a call of the guard.             *)
(***************************************************************************)
EXTENDS ProviderBudget, JobQueue, FiniteSets

CONSTANTS
    WindowLength,   \* window_seconds, in half seconds
    MaxTime         \* bound: half seconds

ASSUME ScanAssumption ==
    /\ Consumers = Jobs
    /\ WindowLength \in Nat \ {0}
    /\ MaxAttempts \in Nat \ {0}
    /\ MaxTime \in Nat

VARIABLES
    clock,
    ends,       \* when the window of the budget ends
    available,  \* available_at of the jobs
    spent,      \* history: the windows that refused a job, since its last retry
    lost        \* history: the attempts of a job that failed otherwise

bvars == <<vars, queue, clock, ends, available, spent, lost>>

BudgetInit ==
    /\ Init
    /\ QueueInit
    /\ clock = 0
    /\ ends = 0
    /\ available = [j \in Jobs |-> 0]
    /\ spent = [j \in Jobs |-> {}]
    /\ lost = [j \in Jobs |-> 0]

ScanTypeOK ==
    /\ TypeOK
    /\ QueueTypeOK
    /\ clock \in 0..MaxTime
    /\ \A j \in Jobs : spent[j] \subseteq 0..budget.window

-----------------------------------------------------------------------------
Calling == \E j \in Jobs : consumer[j].at # "idle"

Tick ==
    /\ clock < MaxTime
    /\ ~Calling
    /\ clock' = clock + 1
    /\ IF budget.on /\ ~budget.over /\ clock' >= ends
       THEN WindowElapses ELSE UNCHANGED vars
    /\ UNCHANGED <<queue, ends, available, spent, lost>>

ReadBudgetForUpdate(a, limit) ==
    /\ ReadForUpdate(a, limit)
    /\ UNCHANGED <<queue, clock, ends, available, spent, lost>>

\* An update starts a window.
UpdateBudget(a) ==
    /\ configure_provider_budget(a)
    /\ ends' = IF budget'.window # budget.window THEN clock + WindowLength ELSE ends
    /\ UNCHANGED <<queue, clock, available, spent, lost>>

EnqueueScan(j) ==
    /\ Enqueue(j)
    /\ available' = [available EXCEPT ![j] = clock]
    /\ UNCHANGED <<vars, clock, ends, spent, lost>>

\* The job is claimed and its connector asks the guard.
StartScan(j) ==
    /\ Claim(j)
    /\ available[j] <= clock
    /\ BeginConsume(j)
    /\ UNCHANGED <<clock, ends, available, spent, lost>>

\* Mutant: the rest of a second is cut off.
RetrySecondsCut == (ends - clock) \div 2

\* retry_after_seconds of ProviderRateLimitExceeded
RetrySeconds == (ends - clock) \div 2 + 1

\* 2^attempts seconds, for the two attempts that are not the last.
Backoff(attempts) == IF attempts = 1 THEN 2 ELSE 4

RetryIn(j, seconds) == available' = [available EXCEPT ![j] = clock + 2 * seconds]

\* The guard reads the budget: without one the scan goes on, a spent one stops
\* it, otherwise the call goes on.
ScanUnmetered(j) ==
    /\ ~budget.on
    /\ ReadBudget(j)
    /\ Complete(j)
    /\ UNCHANGED <<clock, ends, available, spent, lost>>

ScanRefused(j) ==
    /\ budget.on /\ Decision = "idle"
    /\ ReadBudget(j)
    /\ Fail(j)
    /\ RetryIn(j, RetrySeconds)
    /\ spent' = [spent EXCEPT ![j] = @ \cup {budget.window}]
    /\ UNCHANGED <<clock, ends, lost>>

ScanDecides(j) ==
    /\ Decision # "idle"
    /\ ReadBudget(j)
    /\ UNCHANGED <<queue, clock, ends, available, spent, lost>>

\* After the last try the guard raises an error.
TriesLost(j) ==
    IF consumer'[j].at # "idle"
    THEN UNCHANGED <<queue, available, lost>>
    ELSE /\ Fail(j)
         /\ RetryIn(j, Backoff(queue[j].attempts))
         /\ lost' = [lost EXCEPT ![j] = @ + 1]

ScanResets(j) ==
    /\ ResetWindow(j)
    /\ ends' = IF budget'.window # budget.window THEN clock + WindowLength ELSE ends
    /\ TriesLost(j)
    /\ UNCHANGED <<clock, spent>>

\* The request is admitted, and the scan with it.
ScanCharges(j) ==
    /\ consumer[j].at = "charging"
    /\ Charge(j)
    /\ IF ChargeGuard(j) THEN Complete(j) /\ UNCHANGED <<available, lost>>
                         ELSE TriesLost(j)
    /\ UNCHANGED <<clock, ends, spent>>

RetryScan(j) ==
    /\ Retry(j)
    /\ available' = [available EXCEPT ![j] = clock]
    /\ spent' = [spent EXCEPT ![j] = {}]
    /\ lost' = [lost EXCEPT ![j] = 0]
    /\ UNCHANGED <<vars, clock, ends>>

BudgetArrives ==
    \/ \E a \in Admins, limit \in Limits : ReadBudgetForUpdate(a, limit)
    \/ \E j \in Jobs : RetryScan(j)

BudgetStep ==
    \/ Tick
    \/ \E a \in Admins : UpdateBudget(a)
    \/ \E j \in Jobs :
        \/ EnqueueScan(j) \/ StartScan(j) \/ ScanUnmetered(j) \/ ScanRefused(j)
        \/ ScanDecides(j) \/ ScanResets(j) \/ ScanCharges(j)

-----------------------------------------------------------------------------
\* A refused scan is tried again in another window: whenever a job has failed
\* for good, each of its attempts was refused by a window of its own or lost
\* the race for the budget.
GivesUpAfterWindows ==
    \A j \in Jobs :
        queue[j].status = "failed" => Cardinality(spent[j]) + lost[j] = MaxAttempts
=============================================================================
