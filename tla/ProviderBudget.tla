--------------------------- MODULE ProviderBudget ---------------------------
(***************************************************************************)
(* The request budget a tenant shares among all workers and synchronous    *)
(* scans of one provider: configure_provider_budget and                    *)
(* consume_provider_budget of app/services/schedules.py.                   *)
(*                                                                         *)
(* window_started_at is abstracted to the number of the window: two        *)
(* windows never start at the same instant.                                *)
(***************************************************************************)
EXTENDS Integers

CONSTANTS
    Consumers,      \* sessions that ask for provider requests
    Admins,         \* budget updates that may be in flight together
    Limits,         \* the values max_requests may be given
    MaxUpdates,     \* bound: budget updates in a behaviour
    MaxWindows      \* bound: windows that elapse

ASSUME BudgetAssumption ==
    /\ Limits \subseteq Nat \ {0}
    /\ MaxUpdates \in Nat
    /\ MaxWindows \in Nat

VARIABLES
    budget,     \* the provider_rate_limits row
    consumer,   \* consume_provider_budget calls in progress
    admin,      \* configure_provider_budget calls in progress
    updates,    \* updates begun, for the bound
    granted     \* history: requests admitted in the current window

vars == <<budget, consumer, admin, updates, granted>>

Budget == [on : BOOLEAN, max : Nat, used : Nat, window : Nat, over : BOOLEAN]
NoBudget == [on |-> FALSE, max |-> 0, used |-> 0, window |-> 0, over |-> FALSE]

Tries == 3      \* the for loop of consume_provider_budget

Consumer == [at : {"idle", "reading", "resetting", "charging"},
             tries : 0..(Tries - 1), copy : Budget]
IdleConsumer == [at |-> "idle", tries |-> 0, copy |-> NoBudget]

Admin == [at : {"idle", "writing"}, limit : Nat, copy : Budget]
IdleAdmin == [at |-> "idle", limit |-> 0, copy |-> NoBudget]

Init ==
    /\ budget = NoBudget
    /\ consumer = [c \in Consumers |-> IdleConsumer]
    /\ admin = [a \in Admins |-> IdleAdmin]
    /\ updates = 0
    /\ granted = 0

-----------------------------------------------------------------------------
WindowElapses ==
    /\ budget.on /\ ~budget.over
    /\ budget.window < MaxWindows
    /\ budget' = [budget EXCEPT !.over = TRUE]
    /\ UNCHANGED <<consumer, admin, updates, granted>>

ReadForUpdate(a, limit) ==
    /\ admin[a].at = "idle"
    /\ updates < MaxUpdates
    /\ admin' = [admin EXCEPT ![a] = [at |-> "writing", limit |-> limit,
                                      copy |-> budget]]
    /\ updates' = updates + 1
    /\ UNCHANGED <<budget, consumer, granted>>

\* A column is written only if the assigned value differs from the loaded one.
Written(current, loaded, assigned) ==
    IF assigned = loaded THEN current ELSE assigned

\* The update starts a window.  Inserting a row that now exists is refused by
\* the unique constraint on tenant and provider.
configure_provider_budget(a) ==
    /\ admin[a].at = "writing"
    /\ \/ /\ admin[a].copy.on \/ ~budget.on
          /\ budget' = [on |-> TRUE,
                        max |-> Written(budget.max, admin[a].copy.max, admin[a].limit),
                        used |-> Written(budget.used, admin[a].copy.used, 0),
                        window |-> budget.window + 1, over |-> FALSE]
          /\ granted' = 0
       \/ /\ ~admin[a].copy.on /\ budget.on
          /\ UNCHANGED <<budget, granted>>
    /\ admin' = [admin EXCEPT ![a] = IdleAdmin]
    /\ UNCHANGED <<consumer, updates>>

-----------------------------------------------------------------------------
\* consume_provider_budget.
BeginConsume(c) ==
    /\ consumer[c].at = "idle"
    /\ consumer' = [consumer EXCEPT ![c].at = "reading"]
    /\ UNCHANGED <<budget, admin, updates, granted>>

\* The read and the decision taken on it; without a budget, or with a spent
\* one, the call ends here (admitted unmetered, or refused).
Decision ==
    IF ~budget.on THEN "idle"
    ELSE IF budget.over THEN "resetting"
    ELSE IF budget.used + 1 > budget.max THEN "idle"
    ELSE "charging"

ReadBudget(c) ==
    /\ consumer[c].at = "reading"
    /\ consumer' = [consumer EXCEPT ![c] =
                        IF Decision = "idle" THEN IdleConsumer
                        ELSE [@ EXCEPT !.at = Decision, !.copy = budget]]
    /\ UNCHANGED <<budget, admin, updates, granted>>

\* A lost race uses up one of the tries; after the last the call raises.
NextTry(c) ==
    consumer' = [consumer EXCEPT ![c] =
                    IF @.tries + 1 = Tries THEN IdleConsumer
                    ELSE [at |-> "reading", tries |-> @.tries + 1, copy |-> NoBudget]]

SameWindow(c) == budget.window = consumer[c].copy.window

ResetWindow(c) ==
    /\ consumer[c].at = "resetting"
    /\ \/ /\ SameWindow(c)
          /\ budget' = [budget EXCEPT !.used = 0, !.window = @ + 1, !.over = FALSE]
          /\ granted' = 0
       \/ ~SameWindow(c) /\ UNCHANGED <<budget, granted>>
    /\ NextTry(c)
    /\ UNCHANGED <<admin, updates>>

\* Mutant: the charge compares the window only.
ChargeGuardWindow(c) == SameWindow(c)

ChargeGuard(c) == SameWindow(c) /\ budget.used = consumer[c].copy.used

Charge(c) ==
    /\ consumer[c].at = "charging"
    /\ \/ /\ ChargeGuard(c)
          /\ budget' = [budget EXCEPT !.used = consumer[c].copy.used + 1]
          /\ granted' = granted + 1
          /\ consumer' = [consumer EXCEPT ![c] = IdleConsumer]
       \/ /\ ~ChargeGuard(c)
          /\ NextTry(c)
          /\ UNCHANGED <<budget, granted>>
    /\ UNCHANGED <<admin, updates>>

Next ==
    \/ WindowElapses
    \/ \E a \in Admins :
        (\E limit \in Limits : ReadForUpdate(a, limit)) \/ configure_provider_budget(a)
    \/ \E c \in Consumers :
        BeginConsume(c) \/ ReadBudget(c) \/ ResetWindow(c) \/ Charge(c)

Spec == Init /\ [][Next]_vars

-----------------------------------------------------------------------------
\* Types of the row and of the calls in progress.
TypeOK ==
    /\ budget \in Budget
    /\ consumer \in [Consumers -> Consumer]
    /\ admin \in [Admins -> Admin]
    /\ updates \in 0..MaxUpdates
    /\ granted \in Nat

\* The budget is shared and bounded: however the calls of all sessions and
\* concurrent updates of the limit interleave, no window admits more requests
\* than the limit in force in it.
WithinBudget == budget.on => granted <= budget.max

\* Window numbers only grow, so a copy of an older window never matches.
CopiesAreOld ==
    /\ \A c \in Consumers : consumer[c].copy.window <= budget.window
    /\ \A a \in Admins : admin[a].copy.window <= budget.window

\* A pending charge of the current window was decided on the current limit.
ChargesAreCovered ==
    \A c \in Consumers :
        consumer[c].at = "charging" /\ consumer[c].copy.window = budget.window
        => /\ consumer[c].copy.max = budget.max
           /\ consumer[c].copy.used + 1 <= budget.max

\* The inductive invariant behind WithinBudget: every admitted request of the
\* window is counted in used_requests, and there is nothing to charge before
\* the first update.
BudgetInv ==
    /\ TypeOK
    /\ CopiesAreOld
    /\ ChargesAreCovered
    /\ granted <= budget.used
    /\ WithinBudget
    /\ ~budget.on => budget.max = 0 /\ granted = 0
=============================================================================
