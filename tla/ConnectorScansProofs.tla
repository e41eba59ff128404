------------------------- MODULE ConnectorScansProofs -------------------------
(***************************************************************************)
(* Connector scans, for any number of sessions, jobs, windows and items:   *)
(* the request budget of a provider holds (BudgetInv is inductive), a scan *)
(* job gives up only after it used up its attempts, a walk through the     *)
(* cursors finds what was there all along, and what is classified with low *)
(* confidence is reviewed.  Connector schedules, for any number of workers *)
(* and schedules: no scan is enqueued early, none twice for an occurrence  *)
(* unless a pass over several schedules meets another worker's pass.       *)
(***************************************************************************)
EXTENDS ConnectorScans, ConnectorSchedules, FiniteSetTheorems, SequenceTheorems,
        WellFoundedInduction, TLAPS

-----------------------------------------------------------------------------
(***************************************************************************)
(* The budget of a provider.                                               *)
(***************************************************************************)

\* The row before the first update and the idle calls are well typed.
LEMMA IdleTypes ==
    /\ NoBudget \in Budget
    /\ IdleConsumer \in Consumer
    /\ IdleAdmin \in Admin
BY DEF NoBudget, Budget, IdleConsumer, Consumer, IdleAdmin, Admin, Tries

\* configure_provider_budget and consume_provider_budget start from no row.
LEMMA InitEstablishes == Init => BudgetInv
<1> SUFFICES ASSUME Init PROVE BudgetInv
    OBVIOUS
<1>1. TypeOK
    BY IdleTypes, BudgetAssumption DEF Init, TypeOK
<1>2. CopiesAreOld /\ ChargesAreCovered
    BY DEF Init, CopiesAreOld, ChargesAreCovered, NoBudget, IdleConsumer, IdleAdmin
<1>3. granted <= budget.used /\ WithinBudget
      /\ (~budget.on => budget.max = 0 /\ granted = 0)
    BY DEF Init, NoBudget, WithinBudget
<1> QED
    BY <1>1, <1>2, <1>3 DEF BudgetInv

\* A lost race leaves the call well typed and without a pending charge.
LEMMA NextTryIdles ==
    ASSUME TypeOK, NEW c \in Consumers, NextTry(c)
    PROVE  /\ consumer' \in [Consumers -> Consumer]
           /\ consumer'[c].at # "charging"
           /\ consumer'[c].copy = NoBudget
           /\ \A d \in Consumers \ {c} : consumer'[d] = consumer[d]
<1>1. consumer[c] \in Consumer
    BY DEF TypeOK
<1>2. consumer[c].tries \in 0..2
    BY <1>1 DEF Consumer, Tries
<1>3. CASE consumer[c].tries + 1 = 3
    BY <1>3, IdleTypes DEF NextTry, TypeOK, IdleConsumer, Tries
<1>4. CASE consumer[c].tries + 1 # 3
    <2>1. consumer[c].tries + 1 \in 0..2
        BY <1>2, <1>4
    <2>2. [at |-> "reading", tries |-> consumer[c].tries + 1, copy |-> NoBudget] \in Consumer
        BY <2>1, IdleTypes DEF Consumer, Tries
    <2> QED
        BY <1>4, <2>2 DEF NextTry, TypeOK, Tries
<1> QED
    BY <1>3, <1>4

\* One step of any session or administrator keeps the accounting exact.
LEMMA StepPreserves == BudgetInv /\ [Next]_vars => BudgetInv'
<1> SUFFICES ASSUME BudgetInv, [Next]_vars PROVE BudgetInv'
    OBVIOUS
<1>0. /\ TypeOK /\ CopiesAreOld /\ ChargesAreCovered /\ WithinBudget
      /\ granted <= budget.used
      /\ ~budget.on => budget.max = 0 /\ granted = 0
      /\ budget \in Budget
      /\ granted \in Nat
    BY DEF BudgetInv, TypeOK
<1>t. /\ \A c \in Consumers : consumer[c] \in Consumer /\ consumer[c].copy \in Budget
      /\ \A a \in Admins : admin[a] \in Admin /\ admin[a].copy \in Budget
    BY <1>0 DEF TypeOK, Consumer, Admin
<1>1. CASE WindowElapses
    BY <1>0, <1>t, <1>1 DEF WindowElapses, BudgetInv, TypeOK, CopiesAreOld,
        ChargesAreCovered, WithinBudget, Budget
<1>2. ASSUME NEW a \in Admins, NEW limit \in Limits, ReadForUpdate(a, limit)
      PROVE  BudgetInv'
    <2>1. admin' \in [Admins -> Admin] /\ updates' \in 0..MaxUpdates
        BY <1>0, <1>2, BudgetAssumption DEF ReadForUpdate, TypeOK, Admin
    <2>2. CopiesAreOld'
        BY <1>0, <1>2 DEF ReadForUpdate, CopiesAreOld, TypeOK, Budget
    <2> QED
        BY <1>0, <1>2, <2>1, <2>2 DEF ReadForUpdate, BudgetInv, TypeOK,
            ChargesAreCovered, WithinBudget
<1>3. ASSUME NEW a \in Admins, configure_provider_budget(a)
      PROVE  BudgetInv'
    <2>1. admin' \in [Admins -> Admin] /\ admin' = [admin EXCEPT ![a] = IdleAdmin]
        BY <1>0, <1>3, IdleTypes DEF configure_provider_budget, TypeOK
    <2>2. CASE admin[a].copy.on \/ ~budget.on
        <3> DEFINE m == Written(budget.max, admin[a].copy.max, admin[a].limit)
                   u == Written(budget.used, admin[a].copy.used, 0)
        <3>a. /\ budget' = [on |-> TRUE, max |-> m, used |-> u,
                            window |-> budget.window + 1, over |-> FALSE]
              /\ granted' = 0
              /\ UNCHANGED <<consumer, updates>>
            <4>1. ~(~admin[a].copy.on /\ budget.on)
                BY <2>2
            <4> QED
                BY <1>3, <4>1 DEF configure_provider_budget
        <3>b. m \in Nat /\ u \in Nat /\ budget.window + 1 \in Nat
            <4>1. admin[a].limit \in Nat /\ budget.max \in Nat /\ budget.used \in Nat
                  /\ budget.window \in Nat
                BY <1>0, <1>t DEF Budget, Admin
            <4> QED
                BY <4>1 DEF Written
        <3> HIDE DEF m, u
        <3>1. /\ budget' \in Budget
              /\ budget'.on
              /\ budget'.window = budget.window + 1
              /\ granted' = 0
              /\ UNCHANGED <<consumer, updates>>
            BY <3>a, <3>b DEF Budget
        <3>2. CopiesAreOld'
            BY <1>0, <1>t, <2>1, <3>1 DEF CopiesAreOld, Budget, IdleAdmin, NoBudget, TypeOK
        <3>3. ChargesAreCovered'
            BY <1>0, <1>t, <3>1 DEF CopiesAreOld, ChargesAreCovered, Budget
        <3> QED
            BY <1>0, <2>1, <3>1, <3>2, <3>3 DEF BudgetInv, TypeOK, WithinBudget, Budget
    <2>3. CASE ~(admin[a].copy.on \/ ~budget.on)
        <3>1. UNCHANGED <<budget, granted, consumer, updates>>
            BY <1>3, <2>3 DEF configure_provider_budget
        <3>2. CopiesAreOld'
            BY <1>0, <2>1, <3>1 DEF CopiesAreOld, IdleAdmin, NoBudget, TypeOK, Budget
        <3> QED
            BY <1>0, <2>1, <3>1, <3>2 DEF BudgetInv, TypeOK, ChargesAreCovered, WithinBudget
    <2> QED
        BY <2>2, <2>3
<1>4. ASSUME NEW c \in Consumers, BeginConsume(c)
      PROVE  BudgetInv'
    <2>1. consumer' \in [Consumers -> Consumer]
        BY <1>0, <1>t, <1>4 DEF BeginConsume, TypeOK, Consumer
    <2> QED
        BY <1>0, <1>t, <1>4, <2>1 DEF BeginConsume, BudgetInv, TypeOK, CopiesAreOld,
            ChargesAreCovered, WithinBudget
<1>5. ASSUME NEW c \in Consumers, ReadBudget(c)
      PROVE  BudgetInv'
    <2>0. Decision \in {"idle", "resetting", "charging"}
        BY DEF Decision
    <2>1. consumer' \in [Consumers -> Consumer]
        BY <1>0, <1>t, <1>5, <2>0, IdleTypes DEF ReadBudget, TypeOK, Consumer
    <2>2. /\ UNCHANGED <<budget, admin, updates, granted>>
          /\ \A d \in Consumers \ {c} : consumer'[d] = consumer[d]
          /\ \/ consumer'[c] = IdleConsumer
             \/ /\ consumer'[c].copy = budget
                /\ consumer'[c].at = Decision
        BY <1>0, <1>t, <1>5 DEF ReadBudget, TypeOK, Consumer
    <2>3. Decision = "charging" => budget.used + 1 <= budget.max
        BY <1>0 DEF Decision, Budget
    <2>4. CopiesAreOld'
        BY <1>0, <1>t, <2>2 DEF CopiesAreOld, IdleConsumer, NoBudget, Budget
    <2>5. ChargesAreCovered'
        BY <1>0, <1>t, <2>2, <2>3 DEF ChargesAreCovered, IdleConsumer
    <2> QED
        BY <1>0, <2>1, <2>2, <2>4, <2>5 DEF BudgetInv, TypeOK, WithinBudget
<1>6. ASSUME NEW c \in Consumers, ResetWindow(c)
      PROVE  BudgetInv'
    <2>0. /\ consumer' \in [Consumers -> Consumer]
          /\ consumer'[c].at # "charging"
          /\ consumer'[c].copy = NoBudget
          /\ \A d \in Consumers \ {c} : consumer'[d] = consumer[d]
          /\ UNCHANGED <<admin, updates>>
        BY <1>0, <1>6, NextTryIdles DEF ResetWindow
    <2>1. CASE SameWindow(c)
        <3>1. /\ budget' = [budget EXCEPT !.used = 0, !.window = @ + 1, !.over = FALSE]
              /\ granted' = 0
            BY <1>6, <2>1 DEF ResetWindow
        <3>2. /\ budget' \in Budget
              /\ budget'.window = budget.window + 1
              /\ budget'.on = budget.on
              /\ budget'.max = budget.max
              /\ budget'.used = 0
            <4>1. budget \in Budget
                BY <1>0
            <4>2. budget'.window = budget.window + 1 /\ budget'.used = 0
                BY <3>1, <4>1 DEF Budget
            <4>3. budget'.on = budget.on /\ budget'.max = budget.max
                BY <3>1, <4>1 DEF Budget
            <4>4. budget' \in Budget
                <5>1. budget.window + 1 \in Nat /\ 0 \in Nat
                    BY <4>1 DEF Budget
                <5> QED
                    BY <3>1, <4>1, <5>1, Zenon DEF Budget
            <4> QED
                BY <4>2, <4>3, <4>4
        <3>3. CopiesAreOld'
            BY <1>0, <1>t, <2>0, <3>2 DEF CopiesAreOld, NoBudget, Budget
        <3>4. ChargesAreCovered'
            BY <1>0, <1>t, <2>0, <3>2 DEF CopiesAreOld, ChargesAreCovered, Budget
        <3> QED
            BY <1>0, <2>0, <3>1, <3>2, <3>3, <3>4
            DEF BudgetInv, TypeOK, WithinBudget, Budget
    <2>2. CASE ~SameWindow(c)
        <3>1. UNCHANGED <<budget, granted>>
            BY <1>6, <2>2 DEF ResetWindow
        <3>2. CopiesAreOld' /\ ChargesAreCovered'
            BY <1>0, <1>t, <2>0, <3>1 DEF CopiesAreOld, ChargesAreCovered, NoBudget, Budget
        <3> QED
            BY <1>0, <2>0, <3>1, <3>2 DEF BudgetInv, TypeOK, WithinBudget
    <2> QED
        BY <2>1, <2>2
<1>7. ASSUME NEW c \in Consumers, Charge(c)
      PROVE  BudgetInv'
    <2>1. CASE ChargeGuard(c)
        <3>1. /\ budget' = [budget EXCEPT !.used = consumer[c].copy.used + 1]
              /\ granted' = granted + 1
              /\ consumer' = [consumer EXCEPT ![c] = IdleConsumer]
              /\ UNCHANGED <<admin, updates>>
              /\ consumer[c].at = "charging"
            BY <1>7, <2>1 DEF Charge
        <3>2. /\ budget.used = consumer[c].copy.used
              /\ consumer[c].copy.window = budget.window
            BY <2>1 DEF ChargeGuard, SameWindow
        <3>3. budget.used + 1 <= budget.max
            BY <1>0, <3>1, <3>2 DEF ChargesAreCovered
        <3>4. /\ budget' \in Budget
              /\ budget'.window = budget.window
              /\ budget'.on = budget.on
              /\ budget'.max = budget.max
              /\ budget'.used = budget.used + 1
            BY <1>0, <3>1, <3>2 DEF Budget
        <3>5. /\ consumer' \in [Consumers -> Consumer]
              /\ consumer'[c] = IdleConsumer
              /\ \A d \in Consumers \ {c} : consumer'[d] = consumer[d]
            BY <1>0, <3>1, IdleTypes DEF TypeOK
        <3>6. CopiesAreOld'
            BY <1>0, <1>t, <3>1, <3>4, <3>5 DEF CopiesAreOld, IdleConsumer, NoBudget, Budget
        <3>7. ChargesAreCovered'
            BY <1>0, <1>t, <3>4, <3>5 DEF ChargesAreCovered, IdleConsumer
        <3>8. /\ granted' <= budget'.used
              /\ WithinBudget'
              /\ ~budget'.on => budget'.max = 0 /\ granted' = 0
            BY <1>0, <3>1, <3>3, <3>4 DEF WithinBudget, Budget
        <3> QED
            BY <1>0, <3>1, <3>4, <3>5, <3>6, <3>7, <3>8 DEF BudgetInv, TypeOK
    <2>2. CASE ~ChargeGuard(c)
        <3>0. NextTry(c) /\ UNCHANGED <<budget, granted, admin, updates>>
            BY <1>7, <2>2 DEF Charge
        <3>1. /\ consumer' \in [Consumers -> Consumer]
              /\ consumer'[c].at # "charging"
              /\ consumer'[c].copy = NoBudget
              /\ \A d \in Consumers \ {c} : consumer'[d] = consumer[d]
            BY <1>0, <3>0, NextTryIdles
        <3>2. CopiesAreOld' /\ ChargesAreCovered'
            BY <1>0, <1>t, <3>0, <3>1 DEF CopiesAreOld, ChargesAreCovered, NoBudget, Budget
        <3> QED
            BY <1>0, <3>0, <3>1, <3>2 DEF BudgetInv, TypeOK, WithinBudget
    <2> QED
        BY <2>1, <2>2
<1>8. CASE UNCHANGED vars
    BY <1>0, <1>8 DEF vars, BudgetInv, TypeOK, CopiesAreOld, ChargesAreCovered, WithinBudget
<1> QED
    BY <1>1, <1>2, <1>3, <1>4, <1>5, <1>6, <1>7, <1>8 DEF Next

\* In every reachable state used_requests counts every request admitted in
\* the window, and a pending charge was decided on the limit in force.
THEOREM BudgetInvariant == Spec => []BudgetInv
    BY InitEstablishes, StepPreserves, PTL DEF Spec

\* consume_provider_budget never admits more requests in a window than
\* max_requests, for any number of workers, updates and windows.
THEOREM BudgetHolds == Spec => []WithinBudget
<1>1. BudgetInv => WithinBudget
    BY DEF BudgetInv
<1> QED
    BY <1>1, BudgetInvariant, PTL


-----------------------------------------------------------------------------
(***************************************************************************)
(* Scan jobs under the budget.                                             *)
(***************************************************************************)
JobRow == [status : JobStatuses, attempts : Nat]

ScanTypes ==
    /\ queue \in [Jobs -> JobRow]
    /\ clock \in Nat /\ ends \in Nat
    /\ available \in [Jobs -> Nat]
    /\ lost \in [Jobs -> Nat]
    /\ spent \in [Jobs -> SUBSET Nat]
    /\ \A j \in Jobs : IsFiniteSet(spent[j])

\* A window that is not over ends later, ...
WindowGoesOn == budget.on /\ ~budget.over => clock < ends

\* ... the windows that refused a job are not to come, ...
SpentIsPast == \A j \in Jobs : \A n \in spent[j] : n <= budget.window

\* ... and a job that the window in force has refused waits for its end.
WaitsForWindow ==
    \A j \in Jobs :
        /\ budget.on /\ ~budget.over
        /\ budget.window \in spent[j]
        /\ queue[j].status \in {"pending", "running"}
        => queue[j].status = "pending" /\ available[j] >= ends

\* What stopped a job's attempts since its last retry.
Stops(j) == Cardinality(spent[j]) + lost[j]

\* Every attempt that ended was refused by a window of its own or lost the race.
AttemptsAccounted ==
    \A j \in Jobs :
        /\ queue[j].status = "absent" =>
            Stops(j) = 0 /\ queue[j].attempts = 0
        /\ queue[j].status = "pending" =>
            Stops(j) = queue[j].attempts /\ queue[j].attempts < MaxAttempts
        /\ queue[j].status = "running" =>
            Stops(j) + 1 = queue[j].attempts /\ queue[j].attempts <= MaxAttempts
        /\ queue[j].status = "failed" => Stops(j) = MaxAttempts

ScanInv ==
    /\ BudgetInv
    /\ ScanTypes
    /\ WindowGoesOn
    /\ SpentIsPast
    /\ WaitsForWindow
    /\ AttemptsAccounted

\* Whatever happens to scans and jobs is a step of the budget, or none.
LEMMA ScansUseBudget == ScansNext \/ UNCHANGED allvars => [Next]_vars
<1> SUFFICES ASSUME ScansNext \/ UNCHANGED allvars PROVE [Next]_vars
    OBVIOUS
<1>1. CASE UNCHANGED allvars
    BY <1>1 DEF allvars, bvars
<1>2. CASE UNCHANGED bvars
    BY <1>2 DEF bvars
<1>3. CASE BudgetArrives
    BY <1>3 DEF BudgetArrives, ReadBudgetForUpdate, RetryScan, Next
<1>4. CASE BudgetStep
    <2>1. CASE Tick
        BY <2>1 DEF Tick, Next
    <2>2. CASE \E a \in Admins : UpdateBudget(a)
        BY <2>2 DEF UpdateBudget, Next
    <2>3. ASSUME NEW j \in Jobs,
                 EnqueueScan(j) \/ StartScan(j) \/ ScanUnmetered(j) \/ ScanRefused(j)
                 \/ ScanDecides(j) \/ ScanResets(j) \/ ScanCharges(j)
          PROVE  [Next]_vars
        <3>1. j \in Consumers
            BY ScanAssumption
        <3> QED
            BY <2>3, <3>1 DEF EnqueueScan, StartScan, ScanUnmetered, ScanRefused,
                ScanDecides, ScanResets, ScanCharges, Next
    <2> QED
        BY <1>4, <2>1, <2>2, <2>3 DEF BudgetStep
<1> QED
    BY <1>1, <1>2, <1>3, <1>4 DEF ScansNext

LEMMA InitScans == ScansInit => ScanInv
<1> SUFFICES ASSUME ScansInit PROVE ScanInv
    OBVIOUS
<1>1. BudgetInit /\ Init /\ QueueInit
    BY DEF ScansInit, BudgetInit
<1>2. BudgetInv
    BY <1>1, InitEstablishes
<1>3. IsFiniteSet({}) /\ Cardinality({}) = 0
    BY FS_EmptySet
<1>4. \A j \in Jobs : queue[j] = AbsentJob /\ spent[j] = {} /\ lost[j] = 0
    BY <1>1 DEF BudgetInit, QueueInit
<1>5. ScanTypes
    BY <1>1, <1>3 DEF BudgetInit, QueueInit, ScanTypes, JobRow, AbsentJob, JobStatuses
<1>6. WindowGoesOn /\ SpentIsPast /\ WaitsForWindow
    BY <1>1, <1>4 DEF Init, NoBudget, WindowGoesOn, SpentIsPast, WaitsForWindow
<1>7. AttemptsAccounted
    BY <1>3, <1>4, ScanAssumption DEF AttemptsAccounted, AbsentJob, Stops
<1> QED
    BY <1>2, <1>5, <1>6, <1>7 DEF ScanInv

\* configure_provider_budget and consume_provider_budget leave the window, or
\* start one.
WindowStays ==
    /\ budget'.on = budget.on /\ budget'.over = budget.over
    /\ budget'.window = budget.window /\ ends' = ends
WindowStarts ==
    budget'.window = budget.window + 1 /\ ends' = clock + WindowLength

LEMMA ScanFacts ==
    ASSUME ScanInv
    PROVE  /\ budget \in Budget /\ budget.window \in Nat /\ budget.on \in BOOLEAN
           /\ budget.over \in BOOLEAN
           /\ \A j \in Jobs : /\ queue[j] \in JobRow /\ queue[j].attempts \in Nat
                              /\ available[j] \in Nat /\ lost[j] \in Nat
                              /\ spent[j] \subseteq Nat /\ IsFiniteSet(spent[j])
                              /\ Cardinality(spent[j]) \in Nat /\ Stops(j) \in Nat
<1>1. budget \in Budget
    BY DEF ScanInv, BudgetInv, TypeOK
<1>2. \A j \in Jobs : /\ queue[j] \in JobRow /\ queue[j].attempts \in Nat
                      /\ available[j] \in Nat /\ lost[j] \in Nat
                      /\ spent[j] \subseteq Nat /\ IsFiniteSet(spent[j])
    BY DEF ScanInv, ScanTypes, JobRow
<1>3. \A j \in Jobs : Cardinality(spent[j]) \in Nat
    BY <1>2, FS_CardinalityType
<1> QED
    BY <1>1, <1>2, <1>3 DEF Budget, Stops

LEMMA WindowMoves ==
    ASSUME ScanInv, UNCHANGED clock, WindowStays \/ WindowStarts
    PROVE  /\ WindowGoesOn' /\ ends' \in Nat
           /\ \A j \in Jobs : \A n \in spent[j] : n <= budget'.window
           /\ \A j \in Jobs :
                budget'.on /\ ~budget'.over /\ budget'.window \in spent[j] =>
                    /\ budget.on /\ ~budget.over /\ budget.window \in spent[j]
                    /\ ends' = ends
<1>1. clock \in Nat /\ ends \in Nat /\ WindowLength \in Nat \ {0}
    BY ScanAssumption DEF ScanInv, ScanTypes
<1>2. /\ budget.window \in Nat
      /\ \A j \in Jobs : spent[j] \subseteq Nat /\ \A n \in spent[j] : n <= budget.window
    BY ScanFacts DEF ScanInv, SpentIsPast
<1>3. CASE WindowStays
    BY <1>1, <1>2, <1>3 DEF WindowStays, ScanInv, WindowGoesOn
<1>4. CASE WindowStarts
    <2>1. clock < clock + WindowLength /\ clock + WindowLength \in Nat
        BY <1>1
    <2>2. WindowGoesOn' /\ ends' \in Nat
        BY <1>4, <2>1 DEF WindowStarts, WindowGoesOn
    <2>3. \A j \in Jobs : \A n \in spent[j] : n <= budget'.window /\ n # budget'.window
        BY <1>2, <1>4 DEF WindowStarts
    <2> QED
        BY <2>2, <2>3
<1> QED
    BY <1>3, <1>4

\* What a job owns.
JobKept(k) ==
    /\ queue'[k] = queue[k] /\ available'[k] = available[k]
    /\ spent'[k] = spent[k] /\ lost'[k] = lost[k]

LEMMA FailMoves ==
    ASSUME ScanInv, NEW j \in Jobs, Fail(j)
    PROVE  /\ queue' \in [Jobs -> JobRow]
           /\ queue[j].status = "running"
           /\ queue'[j].attempts = queue[j].attempts
           /\ queue'[j].status = IF queue[j].attempts >= MaxAttempts THEN "failed" ELSE "pending"
           /\ \A k \in Jobs \ {j} : queue'[k] = queue[k]
<1>1. queue \in [Jobs -> JobRow] /\ queue[j] \in JobRow
    BY DEF ScanInv, ScanTypes
<1> DEFINE new == AfterFailure(queue[j])
<1>2. /\ new \in JobRow /\ new.attempts = queue[j].attempts
      /\ new.status = IF queue[j].attempts >= MaxAttempts THEN "failed" ELSE "pending"
    BY <1>1 DEF AfterFailure, JobRow, JobStatuses
<1>3. queue' = [queue EXCEPT ![j] = new] /\ queue[j].status = "running"
    BY DEF Fail
<1> HIDE DEF new
<1> QED
    BY <1>1, <1>2, <1>3

\* The invariant is kept when the window stays or starts, time stands still and
\* one job moves as it may.
LEMMA OneJobMoves ==
    ASSUME ScanInv, BudgetInv', UNCHANGED clock, WindowStays \/ WindowStarts,
           NEW j \in Jobs, \A k \in Jobs \ {j} : JobKept(k),
           ScanTypes',
           \A n \in spent'[j] : n <= budget'.window,
           budget'.on /\ ~budget'.over /\ budget'.window \in spent'[j]
             /\ queue'[j].status \in {"pending", "running"}
             => queue'[j].status = "pending" /\ available'[j] >= ends',
           /\ queue'[j].status = "absent" =>
                Stops(j)' = 0 /\ queue'[j].attempts = 0
           /\ queue'[j].status = "pending" =>
                Stops(j)' = queue'[j].attempts /\ queue'[j].attempts < MaxAttempts
           /\ queue'[j].status = "running" =>
                Stops(j)' + 1 = queue'[j].attempts /\ queue'[j].attempts <= MaxAttempts
           /\ queue'[j].status = "failed" => Stops(j)' = MaxAttempts
    PROVE  ScanInv'
<1>1. /\ WindowGoesOn'
      /\ \A k \in Jobs : \A n \in spent[k] : n <= budget'.window
      /\ \A k \in Jobs :
            budget'.on /\ ~budget'.over /\ budget'.window \in spent[k] =>
                /\ budget.on /\ ~budget.over /\ budget.window \in spent[k]
                /\ ends' = ends
    BY WindowMoves
<1>2. SpentIsPast'
    BY <1>1 DEF SpentIsPast, JobKept
<1>3. WaitsForWindow'
    BY <1>1 DEF WaitsForWindow, JobKept, ScanInv
<1>4. \A k \in Jobs \ {j} : Stops(k)' = Stops(k)
    BY DEF Stops, JobKept
<1>5. AttemptsAccounted'
    BY <1>4 DEF AttemptsAccounted, JobKept, ScanInv
<1> QED
    BY <1>1, <1>2, <1>3, <1>5 DEF ScanInv

LEMMA TickKeepsScans ==
    ASSUME ScanInv, BudgetInv', Tick
    PROVE  ScanInv'
<1>1. /\ clock' = clock + 1
      /\ UNCHANGED <<queue, ends, available, spent, lost>>
      /\ \/ /\ budget.on /\ ~budget.over /\ budget' = [budget EXCEPT !.over = TRUE]
         \/ /\ UNCHANGED budget
            /\ ~(budget.on /\ ~budget.over /\ clock' >= ends)
    BY DEF Tick, WindowElapses, vars
<1>2. clock \in Nat /\ ends \in Nat
    BY DEF ScanInv, ScanTypes
<1>3. ScanTypes'
    BY <1>1, <1>2 DEF ScanInv, ScanTypes
<1>4. AttemptsAccounted'
    <2>1. \A j \in Jobs : Stops(j)' = Stops(j)
        BY <1>1 DEF Stops
    <2> QED
        BY <1>1, <2>1 DEF ScanInv, AttemptsAccounted
<1>5. CASE /\ budget.on /\ ~budget.over /\ budget' = [budget EXCEPT !.over = TRUE]
    <2>1. budget'.over /\ budget'.window = budget.window
        BY <1>5, ScanFacts DEF Budget
    <2>2. WindowGoesOn' /\ WaitsForWindow'
        BY <2>1 DEF WindowGoesOn, WaitsForWindow
    <2>3. SpentIsPast'
        BY <1>1, <2>1 DEF ScanInv, SpentIsPast
    <2> QED
        BY <1>3, <1>4, <2>2, <2>3 DEF ScanInv
<1>6. CASE UNCHANGED budget /\ ~(budget.on /\ ~budget.over /\ clock' >= ends)
    <2>1. WindowGoesOn'
        BY <1>1, <1>2, <1>6 DEF WindowGoesOn
    <2>2. SpentIsPast' /\ WaitsForWindow'
        BY <1>1, <1>6 DEF ScanInv, SpentIsPast, WaitsForWindow
    <2> QED
        BY <1>3, <1>4, <2>1, <2>2 DEF ScanInv
<1> QED
    BY <1>1, <1>5, <1>6

\* Jobs rest while the window stays or starts.
LEMMA JobsRest ==
    ASSUME ScanInv, BudgetInv', UNCHANGED <<clock, queue, available, spent, lost>>,
           WindowStays \/ WindowStarts
    PROVE  ScanInv'
<1>1. /\ WindowGoesOn' /\ ends' \in Nat
      /\ \A k \in Jobs : \A n \in spent[k] : n <= budget'.window
      /\ \A k \in Jobs :
            budget'.on /\ ~budget'.over /\ budget'.window \in spent[k] =>
                /\ budget.on /\ ~budget.over /\ budget.window \in spent[k]
                /\ ends' = ends
    BY WindowMoves
<1>2. SpentIsPast' /\ WaitsForWindow'
    BY <1>1 DEF SpentIsPast, WaitsForWindow, ScanInv
<1>3. ScanTypes'
    BY <1>1 DEF ScanInv, ScanTypes
<1>4. \A j \in Jobs : Stops(j)' = Stops(j)
    BY DEF Stops
<1>5. AttemptsAccounted'
    BY <1>4 DEF AttemptsAccounted, ScanInv
<1> QED
    BY <1>1, <1>2, <1>3, <1>5 DEF ScanInv

LEMMA BudgetUpdates ==
    ASSUME ScanInv, BudgetInv', NEW a \in Admins, UpdateBudget(a)
    PROVE  ScanInv'
<1>1. UNCHANGED <<clock, queue, available, spent, lost>>
    BY DEF UpdateBudget
<1>2. budget.window \in Nat
    BY ScanFacts
<1>3. budget'.window = budget.window + 1 \/ UNCHANGED budget
    BY DEF UpdateBudget, configure_provider_budget
<1>4. WindowStays \/ WindowStarts
    BY <1>2, <1>3 DEF UpdateBudget, WindowStays, WindowStarts
<1> QED
    BY <1>1, <1>4, JobsRest

LEMMA ScanEnqueued ==
    ASSUME ScanInv, BudgetInv', NEW j \in Jobs, EnqueueScan(j)
    PROVE  ScanInv'
<1> DEFINE new == [status |-> "pending", attempts |-> 0]
<1>1. /\ queue[j].status = "absent" /\ queue' = [queue EXCEPT ![j] = new]
      /\ available' = [available EXCEPT ![j] = clock]
      /\ UNCHANGED <<budget, clock, ends, spent, lost>>
    BY DEF EnqueueScan, Enqueue, vars
<1>2. new \in JobRow /\ new.status = "pending" /\ new.attempts = 0
    BY DEF JobRow, JobStatuses
<1> HIDE DEF new
<1>3. Stops(j) = 0 /\ Stops(j)' = Stops(j)
    BY <1>1 DEF ScanInv, AttemptsAccounted, Stops
<1>4. spent[j] = {}
    <2>1. Cardinality(spent[j]) = 0
        BY <1>3, ScanFacts DEF Stops
    <2> QED
        BY <2>1, ScanFacts, FS_EmptySet
<1>5. ScanTypes'
    BY <1>1, <1>2 DEF ScanInv, ScanTypes
<1>6. queue'[j] = new /\ \A k \in Jobs \ {j} : JobKept(k)
    BY <1>1 DEF JobKept, ScanInv, ScanTypes
<1>7. WindowStays
    BY <1>1 DEF WindowStays
<1>8. /\ \A n \in spent'[j] : n <= budget'.window
      /\ budget'.window \notin spent'[j]
    BY <1>1, <1>4
<1> QED
    BY <1>1, <1>2, <1>3, <1>5, <1>6, <1>7, <1>8, OneJobMoves, ScanAssumption

LEMMA ScanStarts ==
    ASSUME ScanInv, BudgetInv', NEW j \in Jobs, StartScan(j)
    PROVE  ScanInv'
<1> DEFINE new == [status |-> "running", attempts |-> queue[j].attempts + 1]
<1>1. /\ queue[j].status = "pending" /\ queue' = [queue EXCEPT ![j] = new]
      /\ available[j] <= clock
      /\ UNCHANGED <<budget, clock, ends, available, spent, lost>>
    BY DEF StartScan, Claim, BeginConsume
<1>2. new \in JobRow /\ new.status = "running" /\ new.attempts = queue[j].attempts + 1
    BY ScanFacts DEF JobRow, JobStatuses
<1> HIDE DEF new
<1>3. Stops(j)' = queue[j].attempts /\ queue[j].attempts < MaxAttempts
    BY <1>1 DEF ScanInv, AttemptsAccounted, Stops
<1>5. ScanTypes'
    BY <1>1, <1>2 DEF ScanInv, ScanTypes
<1>6. queue'[j] = new /\ \A k \in Jobs \ {j} : JobKept(k)
    BY <1>1 DEF JobKept, ScanInv, ScanTypes
<1>7. WindowStays
    BY <1>1 DEF WindowStays
<1>8. ~(budget.on /\ ~budget.over /\ budget.window \in spent[j])
    <2>1. clock \in Nat /\ ends \in Nat /\ available[j] \in Nat
        BY ScanFacts DEF ScanInv, ScanTypes
    <2> QED
        BY <1>1, <2>1 DEF ScanInv, WindowGoesOn, WaitsForWindow
<1>9. \A n \in spent'[j] : n <= budget'.window
    BY <1>1 DEF ScanInv, SpentIsPast
<1>10. new.attempts <= MaxAttempts
    BY <1>2, <1>3, ScanFacts, ScanAssumption
<1> QED
    BY <1>1, <1>2, <1>3, <1>5, <1>6, <1>7, <1>8, <1>9, <1>10, OneJobMoves

LEMMA ScanCompletes ==
    ASSUME ScanInv, BudgetInv', NEW j \in Jobs, Complete(j), WindowStays,
           UNCHANGED <<clock, ends, available, spent, lost>>
    PROVE  ScanInv'
<1>1. /\ queue'[j].status = "completed"
      /\ \A k \in Jobs \ {j} : JobKept(k)
    BY DEF Complete, JobKept, ScanInv, ScanTypes, JobRow
<1>2. queue' \in [Jobs -> JobRow]
    BY DEF Complete, ScanInv, ScanTypes, JobRow, JobStatuses
<1>3. ScanTypes'
    BY <1>2 DEF ScanInv, ScanTypes
<1>4. \A n \in spent'[j] : n <= budget'.window
    BY DEF ScanInv, SpentIsPast, WindowStays
<1> QED
    BY <1>1, <1>3, <1>4, OneJobMoves

\* ProviderRateLimitExceeded: the job waits until the window in force is over,
\* and no window refuses it twice.
LEMMA ScanIsRefused ==
    ASSUME ScanInv, BudgetInv', NEW j \in Jobs, ScanRefused(j)
    PROVE  ScanInv'
<1> DEFINE w == budget.window
<1>1. /\ budget.on /\ Decision = "idle" /\ Fail(j)
      /\ available' = [available EXCEPT ![j] = clock + 2 * RetrySeconds]
      /\ spent' = [spent EXCEPT ![j] = spent[j] \cup {w}]
      /\ UNCHANGED <<budget, clock, ends, lost>>
    BY DEF ScanRefused, RetryIn, ReadBudget
<1>2. ~budget.over
    BY <1>1 DEF Decision
<1>3. /\ queue' \in [Jobs -> JobRow]
      /\ queue[j].status = "running"
      /\ queue'[j].attempts = queue[j].attempts
      /\ queue'[j].status = IF queue[j].attempts >= MaxAttempts THEN "failed" ELSE "pending"
      /\ \A k \in Jobs \ {j} : queue'[k] = queue[k]
    BY <1>1, FailMoves
<1>4. w \in Nat /\ clock \in Nat /\ ends \in Nat /\ clock < ends
    BY <1>1, <1>2, ScanFacts DEF ScanInv, ScanTypes, WindowGoesOn
<1>5. w \notin spent[j]
    BY <1>1, <1>2, <1>3 DEF ScanInv, WaitsForWindow
<1>6. /\ spent'[j] = spent[j] \cup {w} /\ lost'[j] = lost[j]
      /\ IsFiniteSet(spent'[j])
      /\ Cardinality(spent'[j]) = Cardinality(spent[j]) + 1
    <2>1. spent'[j] = spent[j] \cup {w} /\ lost'[j] = lost[j]
        BY <1>1 DEF ScanInv, ScanTypes
    <2>2. IsFiniteSet(spent[j])
        BY ScanFacts
    <2> HIDE DEF w
    <2>3. /\ IsFiniteSet(spent[j] \cup {w})
          /\ Cardinality(spent[j] \cup {w}) = Cardinality(spent[j]) + 1
        BY <1>5, <2>2, FS_AddElement
    <2> QED
        BY <2>1, <2>3
<1>7. clock + 2 * RetrySeconds \in Nat /\ clock + 2 * RetrySeconds >= ends
    BY <1>4 DEF RetrySeconds
<1>8. available'[j] >= ends' /\ available' \in [Jobs -> Nat]
    <2>1. available'[j] = clock + 2 * RetrySeconds /\ available' \in [Jobs -> Nat]
        BY <1>1, <1>7 DEF ScanInv, ScanTypes
    <2> QED
        BY <1>1, <1>7, <2>1
<1>9. \A k \in Jobs \ {j} : JobKept(k)
    BY <1>1, <1>3 DEF JobKept, ScanInv, ScanTypes
<1>10. ScanTypes'
    <2>1. \A k \in Jobs : IsFiniteSet(spent'[k])
        BY <1>6, <1>9 DEF JobKept, ScanInv, ScanTypes
    <2>2. spent' \in [Jobs -> SUBSET Nat]
        BY <1>1, <1>4 DEF ScanInv, ScanTypes
    <2> QED
        BY <1>1, <1>3, <1>8, <2>1, <2>2 DEF ScanInv, ScanTypes
<1>11. \A n \in spent'[j] : n <= budget'.window
    BY <1>1, <1>4, <1>6 DEF ScanInv, SpentIsPast
<1>12. Stops(j)' = queue[j].attempts /\ queue[j].attempts <= MaxAttempts
    <2>1. Stops(j)' = Stops(j) + 1
        BY <1>6, ScanFacts DEF Stops
    <2> QED
        BY <1>3, <2>1 DEF ScanInv, AttemptsAccounted
<1>13. /\ queue'[j].status \in {"pending", "failed"}
       /\ queue'[j].status = "pending" =>
            Stops(j)' = queue'[j].attempts /\ queue'[j].attempts < MaxAttempts
       /\ queue'[j].status = "failed" => Stops(j)' = MaxAttempts
    BY <1>3, <1>12, ScanFacts, ScanAssumption
<1>14. WindowStays
    BY <1>1 DEF WindowStays
<1> HIDE DEF w
<1> QED
    BY <1>1, <1>8, <1>9, <1>10, <1>11, <1>13, <1>14, OneJobMoves

\* The race for the budget is lost in a window that has not refused the job.
LEMMA ScanLosesTry ==
    ASSUME ScanInv, BudgetInv', NEW j \in Jobs, TriesLost(j), UNCHANGED <<clock, spent>>,
           WindowStays \/ WindowStarts
    PROVE  ScanInv'
<1>1. CASE UNCHANGED <<queue, available, lost>>
    BY <1>1, JobsRest
<1>2. CASE Fail(j) /\ RetryIn(j, Backoff(queue[j].attempts))
           /\ lost' = [lost EXCEPT ![j] = lost[j] + 1]
    <2>1. /\ queue' \in [Jobs -> JobRow]
          /\ queue[j].status = "running"
          /\ queue'[j].attempts = queue[j].attempts
          /\ queue'[j].status = IF queue[j].attempts >= MaxAttempts THEN "failed" ELSE "pending"
          /\ \A k \in Jobs \ {j} : queue'[k] = queue[k]
        BY <1>2, FailMoves
    <2>2. /\ ends' \in Nat
          /\ \A k \in Jobs : \A n \in spent[k] : n <= budget'.window
          /\ \A k \in Jobs :
                budget'.on /\ ~budget'.over /\ budget'.window \in spent[k] =>
                    budget.on /\ ~budget.over /\ budget.window \in spent[k]
        BY WindowMoves
    <2>3. ~(budget'.on /\ ~budget'.over /\ budget'.window \in spent'[j])
        BY <2>1, <2>2 DEF ScanInv, WaitsForWindow
    <2>4. available' \in [Jobs -> Nat] /\ \A k \in Jobs \ {j} : available'[k] = available[k]
        <3>1. clock \in Nat /\ clock + 2 * Backoff(queue[j].attempts) \in Nat
            BY DEF ScanInv, ScanTypes, Backoff
        <3> QED
            BY <1>2, <3>1 DEF RetryIn, ScanInv, ScanTypes
    <2>5. /\ lost' \in [Jobs -> Nat] /\ lost'[j] = lost[j] + 1
          /\ \A k \in Jobs \ {j} : lost'[k] = lost[k]
        BY <1>2 DEF ScanInv, ScanTypes
    <2>6. ScanTypes'
        BY <2>1, <2>2, <2>4, <2>5 DEF ScanInv, ScanTypes
    <2>7. \A k \in Jobs \ {j} : JobKept(k)
        BY <2>1, <2>4, <2>5 DEF JobKept
    <2>8. Stops(j)' = queue[j].attempts /\ queue[j].attempts <= MaxAttempts
        <3>1. Stops(j)' = Stops(j) + 1
            BY <2>5, ScanFacts DEF Stops
        <3> QED
            BY <2>1, <3>1 DEF ScanInv, AttemptsAccounted
    <2>9. /\ queue'[j].status \in {"pending", "failed"}
          /\ queue'[j].status = "pending" =>
                Stops(j)' = queue'[j].attempts /\ queue'[j].attempts < MaxAttempts
          /\ queue'[j].status = "failed" => Stops(j)' = MaxAttempts
        BY <2>1, <2>8, ScanFacts, ScanAssumption
    <2>10. \A n \in spent'[j] : n <= budget'.window
        BY <2>2
    <2> QED
        BY <2>3, <2>6, <2>7, <2>9, <2>10, OneJobMoves
<1> QED
    BY <1>1, <1>2 DEF TriesLost

LEMMA WindowIsReset ==
    ASSUME ScanInv, BudgetInv', NEW j \in Jobs, ScanResets(j)
    PROVE  ScanInv'
<1>1. /\ UNCHANGED <<clock, spent>> /\ TriesLost(j)
      /\ ends' = IF budget'.window # budget.window THEN clock + WindowLength ELSE ends
    BY DEF ScanResets
<1>2. budget'.window = budget.window + 1 \/ UNCHANGED budget
    BY ScanFacts DEF ScanResets, ResetWindow, Budget
<1>3. WindowStays \/ WindowStarts
    BY <1>1, <1>2, ScanFacts DEF WindowStays, WindowStarts
<1> QED
    BY <1>1, <1>3, ScanLosesTry

LEMMA ScanIsCharged ==
    ASSUME ScanInv, BudgetInv', NEW j \in Jobs, ScanCharges(j)
    PROVE  ScanInv'
<1>1. Charge(j) /\ UNCHANGED <<clock, ends, spent>>
    BY DEF ScanCharges
<1>2. WindowStays
    BY <1>1, ScanFacts DEF Charge, WindowStays, Budget
<1>3. CASE ChargeGuard(j)
    <2>1. Complete(j) /\ UNCHANGED <<available, lost>>
        BY <1>3 DEF ScanCharges
    <2> QED
        BY <1>1, <1>2, <2>1, ScanCompletes
<1>4. CASE ~ChargeGuard(j)
    <2>1. TriesLost(j)
        BY <1>4 DEF ScanCharges
    <2> QED
        BY <1>1, <1>2, <2>1, ScanLosesTry
<1> QED
    BY <1>3, <1>4

LEMMA ScanRetried ==
    ASSUME ScanInv, BudgetInv', NEW j \in Jobs, RetryScan(j)
    PROVE  ScanInv'
<1> DEFINE new == [status |-> "pending", attempts |-> 0]
<1>1. /\ queue' = [queue EXCEPT ![j] = new]
      /\ available' = [available EXCEPT ![j] = clock]
      /\ spent' = [spent EXCEPT ![j] = {}]
      /\ lost' = [lost EXCEPT ![j] = 0]
      /\ UNCHANGED <<budget, clock, ends>>
    BY DEF RetryScan, Retry, vars
<1>2. new \in JobRow /\ new.status = "pending" /\ new.attempts = 0
    BY DEF JobRow, JobStatuses
<1> HIDE DEF new
<1>3. IsFiniteSet({}) /\ Cardinality({}) = 0
    BY FS_EmptySet
<1>4. queue'[j] = new /\ spent'[j] = {} /\ lost'[j] = 0 /\ \A k \in Jobs \ {j} : JobKept(k)
    BY <1>1 DEF JobKept, ScanInv, ScanTypes
<1>5. ScanTypes'
    <2>1. \A k \in Jobs : IsFiniteSet(spent'[k])
        BY <1>3, <1>4 DEF JobKept, ScanInv, ScanTypes
    <2> QED
        BY <1>1, <1>2, <2>1 DEF ScanInv, ScanTypes
<1>6. Stops(j)' = 0
    BY <1>3, <1>4 DEF Stops
<1>7. WindowStays
    BY <1>1 DEF WindowStays
<1> QED
    BY <1>1, <1>2, <1>4, <1>5, <1>6, <1>7, OneJobMoves, ScanAssumption

LEMMA ScansKeep == ScanInv /\ [ScansNext]_allvars => ScanInv'
<1> SUFFICES ASSUME ScanInv, [ScansNext]_allvars PROVE ScanInv'
    OBVIOUS
<1>1. BudgetInv'
    BY ScansUseBudget, StepPreserves DEF ScanInv
<1>2. CASE UNCHANGED bvars
    <2>1. UNCHANGED <<clock, queue, available, spent, lost>> /\ WindowStays
        BY <1>2 DEF bvars, vars, WindowStays
    <2> QED
        BY <1>1, <2>1, JobsRest
<1>3. CASE BudgetArrives
    <2>1. ASSUME NEW a \in Admins, NEW limit \in Limits, ReadBudgetForUpdate(a, limit)
          PROVE  ScanInv'
        <3>1. UNCHANGED <<clock, queue, available, spent, lost>> /\ WindowStays
            BY <2>1 DEF ReadBudgetForUpdate, ReadForUpdate, WindowStays
        <3> QED
            BY <1>1, <3>1, JobsRest
    <2> QED
        BY <1>1, <1>3, <2>1, ScanRetried DEF BudgetArrives
<1>4. CASE BudgetStep
    <2>1. CASE Tick
        BY <1>1, <2>1, TickKeepsScans
    <2>2. CASE \E a \in Admins : UpdateBudget(a)
        BY <1>1, <2>2, BudgetUpdates
    <2>3. ASSUME NEW j \in Jobs, EnqueueScan(j) \/ StartScan(j) PROVE ScanInv'
        BY <1>1, <2>3, ScanEnqueued, ScanStarts
    <2>4. ASSUME NEW j \in Jobs, ScanUnmetered(j) PROVE ScanInv'
        <3>1. Complete(j) /\ WindowStays /\ UNCHANGED <<clock, ends, available, spent, lost>>
            BY <2>4 DEF ScanUnmetered, ReadBudget, WindowStays
        <3> QED
            BY <1>1, <3>1, ScanCompletes
    <2>5. ASSUME NEW j \in Jobs, ScanRefused(j) PROVE ScanInv'
        BY <1>1, <2>5, ScanIsRefused
    <2>6. ASSUME NEW j \in Jobs, ScanDecides(j) PROVE ScanInv'
        <3>1. WindowStays /\ UNCHANGED <<clock, queue, available, spent, lost>>
            BY <2>6 DEF ScanDecides, ReadBudget, WindowStays
        <3> QED
            BY <1>1, <3>1, JobsRest
    <2>7. ASSUME NEW j \in Jobs, ScanResets(j) \/ ScanCharges(j) PROVE ScanInv'
        BY <1>1, <2>7, WindowIsReset, ScanIsCharged
    <2> QED
        BY <1>4, <2>1, <2>2, <2>3, <2>4, <2>5, <2>6, <2>7 DEF BudgetStep
<1>5. CASE UNCHANGED allvars
    BY <1>2, <1>5 DEF allvars
<1> QED
    BY <1>2, <1>3, <1>4, <1>5 DEF ScansNext

\* The inductive invariant of scan jobs: the budget, and of each job what has
\* stopped its attempts and when it is tried again.
THEOREM ScansInvariant == ScansSpec => []ScanInv
BY InitScans, ScansKeep, PTL DEF ScansSpec

\* consume_provider_budget admits no more than max_requests in a window also
\* when its callers are scan jobs that are refused, retried and charged.
THEOREM ScansWithinBudget == ScansSpec => []WithinBudget
<1>1. ScanInv => WithinBudget
    BY DEF ScanInv, BudgetInv
<1> QED
    BY <1>1, ScansInvariant, PTL

\* execute_job sets available_at of a refused scan behind the end of the window:
\* a scan job that failed for good was refused by as many windows of their own,
\* or lost as many races, as it has attempts.
THEOREM ScansGiveUp == ScansSpec => []GivesUpAfterWindows
<1>1. ScanInv => GivesUpAfterWindows
    BY DEF ScanInv, AttemptsAccounted, GivesUpAfterWindows, Stops
<1> QED
    BY <1>1, ScansInvariant, PTL


-----------------------------------------------------------------------------
(***************************************************************************)
(* Sets of keys.                                                           *)
(***************************************************************************)
LEMMA Least ==
    ASSUME NEW S, S \subseteq Nat, S # {}
    PROVE  \E x \in S : \A y \in S : x <= y
<1> DEFINE upTo == {0..n : n \in S}
           smaller == StrictSubsetOrdering(Nat)
<1>1. \A n \in S : 0..n \in FiniteSubsetsOf(Nat)
    BY FS_Interval DEF FiniteSubsetsOf
<1>2. IsWellFoundedOn(smaller, FiniteSubsetsOf(Nat))
    BY FS_StrictSubsetOrderingWellFounded
<1>3. PICK T \in upTo : \A U \in upTo : <<U, T>> \notin smaller
    <2>1. upTo \subseteq FiniteSubsetsOf(Nat) /\ upTo # {}
        BY <1>1
    <2> HIDE DEF upTo, smaller
    <2> QED
        BY <2>1, <1>2, WFMin
<1>4. PICK x \in S : T = 0..x
    BY <1>3
<1>5. ASSUME NEW y \in S, y < x PROVE FALSE
    <2>1. 0..y \in upTo /\ 0..y \subseteq T /\ x \in T /\ x \notin 0..y /\ T \subseteq Nat
        BY <1>4, <1>5
    <2>2. <<0..y, T>> \in smaller
        BY <2>1 DEF StrictSubsetOrdering
    <2> QED
        BY <2>1, <2>2, <1>3
<1> QED
    BY <1>5


LEMMA KeysFinite ==
    ASSUME NEW S, S \subseteq Items
    PROVE  /\ S \subseteq Nat /\ IsFiniteSet(S) /\ Cardinality(S) \in Nat
           /\ \A T : T \subseteq S => /\ IsFiniteSet(T) /\ Cardinality(T) \in Nat
                                      /\ Cardinality(T) <= Cardinality(S)
                                      /\ Cardinality(T) = Cardinality(S) => T = S
<1>1. Items \subseteq Nat /\ IsFiniteSet(Items)
    <2>1. PICK n : n = Cardinality(Items)
        OBVIOUS
    <2>2. n \in Nat /\ Items = 1..n
        BY <2>1, CatalogAssumption
    <2>3. IsFiniteSet(1..n)
        BY <2>2, FS_Interval
    <2> QED
        BY <2>2, <2>3
<1>2. IsFiniteSet(S) /\ Cardinality(S) \in Nat
    BY <1>1, FS_Subset, FS_CardinalityType
<1>3. ASSUME NEW T, T \subseteq S
      PROVE  /\ IsFiniteSet(T) /\ Cardinality(T) \in Nat
             /\ Cardinality(T) <= Cardinality(S)
             /\ Cardinality(T) = Cardinality(S) => T = S
    BY <1>2, <1>3, FS_Subset, FS_CardinalityType
<1> QED
    BY <1>1, <1>2, <1>3

\* The last key of a page exists.
LEMMA LastKeyIsLast ==
    ASSUME NEW S, S \subseteq Items, S # {}
    PROVE  LastKey(S) \in S /\ \A k \in S : k <= LastKey(S)
<1> DEFINE n == Cardinality(Items)
           T == {n - k : k \in S}
<1>1. n \in Nat /\ S \subseteq 1..n
    BY CatalogAssumption
<1> HIDE DEF n
<1>2. T \subseteq Nat /\ T # {}
    <2>1. \A k \in S : k \in 1..n /\ n - k \in Nat
        BY <1>1
    <2> QED
        BY <2>1
<1>3. PICK x \in T : \A y \in T : x <= y
    BY <1>2, Least
<1>4. PICK i \in S : x = n - i
    BY <1>3
<1>5. ASSUME NEW k \in S PROVE k <= i
    <2>1. x <= n - k
        BY <1>3
    <2> QED
        BY <1>1, <1>4, <2>1
<1> QED
    BY <1>5 DEF LastKey

LEMMA LowestIsPrefix ==
    ASSUME NEW S, S \subseteq Items, NEW n \in Nat, NEW i \in Lowest(S, n),
           NEW k \in S, k <= i
    PROVE  k \in Lowest(S, n)
<1> DEFINE A == {x \in S : x < k}
           B == {x \in S : x < i}
<1>1. S \subseteq Nat /\ B \subseteq Items /\ i \in S
    BY KeysFinite DEF Lowest
<1>2. A \subseteq B
    <2>1. i \in Nat /\ k \in Nat /\ k <= i
        BY <1>1
    <2>2. \A x \in S : x < k => x < i
        BY <1>1, <2>1
    <2> QED
        BY <2>2
<1>3. Cardinality(A) \in Nat /\ Cardinality(B) \in Nat /\ Cardinality(A) <= Cardinality(B)
    BY <1>1, <1>2, KeysFinite
<1>4. Cardinality(B) < n
    BY DEF Lowest
<1>5. Cardinality(A) < n
    BY <1>3, <1>4
<1> QED
    BY <1>5 DEF Lowest

\* A set of no more than n keys is its lowest n.
LEMMA LowestIsAll ==
    ASSUME NEW S, S \subseteq Items, NEW n \in Nat, Cardinality(S) <= n
    PROVE  Lowest(S, n) = S
<1>1. ASSUME NEW i \in S PROVE i \in Lowest(S, n)
    <2> DEFINE A == {x \in S : x < i}
    <2>1. S \subseteq Nat /\ A \subseteq S /\ A # S
        BY KeysFinite
    <2>2. Cardinality(A) \in Nat /\ Cardinality(S) \in Nat /\ Cardinality(A) < Cardinality(S)
        <3> HIDE DEF A
        <3>1. /\ Cardinality(A) \in Nat /\ Cardinality(S) \in Nat
              /\ Cardinality(A) <= Cardinality(S)
              /\ Cardinality(A) # Cardinality(S)
            BY <2>1, KeysFinite
        <3> QED
            BY <3>1
    <2>3. Cardinality(A) < n
        BY <2>2
    <2> QED
        BY <2>3 DEF Lowest
<1> QED
    BY <1>1 DEF Lowest

\* A set whose lowest n are fewer than n has no others.
LEMMA LowestIsShort ==
    ASSUME NEW S, S \subseteq Items, NEW n \in Nat, Cardinality(Lowest(S, n)) < n
    PROVE  Lowest(S, n) = S
<1> DEFINE rest == S \ Lowest(S, n)
<1>1. Lowest(S, n) \subseteq S
    BY DEF Lowest
<1> SUFFICES ASSUME rest # {} PROVE FALSE
    BY <1>1
<1>2. rest \subseteq Nat
    BY KeysFinite
<1>3. PICK i \in rest : \A y \in rest : i <= y
    <2> HIDE DEF rest
    <2> QED
        BY <1>2, Least
<1> DEFINE A == {x \in S : x < i}
<1>4. A \subseteq Lowest(S, n)
    BY <1>2, <1>3, KeysFinite
<1>5. Lowest(S, n) \subseteq Items
    BY <1>1
<1>6. /\ Cardinality(A) \in Nat /\ Cardinality(Lowest(S, n)) \in Nat
      /\ Cardinality(A) <= Cardinality(Lowest(S, n))
    <2> HIDE DEF A
    <2> QED
        BY <1>4, <1>5, KeysFinite
<1>7. Cardinality(A) < n
    BY <1>6
<1> QED
    BY <1>3, <1>7 DEF Lowest

LEMMA LowestIsSome ==
    ASSUME NEW S, S \subseteq Items, S # {}, NEW n \in Nat \ {0}
    PROVE  Lowest(S, n) # {}
<1>1. S \subseteq Nat
    BY KeysFinite
<1>2. PICK i \in S : \A y \in S : i <= y
    BY <1>1, Least
<1>3. {x \in S : x < i} = {}
    <2>1. \A x \in S : ~(x < i)
        BY <1>1, <1>2
    <2> QED
        BY <2>1
<1>4. Cardinality({}) = 0
    BY FS_EmptySet
<1> QED
    BY <1>2, <1>3, <1>4 DEF Lowest


-----------------------------------------------------------------------------
(***************************************************************************)
(* The catalogue.                                                          *)
(***************************************************************************)
AssetRow == [known : BOOLEAN, sensitivity : Nat, confidence : Nat, human : BOOLEAN]
BatchRow == [records : SUBSET Items, next : Nat, complete : BOOLEAN]
Found == Evidence \cup {{}, {"PII"}}
Assets == [Items -> AssetRow]
Labels == [Items -> Found]
ScanPlaces == {"idle", "scan", "load", "commit"}
ScannerRow == [place : ScanPlaces, cursor : Nat, batch : BatchRow, found : Labels,
               loaded : Assets, reviewed : SUBSET Items]
WalkRow == [place : {"idle", "walking", "done"}, cursor : Nat, steady : SUBSET Items,
            changed : BOOLEAN]
CatalogHistory == [resolved : SUBSET Items, overlap : BOOLEAN]

CatalogTypes ==
    /\ style \in {"keys", "pages", "delta"}
    /\ listing \in Seq(Items)
    /\ labels \in Labels
    /\ scanner \in [Scanners -> ScannerRow]
    /\ asset \in Assets
    /\ pending \in [Items -> Nat]
    /\ walk \in WalkRow
    /\ hist \in CatalogHistory

\* The scan of the client is part of its walk.
ClientWalks ==
    scanner[0].place # "idle" =>
        walk.place = "walking" /\ scanner[0].cursor = walk.cursor

\* What a walk that has this cursor has left behind.
Behind(cursor, i) ==
    IF style = "pages"
    THEN \E k \in DOMAIN listing : listing[k] = i /\ k <= cursor * MaxItems
    ELSE i <= cursor

\* The walks of which nothing is promised.
Exempt ==
    \/ style = "pages" /\ walk.changed
    \/ style = "delta" /\ PageSize > MaxItems

\* A batch takes up where the cursor stands and leaves out nothing before the
\* next one.
Covered(i, cursor, batch) ==
    \/ i \in batch.records
    \/ Behind(cursor, i)
    \/ ~batch.complete /\ ~Behind(batch.next, i)

WalkKnown ==
    /\ walk.place = "walking" => walk.steady \subseteq Present
    /\ walk.place = "walking" /\ ~Exempt =>
        /\ \A i \in walk.steady : Behind(walk.cursor, i) => asset[i].known
        /\ scanner[0].place \in {"load", "commit"} =>
            \A i \in walk.steady : Covered(i, walk.cursor, scanner[0].batch)

\* As long as nothing overlapped one scan is under way, and its transaction
\* has read what it is about to overwrite.
ScansApart ==
    ~hist.overlap =>
        /\ \A s, t \in Busy : s = t
        /\ \A s \in Scanners : scanner[s].place = "commit" =>
            scanner[s].loaded = asset /\ scanner[s].reviewed = Reviewed

CatalogInv ==
    /\ CatalogTypes
    /\ ClientWalks
    /\ WalkKnown
    /\ WalkCovers
    /\ ScansApart
    /\ LowConfidenceReviewed

LEMMA KeysCover ==
    ASSUME CatalogTypes, style = "keys", NEW cursor \in Nat
    PROVE  /\ ScanKeys(cursor) \in BatchRow
           /\ \A i \in Present : Covered(i, cursor, ScanKeys(cursor))
<1> DEFINE rest == {i \in Present : i > cursor}
           rows == Lowest(rest, LookAhead)
           complete == Cardinality(rows) <= MaxItems
           selected == Lowest(rows, MaxItems)
           next == IF complete THEN 0 ELSE LastKey(selected)
<1>1. ScanKeys(cursor) = [records |-> selected, complete |-> complete, next |-> next]
    BY DEF ScanKeys
<1>2. /\ Present \subseteq Items /\ rest \subseteq Items /\ rows \subseteq rest /\ selected \subseteq rows
      /\ Items \subseteq Nat /\ MaxItems \in Nat \ {0} /\ LookAhead \in Nat
      /\ LookAhead = MaxItems + 1
    BY CatalogAssumption DEF CatalogTypes, Present, ToSet, Lowest, LookAhead
<1>3. rows \subseteq Items /\ selected \subseteq Items
    BY <1>2
<1>4. Cardinality(rows) \in Nat
    <2> HIDE DEF rows
    <2> QED
        BY <1>3, KeysFinite
<1>5. CASE complete
    <2>1. Cardinality(rows) < LookAhead
        BY <1>2, <1>4, <1>5
    <2>2. rows = rest
        <3> HIDE DEF rest
        <3> QED
            BY <1>2, <2>1, LowestIsShort
    <2>3. selected = rows
        <3> HIDE DEF rows
        <3> QED
            BY <1>2, <1>3, <1>5, LowestIsAll
    <2>4. ScanKeys(cursor) \in BatchRow
        <3>1. next = 0 /\ complete \in BOOLEAN
            BY <1>5
        <3> HIDE DEF selected, rows, complete, next
        <3> QED
            BY <1>1, <1>3, <3>1 DEF BatchRow
    <2>5. ASSUME NEW i \in Present PROVE i \in selected \/ i <= cursor
        <3>1. i \in Nat
            <4> HIDE DEF rest, rows, selected
            <4> QED
                BY <1>2
        <3>2. i > cursor => i \in rest
            BY <2>5
        <3> HIDE DEF rest, selected
        <3> QED
            BY <2>2, <2>3, <3>1, <3>2
    <2> HIDE DEF selected
    <2> QED
        BY <1>1, <2>4, <2>5 DEF Covered, Behind
<1>6. CASE ~complete
    <2>1. rows # {}
        <3> HIDE DEF rows
        <3> QED
            BY <1>2, <1>6, FS_EmptySet
    <2>2. selected # {}
        <3> HIDE DEF rows
        <3> QED
            BY <1>2, <1>3, <2>1, LowestIsSome
    <2> DEFINE last == LastKey(selected)
    <2>3. last \in selected /\ \A k \in selected : k <= last
        <3> HIDE DEF selected
        <3> QED
            BY <1>3, <2>2, LastKeyIsLast
    <2>4. last \in rows /\ last \in Nat
        BY <1>2, <1>3, <2>3
    <2>5. next = last
        BY <1>6
    <2>6. ScanKeys(cursor) \in BatchRow
        <3>1. next \in Nat /\ complete \in BOOLEAN
            BY <2>4, <2>5
        <3> HIDE DEF selected, complete, last, next
        <3> QED
            BY <1>1, <1>3, <3>1 DEF BatchRow
    <2>7. ASSUME NEW i \in rest, i <= last PROVE i \in selected
        <3>1. i \in rows
            <4> HIDE DEF rest, last
            <4> QED
                BY <1>2, <2>4, <2>7, LowestIsPrefix
        <3> HIDE DEF rows, last
        <3> QED
            BY <1>2, <1>3, <2>3, <2>7, <3>1, LowestIsPrefix
    <2>8. ASSUME NEW i \in Present PROVE i \in selected \/ i <= cursor \/ ~(i <= last)
        <3>1. i \in Nat
            <4> HIDE DEF rest, rows, selected
            <4> QED
                BY <1>2
        <3>2. i > cursor => i \in rest
            BY <2>8
        <3> HIDE DEF rest, selected, last
        <3> QED
            BY <2>7, <3>1, <3>2
    <2> HIDE DEF selected, last, next, complete
    <2> QED
        BY <1>1, <1>6, <2>5, <2>6, <2>8 DEF Covered, Behind
<1> QED
    BY <1>5, <1>6

LEMMA DeltaCovers ==
    ASSUME CatalogTypes, style = "delta", NEW cursor \in Nat
    PROVE  /\ ScanDelta(cursor) \in BatchRow
           /\ PageSize <= MaxItems =>
                \A i \in Present : Covered(i, cursor, ScanDelta(cursor))
<1> DEFINE rest == {i \in Present : i > cursor}
           page == Lowest(rest, PageSize)
           kept == Lowest(page, MaxItems)
           next == IF page = {} THEN cursor ELSE LastKey(page)
           complete == page = rest
<1>1. ScanDelta(cursor) = [records |-> kept, complete |-> complete, next |-> next]
    BY DEF ScanDelta
<1>f. /\ ScanDelta(cursor).records = kept /\ ScanDelta(cursor).next = next
      /\ ScanDelta(cursor).complete = complete
    <2> HIDE DEF rest, page, kept, next, complete
    <2> QED
        BY <1>1
<1>2. /\ rest \subseteq Items /\ page \subseteq rest /\ kept \subseteq page
      /\ Items \subseteq Nat /\ MaxItems \in Nat \ {0} /\ PageSize \in Nat
    BY CatalogAssumption DEF CatalogTypes, Present, ToSet, Lowest
<1>3. page \subseteq Items /\ kept \subseteq Items
    BY <1>2
<1>4. page # {} => next \in page /\ next \in Nat /\ \A k \in page : k <= next
    <2> HIDE DEF page
    <2> QED
        BY <1>2, <1>3, LastKeyIsLast
<1>5. next \in Nat
    BY <1>4
<1>6. ScanDelta(cursor) \in BatchRow
    <2> HIDE DEF kept, page, rest, next
    <2> QED
        BY <1>1, <1>3, <1>5 DEF BatchRow
<1>7. ASSUME PageSize <= MaxItems, NEW i \in page PROVE i \in kept
    <2> DEFINE A == {k \in page : k < i}
               B == {k \in rest : k < i}
    <2>1. A \subseteq B /\ B \subseteq Items /\ i \in rest
        BY <1>2, <1>7
    <2>2. Cardinality(A) \in Nat /\ Cardinality(B) \in Nat /\ Cardinality(A) <= Cardinality(B)
        <3> HIDE DEF A, B
        <3> QED
            BY <2>1, KeysFinite
    <2>3. Cardinality(B) < PageSize
        BY <1>7 DEF Lowest
    <2>4. Cardinality(A) < MaxItems
        <3> HIDE DEF A, B
        <3> QED
            BY <1>2, <1>7, <2>2, <2>3
    <2> QED
        BY <1>7, <2>4 DEF Lowest
<1>8. ASSUME NEW i \in rest, page # {}, i <= next PROVE i \in page
    <2> HIDE DEF rest, next
    <2> QED
        BY <1>2, <1>4, <1>8, LowestIsPrefix
<1>9. ASSUME PageSize <= MaxItems, NEW i \in Present
      PROVE  Covered(i, cursor, ScanDelta(cursor))
    <2>1. i \in Nat
        BY <1>2 DEF CatalogTypes, Present, ToSet
    <2>2. i <= cursor \/ i \in rest
        BY <1>9, <2>1
    <2>3. CASE page = {}
        <3>1. next = cursor
            BY <2>3
        <3> HIDE DEF rest, page, kept, next
        <3> QED
            BY <1>f, <2>2, <2>3, <3>1 DEF Covered, Behind
    <2>4. CASE page # {}
        <3> HIDE DEF rest, page, kept, next
        <3>1. i \in rest => i \in kept \/ (page # rest /\ ~(i <= next))
            BY <1>7, <1>8, <1>9, <2>4
        <3> QED
            BY <1>f, <2>2, <3>1 DEF Covered, Behind
    <2> QED
        BY <2>3, <2>4
<1> QED
    BY <1>6, <1>9

LEMMA LesserOf ==
    ASSUME NEW a \in Nat, NEW b \in Nat
    PROVE  Min({a, b}) = IF a <= b THEN a ELSE b
<1> DEFINE m == IF a <= b THEN a ELSE b
<1>1. m \in {a, b} /\ \A y \in {a, b} : m <= y
    OBVIOUS
<1>2. \A x \in {a, b} : (\A y \in {a, b} : x <= y) => x = m
    OBVIOUS
<1> HIDE DEF m
<1>3. Min({a, b}) \in {a, b} /\ \A y \in {a, b} : Min({a, b}) <= y
    BY <1>1 DEF Min
<1>4. Min({a, b}) = m
    BY <1>2, <1>3
<1> QED
    BY <1>4 DEF m

LEMMA PagesCover ==
    ASSUME CatalogTypes, style = "pages", NEW cursor \in Nat
    PROVE  /\ ScanPages(cursor) \in BatchRow
           /\ \A i \in Present : Covered(i, cursor, ScanPages(cursor))
<1>1. PICK c, n, l, m :
        /\ c = cursor * MaxItems /\ n = (cursor + 1) * MaxItems
        /\ l = Len(listing) /\ m = MaxItems
    OBVIOUS
<1>2. m \in Nat \ {0} /\ c \in Nat /\ n = c + m /\ n \in Nat
    <2>1. MaxItems \in Nat \ {0}
        BY CatalogAssumption
    <2> QED
        BY <1>1, <2>1
<1>3. l \in Nat /\ DOMAIN listing = 1..l /\ \A k \in 1..l : listing[k] \in Items
    BY <1>1 DEF CatalogTypes
<1> DEFINE last == IF n <= l THEN n ELSE l
           rows == SubSeq(listing, c + 1, last)
           complete == Len(rows) < m
           next == IF complete THEN 0 ELSE cursor + 1
<1>4. ScanPages(cursor) = [records |-> ToSet(rows), complete |-> complete, next |-> next]
    <2>1. c + 1 + m - 1 = n
        BY <1>2
    <2>2. Min({n, l}) = last
        BY <1>2, <1>3, LesserOf
    <2> QED
        BY <1>1, <2>1, <2>2 DEF ScanPages
<1>5. /\ last \in Nat /\ last <= l /\ last <= n
      /\ last = n \/ last = l
    BY <1>2, <1>3
<1>6. /\ rows \in Seq(Items)
      /\ Len(rows) = IF c + 1 <= last THEN last - (c + 1) + 1 ELSE 0
      /\ \A k \in 1..(last - (c + 1) + 1) : rows[k] = listing[c + 1 + k - 1]
    <2> HIDE DEF last
    <2>1. \A k \in (c + 1)..last : listing[k] \in Items
        BY <1>2, <1>3, <1>5
    <2>2. c + 1 \in Int /\ last \in Int
        BY <1>2, <1>5
    <2> QED
        BY <2>1, <2>2, SubSeqProperties
<1> HIDE DEF last, rows
<1>7. \A k \in 1..l : c < k /\ k <= last => listing[k] \in ToSet(rows)
    <2> SUFFICES ASSUME NEW k \in 1..l, c < k, k <= last
                 PROVE  listing[k] \in ToSet(rows)
        OBVIOUS
    <2>1. /\ k - c \in 1..(last - (c + 1) + 1) /\ c + 1 + (k - c) - 1 = k
          /\ k - c \in 1..Len(rows)
        BY <1>2, <1>3, <1>5, <1>6
    <2>2. rows[k - c] = listing[k] /\ k - c \in DOMAIN rows
        BY <1>6, <2>1
    <2> QED
        BY <2>2 DEF ToSet
<1>8. ToSet(rows) \subseteq Items
    BY <1>6 DEF ToSet
<1>9. Len(rows) \in Nat /\ complete \in BOOLEAN /\ next \in Nat
    BY <1>6
<1>10. complete => last = l
    <2>1. ASSUME last = n PROVE ~complete
        <3>1. Len(rows) = m
            BY <1>2, <1>6, <2>1
        <3> QED
            BY <1>2, <3>1
    <2> HIDE DEF complete
    <2> QED
        BY <1>5, <2>1
<1>11. ~complete => next = cursor + 1 /\ last = n
    <2>1. ASSUME ~complete PROVE last = n
        <3>1. PICK r : r = Len(rows)
            OBVIOUS
        <3>2. r \in Nat /\ ~(r < m)
            BY <1>9, <2>1, <3>1
        <3>3. c + 1 <= last /\ r = last - (c + 1) + 1
            BY <1>2, <1>5, <1>6, <3>1, <3>2
        <3> QED
            BY <1>2, <1>5, <3>2, <3>3
    <2> QED
        BY <2>1
<1> HIDE DEF complete, next
<1>12. ScanPages(cursor) \in BatchRow
    BY <1>4, <1>8, <1>9 DEF BatchRow
<1>13. ASSUME NEW i \in Present, i \notin ToSet(rows), ~Behind(cursor, i)
       PROVE  ~complete /\ ~Behind(next, i)
    <2>1. \A k \in DOMAIN listing : listing[k] = i => ~(k <= c)
        BY <1>1, <1>13 DEF Behind
    <2>2. PICK k \in DOMAIN listing : listing[k] = i
        BY <1>13 DEF Present, ToSet
    <2>3. \A h \in DOMAIN listing : listing[h] = i => ~(h <= last)
        BY <1>2, <1>3, <1>7, <1>13, <2>1
    <2>4. ~complete
        BY <1>3, <1>10, <2>2, <2>3
    <2>5. \A h \in DOMAIN listing : listing[h] = i => ~(h <= next * MaxItems)
        BY <1>1, <1>11, <2>3, <2>4
    <2> QED
        BY <2>4, <2>5 DEF Behind
<1>14. /\ ScanPages(cursor).records = ToSet(rows) /\ ScanPages(cursor).next = next
       /\ ScanPages(cursor).complete = complete
    BY <1>4
<1> QED
    BY <1>12, <1>13, <1>14 DEF Covered

\* Whatever way the provider lists.
LEMMA BatchCovers ==
    ASSUME CatalogTypes, NEW cursor \in Nat
    PROVE  /\ ScanBatch(cursor) \in BatchRow
           /\ ~Exempt => \A i \in Present : Covered(i, cursor, ScanBatch(cursor))
<1>1. CASE style = "keys"
    BY <1>1, KeysCover DEF ScanBatch
<1>2. CASE style = "pages"
    BY <1>2, PagesCover DEF ScanBatch
<1>3. CASE style = "delta"
    <2>1. ~Exempt => PageSize <= MaxItems
        BY <1>3, CatalogAssumption DEF Exempt
    <2> QED
        BY <1>3, <2>1, DeltaCovers DEF ScanBatch
<1> QED
    BY <1>1, <1>2, <1>3 DEF CatalogTypes

LEMMA CatalogFacts ==
    ASSUME CatalogTypes
    PROVE  /\ 0 \in Scanners /\ Items \subseteq Nat
           /\ \A s \in Scanners :
                /\ scanner[s] \in ScannerRow /\ scanner[s].place \in ScanPlaces
                /\ scanner[s].cursor \in Nat /\ scanner[s].batch \in BatchRow
                /\ scanner[s].batch.records \subseteq Items /\ scanner[s].batch.next \in Nat
                /\ scanner[s].found \in Labels /\ scanner[s].loaded \in Assets
                /\ scanner[s].reviewed \subseteq Items
           /\ \A i \in Items : /\ asset[i] \in AssetRow /\ asset[i].known \in BOOLEAN
                               /\ asset[i].confidence \in Nat /\ asset[i].sensitivity \in Nat
                               /\ pending[i] \in Nat
           /\ walk.cursor \in Nat /\ walk.steady \subseteq Items /\ walk.changed \in BOOLEAN
           /\ walk.place \in {"idle", "walking", "done"}
           /\ hist.resolved \subseteq Items /\ hist.overlap \in BOOLEAN
           /\ Present \subseteq Items
<1>1. 0 \in Scanners /\ Items \subseteq Nat
    BY CatalogAssumption
<1>2. ASSUME NEW s \in Scanners
      PROVE  /\ scanner[s] \in ScannerRow /\ scanner[s].place \in ScanPlaces
             /\ scanner[s].cursor \in Nat /\ scanner[s].batch \in BatchRow
             /\ scanner[s].batch.records \subseteq Items /\ scanner[s].batch.next \in Nat
             /\ scanner[s].found \in Labels /\ scanner[s].loaded \in Assets
             /\ scanner[s].reviewed \subseteq Items
    BY DEF CatalogTypes, ScannerRow, BatchRow
<1>3. ASSUME NEW i \in Items
      PROVE  /\ asset[i] \in AssetRow /\ asset[i].known \in BOOLEAN
             /\ asset[i].confidence \in Nat /\ asset[i].sensitivity \in Nat
             /\ pending[i] \in Nat
    BY DEF CatalogTypes, AssetRow, Assets
<1>4. /\ walk.cursor \in Nat /\ walk.steady \subseteq Items /\ walk.changed \in BOOLEAN
      /\ walk.place \in {"idle", "walking", "done"}
    BY DEF CatalogTypes, WalkRow
<1>5. hist.resolved \subseteq Items /\ hist.overlap \in BOOLEAN
    BY DEF CatalogTypes, CatalogHistory
<1>6. Present \subseteq Items
    BY DEF CatalogTypes, Present, ToSet
<1> QED
    BY <1>1, <1>2, <1>3, <1>4, <1>5, <1>6

LEMMA NoScanTypes ==
    /\ NoBatch \in BatchRow /\ NoAsset \in AssetRow /\ NoScan \in ScannerRow
    /\ NoScan.place = "idle"
<1>1. NoBatch \in BatchRow /\ NoAsset \in AssetRow
    BY DEF NoBatch, BatchRow, NoAsset, AssetRow
<1>2. [i \in Items |-> {}] \in Labels /\ [i \in Items |-> NoAsset] \in Assets
    BY <1>1 DEF Labels, Assets, Found
<1> QED
    BY <1>1, <1>2 DEF NoScan, ScannerRow, ScanPlaces

LEMMA InitCatalog == CatalogInit => CatalogInv
<1> SUFFICES ASSUME CatalogInit PROVE CatalogInv
    OBVIOUS
<1>1. \A s \in Scanners : scanner[s] = NoScan
    BY DEF CatalogInit
<1>2. listing \in Seq(Items)
    <2>1. PICK n : n = Cardinality(Items)
        OBVIOUS
    <2>2. n \in Nat /\ Items = 1..n
        BY <2>1, CatalogAssumption
    <2>3. listing = [k \in 1..(n - 1) |-> k + 1]
        BY <2>1 DEF CatalogInit
    <2>4. CASE n = 0
        <3>1. 1..(n - 1) = 1..0
            BY <2>4
        <3>2. listing \in [1..0 -> Items]
            BY <2>3, <3>1
        <3> QED
            BY <3>2, SeqDef
    <2>5. CASE n # 0
        <3>1. n - 1 \in Nat /\ \A k \in 1..(n - 1) : k + 1 \in Items
            BY <2>2, <2>5
        <3>2. listing \in [1..(n - 1) -> Items]
            BY <2>3, <3>1
        <3> QED
            BY <3>1, <3>2, SeqDef
    <2> QED
        BY <2>4, <2>5
<1>3. labels \in Labels
    BY DEF CatalogInit, Labels, Found
<1>4. asset \in Assets /\ scanner \in [Scanners -> ScannerRow]
    BY NoScanTypes DEF CatalogInit, Assets
<1>5. walk \in WalkRow /\ hist \in CatalogHistory /\ pending \in [Items -> Nat]
    BY DEF CatalogInit, WalkRow, CatalogHistory
<1>6. CatalogTypes
    BY <1>2, <1>3, <1>4, <1>5 DEF CatalogInit, CatalogTypes
<1>7. ClientWalks /\ ScansApart
    BY <1>1, NoScanTypes, CatalogAssumption DEF ClientWalks, ScansApart, Busy
<1>8. WalkKnown /\ WalkCovers
    BY DEF CatalogInit, WalkKnown, WalkCovers
<1>9. LowConfidenceReviewed
    BY DEF CatalogInit, LowConfidenceReviewed, NoAsset
<1> QED
    BY <1>6, <1>7, <1>8, <1>9 DEF CatalogInv

\* Assets stay known, and the scan of the client ends or has the batch it had.
WalkUndisturbed ==
    /\ UNCHANGED <<style, listing, walk>>
    /\ \A i \in Items : asset[i].known => asset'[i].known
    /\ scanner'[0].place # "idle" =>
        scanner[0].place # "idle" /\ scanner'[0].cursor = scanner[0].cursor
    /\ scanner'[0].place \in {"load", "commit"} =>
        /\ scanner[0].place \in {"load", "commit"}
        /\ scanner'[0].batch = scanner[0].batch

LEMMA WalkIsKept ==
    ASSUME CatalogInv, WalkUndisturbed
    PROVE  ClientWalks' /\ WalkKnown' /\ WalkCovers'
<1>1. /\ CatalogTypes /\ ClientWalks /\ WalkKnown /\ WalkCovers
      /\ UNCHANGED <<style, listing, walk>>
      /\ walk.steady \subseteq Items
    BY CatalogFacts DEF CatalogInv, WalkUndisturbed
<1>2. ClientWalks'
    BY <1>1 DEF ClientWalks, WalkUndisturbed
<1>3. WalkCovers'
    BY <1>1 DEF WalkCovers, WalkUndisturbed
<1>4. Present' = Present /\ (Exempt' <=> Exempt)
    BY <1>1 DEF Present, Exempt
<1>5. PICK c, b : c = walk.cursor /\ b = scanner[0].batch
    OBVIOUS
<1>6. WalkKnown'
    <2>1. walk'.place = "walking" => walk'.steady \subseteq Present'
        BY <1>1, <1>4 DEF WalkKnown
    <2>2. ASSUME walk'.place = "walking", ~Exempt', NEW i \in walk'.steady,
                 Behind(c, i)
          PROVE  asset'[i].known
        <3>1. asset[i].known
            BY <1>1, <1>4, <1>5, <2>2 DEF WalkKnown
        <3> QED
            BY <1>1, <2>2, <3>1 DEF WalkUndisturbed
    <2>3. ASSUME walk'.place = "walking", ~Exempt', scanner'[0].place \in {"load", "commit"},
                 NEW i \in walk'.steady
          PROVE  Covered(i, c, b) /\ scanner'[0].batch = b
        <3>1. scanner[0].place \in {"load", "commit"} /\ scanner'[0].batch = scanner[0].batch
            BY <2>3 DEF WalkUndisturbed
        <3> QED
            BY <1>1, <1>4, <1>5, <2>3, <3>1 DEF WalkKnown
    <2>4. walk'.cursor = c
        BY <1>1, <1>5
    <2>5. \A i : (IF style' = "pages"
                  THEN \E k \in DOMAIN listing' : listing'[k] = i /\ k <= walk'.cursor * MaxItems
                  ELSE i <= walk'.cursor) => Behind(c, i)
        BY <1>1, <2>4 DEF Behind
    <2>6. ASSUME walk'.place = "walking", ~Exempt' PROVE
            /\ (\A i \in walk.steady : Behind(walk.cursor, i) => asset[i].known)'
            /\ scanner'[0].place \in {"load", "commit"} =>
                (\A i \in walk.steady : Covered(i, walk.cursor, scanner[0].batch))'
        <3>1. (\A i \in walk.steady : Behind(walk.cursor, i) => asset[i].known)'
            BY <2>2, <2>5, <2>6 DEF Behind
        <3>2. ASSUME scanner'[0].place \in {"load", "commit"}
              PROVE  (\A i \in walk.steady : Covered(i, walk.cursor, scanner[0].batch))'
            <4>1. scanner'[0].batch = b /\ \A i \in walk'.steady : Covered(i, c, b)
                BY <1>5, <2>3, <2>6, <3>2 DEF WalkUndisturbed
            <4> QED
                BY <1>1, <2>4, <4>1 DEF Covered, Behind
        <3> QED
            BY <3>1, <3>2
    <2> QED
        BY <2>1, <2>6 DEF WalkKnown
<1> QED
    BY <1>2, <1>3, <1>6

\* Nothing is classified or reviewed, and who is about to commit has read it all.
ReviewsUndisturbed ==
    /\ UNCHANGED <<asset, pending, hist>>
    /\ \A s \in Scanners : scanner'[s].place # "idle" => scanner[s].place # "idle"
    /\ \A s \in Scanners : scanner'[s].place = "commit" =>
        \/ scanner'[s].loaded = asset /\ scanner'[s].reviewed = Reviewed
        \/ /\ scanner[s].place = "commit"
           /\ scanner'[s].loaded = scanner[s].loaded
           /\ scanner'[s].reviewed = scanner[s].reviewed

LEMMA ReviewsAreKept ==
    ASSUME CatalogInv, ReviewsUndisturbed
    PROVE  ScansApart' /\ LowConfidenceReviewed'
<1>1. LowConfidenceReviewed'
    BY DEF CatalogInv, LowConfidenceReviewed, ReviewsUndisturbed
<1>2. Busy' \subseteq Busy /\ Reviewed' = Reviewed /\ asset' = asset /\ hist' = hist
    BY DEF Busy, Reviewed, ReviewsUndisturbed
<1>3. ASSUME ~hist.overlap, NEW s \in Scanners, scanner'[s].place = "commit"
      PROVE  scanner'[s].loaded = asset /\ scanner'[s].reviewed = Reviewed
    BY <1>3 DEF CatalogInv, ScansApart, ReviewsUndisturbed
<1>4. ~hist.overlap => \A s, t \in Busy : s = t
    BY DEF CatalogInv, ScansApart
<1> HIDE DEF Busy, Reviewed
<1>5. ScansApart'
    BY <1>2, <1>3, <1>4 DEF ScansApart
<1> QED
    BY <1>1, <1>5

\* A scan moves on.
LEMMA ScannerMoves ==
    ASSUME CatalogTypes, NEW s \in Scanners, NEW new \in ScannerRow,
           scanner' = [scanner EXCEPT ![s] = new]
    PROVE  /\ scanner' \in [Scanners -> ScannerRow]
           /\ scanner'[s] = new
           /\ \A t \in Scanners \ {s} : scanner'[t] = scanner[t]
BY DEF CatalogTypes

LEMMA ScanEndsKeeps ==
    ASSUME CatalogInv, NEW s \in Scanners, EndScan(s)
    PROVE  CatalogInv'
<1>1. /\ scanner' = [scanner EXCEPT ![s] = NoScan]
      /\ UNCHANGED <<style, listing, labels, policy, asset, pending, walk, hist>>
      /\ CatalogTypes
    BY DEF EndScan, CatalogInv
<1>2. /\ scanner' \in [Scanners -> ScannerRow]
      /\ scanner'[s].place = "idle"
      /\ \A t \in Scanners \ {s} : scanner'[t] = scanner[t]
    BY <1>1, NoScanTypes, ScannerMoves
<1>3. CatalogTypes'
    BY <1>1, <1>2 DEF CatalogTypes
<1>4. WalkUndisturbed
    BY <1>1, <1>2, CatalogAssumption DEF WalkUndisturbed
<1>5. ReviewsUndisturbed
    BY <1>1, <1>2 DEF ReviewsUndisturbed
<1> QED
    BY <1>3, <1>4, <1>5, WalkIsKept, ReviewsAreKept DEF CatalogInv

LEMMA LoadKeeps ==
    ASSUME CatalogInv, NEW s \in Scanners, LoadRecords(s)
    PROVE  CatalogInv'
<1> DEFINE new == [scanner[s] EXCEPT !.place = "commit", !.loaded = asset, !.reviewed = Reviewed]
<1>1. /\ scanner[s].place = "load" /\ scanner[s] \in ScannerRow
      /\ UNCHANGED <<style, listing, labels, policy, asset, pending, walk, hist>>
      /\ CatalogTypes /\ Reviewed \subseteq Items
    BY CatalogFacts DEF LoadRecords, CatalogInv, Reviewed
<1>2. scanner' = [scanner EXCEPT ![s] = new]
    BY <1>1 DEF LoadRecords, CatalogTypes, ScannerRow
<1>3. /\ new \in ScannerRow /\ new.place = "commit" /\ new.loaded = asset
      /\ new.reviewed = Reviewed /\ new.batch = scanner[s].batch
      /\ new.cursor = scanner[s].cursor
    BY <1>1 DEF ScannerRow, CatalogTypes, ScanPlaces
<1> HIDE DEF new
<1>4. /\ scanner' \in [Scanners -> ScannerRow]
      /\ scanner'[s] = new
      /\ \A t \in Scanners \ {s} : scanner'[t] = scanner[t]
    BY <1>1, <1>2, <1>3, ScannerMoves
<1>5. CatalogTypes'
    BY <1>1, <1>4 DEF CatalogTypes
<1>6. WalkUndisturbed
    BY <1>1, <1>3, <1>4, CatalogAssumption DEF WalkUndisturbed
<1>7. ReviewsUndisturbed
    BY <1>1, <1>3, <1>4 DEF ReviewsUndisturbed
<1> QED
    BY <1>5, <1>6, <1>7, WalkIsKept, ReviewsAreKept DEF CatalogInv

LEMMA PolicyKeeps ==
    ASSUME CatalogInv, NEW new \in Policies, set_connector_policy(new)
    PROVE  CatalogInv'
<1>1. UNCHANGED <<style, listing, labels, scanner, asset, pending, walk, hist>>
    BY DEF set_connector_policy
<1>2. CatalogTypes'
    BY <1>1 DEF CatalogTypes, CatalogInv
<1>3. WalkUndisturbed /\ ReviewsUndisturbed
    BY <1>1 DEF WalkUndisturbed, ReviewsUndisturbed
<1> QED
    BY <1>2, <1>3, WalkIsKept, ReviewsAreKept DEF CatalogInv

\* A scan begins, which overlaps those under way.
LEMMA BeginKeeps ==
    ASSUME CatalogInv, NEW s \in Scanners, NEW cursor \in Nat, BeginScan(s, cursor)
    PROVE  /\ scanner' \in [Scanners -> ScannerRow]
           /\ scanner'[s].place = "scan" /\ scanner'[s].cursor = cursor
           /\ \A t \in Scanners \ {s} : scanner'[t] = scanner[t]
           /\ hist' \in CatalogHistory
           /\ ScansApart' /\ LowConfidenceReviewed'
<1> DEFINE new == [NoScan EXCEPT !.place = "scan", !.cursor = cursor]
<1>1. /\ scanner[s].place = "idle" /\ scanner' = [scanner EXCEPT ![s] = new]
      /\ hist' = [hist EXCEPT !.overlap = hist.overlap \/ Busy # {}]
      /\ UNCHANGED <<style, listing, labels, asset, pending>>
      /\ CatalogTypes /\ ScansApart /\ LowConfidenceReviewed
    BY DEF BeginScan, CatalogInv
<1>2. new \in ScannerRow /\ new.place = "scan" /\ new.cursor = cursor
    BY NoScanTypes DEF ScannerRow, ScanPlaces
<1> HIDE DEF new
<1>3. /\ scanner' \in [Scanners -> ScannerRow]
      /\ scanner'[s] = new
      /\ \A t \in Scanners \ {s} : scanner'[t] = scanner[t]
    BY <1>1, <1>2, ScannerMoves
<1>4. /\ hist' \in CatalogHistory /\ hist'.resolved = hist.resolved
      /\ ~hist'.overlap => ~hist.overlap /\ Busy = {}
    BY <1>1, CatalogFacts DEF CatalogHistory, CatalogTypes
<1>5. LowConfidenceReviewed'
    BY <1>1, <1>4 DEF LowConfidenceReviewed
<1>6. ScansApart'
    <2> SUFFICES ASSUME ~hist'.overlap
                 PROVE  /\ \A t, r \in Busy' : t = r
                        /\ \A t \in Scanners : scanner'[t].place # "commit"
        BY DEF ScansApart
    <2>1. \A t \in Scanners \ {s} : scanner'[t].place = "idle"
        BY <1>3, <1>4 DEF Busy
    <2>2. scanner'[s].place = "scan"
        BY <1>2, <1>3
    <2> QED
        BY <2>1, <2>2 DEF Busy
<1> QED
    BY <1>2, <1>3, <1>4, <1>5, <1>6

LEMMA WalkKnownNext ==
    ASSUME NEW c, NEW b, UNCHANGED <<style, listing>>,
           walk'.cursor = c, scanner'[0].batch = b,
           walk'.place = "walking" => walk'.steady \subseteq Present,
           walk'.place = "walking" /\ ~Exempt' =>
               /\ \A i \in walk'.steady : Behind(c, i) => asset'[i].known
               /\ scanner'[0].place \in {"load", "commit"} =>
                    \A i \in walk'.steady : Covered(i, c, b)
    PROVE  WalkKnown'
<1>1. Present' = Present
    BY DEF Present
<1>2. ASSUME walk'.place = "walking", ~Exempt' PROVE
        /\ (\A i \in walk.steady : Behind(walk.cursor, i) => asset[i].known)'
        /\ scanner'[0].place \in {"load", "commit"} =>
            (\A i \in walk.steady : Covered(i, walk.cursor, scanner[0].batch))'
    <2>1. (\A i \in walk.steady : Behind(walk.cursor, i) => asset[i].known)'
        BY <1>2 DEF Behind
    <2>2. ASSUME scanner'[0].place \in {"load", "commit"}
          PROVE  (\A i \in walk.steady : Covered(i, walk.cursor, scanner[0].batch))'
        BY <1>2, <2>2 DEF Covered, Behind
    <2> QED
        BY <2>1, <2>2
<1> QED
    BY <1>1, <1>2 DEF WalkKnown

LEMMA ScheduledKeeps ==
    ASSUME CatalogInv, NEW s \in Scanners, ScheduledScan(s)
    PROVE  CatalogInv'
<1>1. /\ s # 0 /\ BeginScan(s, 0) /\ UNCHANGED walk /\ CatalogTypes
      /\ UNCHANGED <<style, listing, labels, asset, pending>>
    BY DEF ScheduledScan, BeginScan, CatalogInv
<1>2. /\ scanner' \in [Scanners -> ScannerRow]
      /\ \A t \in Scanners \ {s} : scanner'[t] = scanner[t]
      /\ hist' \in CatalogHistory
      /\ ScansApart' /\ LowConfidenceReviewed'
    BY <1>1, BeginKeeps
<1>3. CatalogTypes'
    BY <1>1, <1>2 DEF CatalogTypes
<1>4. WalkUndisturbed
    BY <1>1, <1>2, CatalogAssumption DEF WalkUndisturbed
<1> QED
    BY <1>2, <1>3, <1>4, WalkIsKept DEF CatalogInv

LEMMA NextPageKeeps ==
    ASSUME CatalogInv, ScanNext
    PROVE  CatalogInv'
<1>1. /\ walk.place = "walking" /\ BeginScan(0, walk.cursor) /\ UNCHANGED walk
      /\ UNCHANGED <<style, listing, labels, asset, pending>>
      /\ CatalogTypes /\ WalkKnown /\ WalkCovers
      /\ 0 \in Scanners /\ walk.cursor \in Nat
    BY CatalogFacts DEF ScanNext, BeginScan, CatalogInv
<1>2. /\ scanner' \in [Scanners -> ScannerRow]
      /\ scanner'[0].place = "scan" /\ scanner'[0].cursor = walk.cursor
      /\ hist' \in CatalogHistory
      /\ ScansApart' /\ LowConfidenceReviewed'
    BY <1>1, BeginKeeps
<1>3. CatalogTypes'
    BY <1>1, <1>2 DEF CatalogTypes
<1>4. ClientWalks' /\ WalkCovers'
    BY <1>1, <1>2 DEF ClientWalks, WalkCovers
<1>5. PICK c, b : c = walk.cursor /\ b = scanner'[0].batch
    OBVIOUS
<1>6. Exempt' <=> Exempt
    BY <1>1 DEF Exempt
<1>7. WalkKnown'
    BY <1>1, <1>2, <1>5, <1>6, WalkKnownNext DEF WalkKnown
<1> QED
    BY <1>2, <1>3, <1>4, <1>7 DEF CatalogInv

LEMMA NothingBehind ==
    ASSUME CatalogTypes, NEW i \in Items PROVE ~Behind(0, i)
<1>1. \A k \in DOMAIN listing : k \in Nat /\ k > 0
    BY DEF CatalogTypes
<1>2. 0 * MaxItems = 0 /\ i \in Nat /\ i > 0
    BY CatalogAssumption
<1> QED
    BY <1>1, <1>2 DEF Behind

LEMMA WalkBegins ==
    ASSUME CatalogInv, BeginWalk
    PROVE  CatalogInv'
<1>1. /\ walk.place = "idle"
      /\ walk' = [place |-> "walking", cursor |-> 0, steady |-> Present, changed |-> FALSE]
      /\ UNCHANGED <<style, listing, labels, policy, scanner, asset, pending, hist>>
      /\ CatalogTypes /\ Present \subseteq Items
    BY CatalogFacts DEF BeginWalk, CatalogInv
<1>2. scanner[0].place = "idle"
    BY <1>1 DEF CatalogInv, ClientWalks
<1>3. walk' \in WalkRow /\ walk'.place = "walking" /\ walk'.cursor = 0 /\ walk'.steady = Present
    BY <1>1 DEF WalkRow
<1>4. CatalogTypes'
    BY <1>1, <1>3 DEF CatalogTypes
<1>5. ClientWalks' /\ WalkCovers'
    BY <1>1, <1>2, <1>3 DEF ClientWalks, WalkCovers
<1>6. PICK b : b = scanner'[0].batch
    OBVIOUS
<1>7. \A i \in Present : ~Behind(0, i)
    BY <1>1, NothingBehind
<1>8. WalkKnown'
    BY <1>1, <1>2, <1>3, <1>6, <1>7, WalkKnownNext
<1>9. ReviewsUndisturbed
    BY <1>1 DEF ReviewsUndisturbed
<1> QED
    BY <1>4, <1>5, <1>8, <1>9, ReviewsAreKept DEF CatalogInv

\* connector.scan: the batch covers what is there.
LEMMA ScanKeeps ==
    ASSUME CatalogInv, NEW s \in Scanners, Scan(s)
    PROVE  CatalogInv'
<1>1. /\ scanner[s].place = "scan" /\ scanner[s] \in ScannerRow
      /\ scanner[s].cursor \in Nat
      /\ UNCHANGED <<style, listing, labels, policy, asset, pending, walk, hist>>
      /\ CatalogTypes /\ ClientWalks /\ WalkKnown /\ labels \in Labels
    BY CatalogFacts DEF Scan, CatalogInv, CatalogTypes
<1>2. PICK b : b = ScanBatch(scanner[s].cursor)
    OBVIOUS
<1>3. PICK c : c = scanner[s].cursor
    OBVIOUS
<1>4. b \in BatchRow /\ (~Exempt => \A i \in Present : Covered(i, c, b))
    BY <1>1, <1>2, <1>3, BatchCovers
<1> DEFINE new == [scanner[s] EXCEPT !.place = "load", !.batch = b, !.found = labels]
<1>5. scanner' = [scanner EXCEPT ![s] = new]
    BY <1>1, <1>2 DEF Scan, CatalogTypes, ScannerRow
<1>6. new \in ScannerRow /\ new.place = "load" /\ new.batch = b /\ new.cursor = c
    BY <1>1, <1>3, <1>4 DEF ScannerRow, ScanPlaces
<1> HIDE DEF new
<1>7. /\ scanner' \in [Scanners -> ScannerRow]
      /\ scanner'[s] = new
      /\ \A t \in Scanners \ {s} : scanner'[t] = scanner[t]
    BY <1>1, <1>5, <1>6, ScannerMoves
<1>8. CatalogTypes'
    BY <1>1, <1>7 DEF CatalogTypes
<1>9. ReviewsUndisturbed
    BY <1>1, <1>6, <1>7 DEF ReviewsUndisturbed
<1>10. CASE s # 0
    <2>1. WalkUndisturbed
        BY <1>1, <1>7, <1>10, CatalogAssumption DEF WalkUndisturbed
    <2> QED
        BY <1>8, <1>9, <2>1, WalkIsKept, ReviewsAreKept DEF CatalogInv
<1>11. CASE s = 0
    <2>1. walk.place = "walking" /\ walk.cursor = c
        BY <1>1, <1>3, <1>11 DEF ClientWalks
    <2>2. scanner'[0].batch = b /\ scanner'[0].cursor = c
        BY <1>6, <1>7, <1>11
    <2>3. ClientWalks' /\ WalkCovers'
        BY <1>1, <2>1, <2>2 DEF ClientWalks, WalkCovers
    <2>4. Exempt' <=> Exempt
        BY <1>1 DEF Exempt
    <2>5. /\ walk'.cursor = c /\ walk'.steady \subseteq Present
          /\ ~Exempt' => /\ \A i \in walk'.steady : Behind(c, i) => asset'[i].known
                         /\ \A i \in walk'.steady : Covered(i, c, b)
        BY <1>1, <1>4, <2>1, <2>4 DEF WalkKnown
    <2>6. WalkKnown'
        BY <1>1, <2>2, <2>5, WalkKnownNext
    <2> QED
        BY <1>8, <1>9, <2>3, <2>6, ReviewsAreKept DEF CatalogInv
<1> QED
    BY <1>10, <1>11

LEMMA ResolveKeeps ==
    ASSUME CatalogInv, NEW i \in Items, NEW status, resolve_classification_review(i, status)
    PROVE  CatalogInv'
<1>1. /\ pending[i] > 0 /\ pending' = [pending EXCEPT ![i] = pending[i] - 1]
      /\ hist' = [hist EXCEPT !.resolved = hist.resolved \cup {i},
                    !.overlap = hist.overlap \/ \E s \in Scanners : scanner[s].place = "commit"]
      /\ UNCHANGED <<style, listing, labels, policy, scanner, walk>>
      /\ CatalogTypes /\ ScansApart /\ LowConfidenceReviewed
      /\ pending \in [Items -> Nat] /\ asset \in Assets
    BY DEF resolve_classification_review, CatalogInv, CatalogTypes
<1> DEFINE new == [asset[i] EXCEPT !.sensitivity = Confidential, !.confidence = 100,
                                    !.human = TRUE]
<1>2. asset' = asset \/ asset' = [asset EXCEPT ![i] = new]
    BY <1>1 DEF resolve_classification_review, Assets, AssetRow
<1>3. /\ new \in AssetRow /\ new.known = asset[i].known /\ ~Low(new.confidence)
    <2>1. asset[i] \in AssetRow
        BY <1>1 DEF Assets
    <2>2. new \in AssetRow
        BY <2>1 DEF AssetRow, Confidential
    <2>3. new.confidence = 100 /\ new.known = asset[i].known
        BY <2>1 DEF AssetRow
    <2> HIDE DEF new
    <2> QED
        BY <2>2, <2>3 DEF Low, ReviewThreshold
<1> HIDE DEF new
<1>4. /\ asset' \in Assets
      /\ \A k \in Items : asset'[k].known = asset[k].known
      /\ \A k \in Items : Low(asset'[k].confidence) => asset'[k] = asset[k]
    <2>1. CASE asset' = asset
        BY <1>1, <2>1
    <2>2. CASE asset' = [asset EXCEPT ![i] = new]
        BY <1>1, <1>3, <2>2 DEF Assets
    <2> QED
        BY <1>2, <2>1, <2>2
<1>5. /\ pending' \in [Items -> Nat] /\ pending'[i] = pending[i] - 1
      /\ \A k \in Items \ {i} : pending'[k] = pending[k]
    BY <1>1
<1>6. /\ hist' \in CatalogHistory /\ hist'.resolved = hist.resolved \cup {i}
      /\ ~hist'.overlap =>
            ~hist.overlap /\ \A s \in Scanners : scanner[s].place # "commit"
    BY <1>1, CatalogFacts DEF CatalogHistory, CatalogTypes
<1>7. CatalogTypes'
    BY <1>1, <1>4, <1>5, <1>6 DEF CatalogTypes
<1>8. WalkUndisturbed
    BY <1>1, <1>4 DEF WalkUndisturbed
<1>9. ScansApart'
    BY <1>1, <1>6 DEF ScansApart, Busy
<1>10. LowConfidenceReviewed'
    <2> SUFFICES ASSUME ~hist'.overlap, NEW k \in Items
                 PROVE  /\ pending'[k] <= 1
                        /\ asset'[k].known /\ Low(asset'[k].confidence) =>
                            pending'[k] = 1 \/ k \in hist'.resolved
        BY DEF LowConfidenceReviewed, Low
    <2>1. /\ pending[k] <= 1
          /\ asset[k].known /\ Low(asset[k].confidence) =>
                pending[k] = 1 \/ k \in hist.resolved
        BY <1>1, <1>6 DEF LowConfidenceReviewed
    <2>2. CASE k = i
        BY <1>1, <1>5, <1>6, <2>1, <2>2
    <2>3. CASE k # i
        BY <1>4, <1>5, <1>6, <2>1, <2>3
    <2> QED
        BY <2>2, <2>3
<1> QED
    BY <1>7, <1>8, <1>9, <1>10, WalkIsKept DEF CatalogInv

\* What is left of a listing without an item.
LEMMA OthersStay ==
    ASSUME CatalogTypes, NEW i \in Present
    PROVE  Others(i) \in Seq(Items) /\ Present \ {i} \subseteq ToSet(Others(i))
<1>1. PICK k : k = CHOOSE h \in DOMAIN listing : listing[h] = i
    OBVIOUS
<1>2. PICK l : l = Len(listing)
    OBVIOUS
<1>3. /\ l \in Nat /\ DOMAIN listing = 1..l /\ \A h \in 1..l : listing[h] \in Items
    BY <1>2 DEF CatalogTypes
<1>4. k \in 1..l /\ listing[k] = i
    BY <1>1, <1>3 DEF Present, ToSet
<1> DEFINE front == SubSeq(listing, 1, k - 1)
           back == SubSeq(listing, k + 1, l)
<1>5. Others(i) = front \o back
    BY <1>1, <1>2 DEF Others, RemoveAt
<1>6. /\ front \in Seq(Items) /\ Len(front) = k - 1
      /\ \A h \in 1..(k - 1) : front[h] = listing[h]
    <2>1. \A h \in 1..(k - 1) : listing[h] \in Items
        BY <1>3, <1>4
    <2>2. 1 \in Int /\ k - 1 \in Int
        BY <1>3, <1>4
    <2>3. /\ front \in Seq(Items)
          /\ Len(front) = IF 1 <= k - 1 THEN k - 1 - 1 + 1 ELSE 0
          /\ \A h \in 1..(k - 1 - 1 + 1) : front[h] = listing[1 + h - 1]
        BY <2>1, <2>2, SubSeqProperties
    <2> HIDE DEF front
    <2> QED
        BY <1>3, <1>4, <2>3
<1>7. /\ back \in Seq(Items) /\ Len(back) = l - k
      /\ \A h \in 1..(l - k) : back[h] = listing[k + h]
    <2>1. \A h \in (k + 1)..l : listing[h] \in Items
        BY <1>3, <1>4
    <2>2. k + 1 \in Int /\ l \in Int
        BY <1>3, <1>4
    <2>3. /\ back \in Seq(Items)
          /\ Len(back) = IF k + 1 <= l THEN l - (k + 1) + 1 ELSE 0
          /\ \A h \in 1..(l - (k + 1) + 1) : back[h] = listing[k + 1 + h - 1]
        BY <2>1, <2>2, SubSeqProperties
    <2> HIDE DEF back
    <2> QED
        BY <1>3, <1>4, <2>3
<1> HIDE DEF front, back
<1>8. /\ front \o back \in Seq(Items)
      /\ Len(front \o back) = l - 1
      /\ \A h \in 1..(l - 1) :
            (front \o back)[h] = IF h <= k - 1 THEN front[h] ELSE back[h - (k - 1)]
    <2>1. /\ front \o back \in Seq(Items)
          /\ Len(front \o back) = Len(front) + Len(back)
          /\ \A h \in 1..(Len(front) + Len(back)) :
                (front \o back)[h] = IF h <= Len(front) THEN front[h]
                                                        ELSE back[h - Len(front)]
        BY <1>6, <1>7, ConcatProperties
    <2>2. k \in Nat /\ l \in Nat /\ Len(front) = k - 1 /\ Len(front) + Len(back) = l - 1
        BY <1>3, <1>4, <1>6, <1>7
    <2> QED
        BY ONLY <2>1, <2>2
<1> DEFINE both == front \o back
<1>9. ASSUME NEW x \in Present, x # i PROVE x \in ToSet(both)
    <2>1. PICK h \in 1..l : listing[h] = x
        BY <1>3 DEF Present, ToSet
    <2>2. h # k
        BY <1>4, <1>9, <2>1
    <2> HIDE DEF both
    <2>3. DOMAIN both = 1..(l - 1)
        BY <1>8 DEF both
    <2>4. CASE h < k
        <3>1. h \in 1..(l - 1) /\ h \in 1..(k - 1)
            BY <1>3, <1>4, <2>1, <2>4
        <3>2. both[h] = x
            BY <1>6, <1>8, <2>1, <3>1 DEF both
        <3> QED
            BY <2>3, <3>1, <3>2 DEF ToSet
    <2>5. CASE h > k
        <3>1. h - 1 \in 1..(l - 1) /\ ~(h - 1 <= k - 1) /\ h - k \in 1..(l - k)
              /\ (h - 1) - (k - 1) = h - k /\ k + (h - k) = h
            BY <1>3, <1>4, <2>1, <2>5
        <3>2. both[h - 1] = x
            BY <1>7, <1>8, <2>1, <3>1 DEF both
        <3> QED
            BY <2>3, <3>1, <3>2 DEF ToSet
    <2> QED
        BY <1>3, <1>4, <2>1, <2>2, <2>4, <2>5
<1> QED
    BY <1>5, <1>8, <1>9

LEMMA FirstAdded ==
    ASSUME NEW s \in Seq(Items), NEW i \in Items
    PROVE  <<i>> \o s \in Seq(Items) /\ {i} \cup ToSet(s) \subseteq ToSet(<<i>> \o s)
<1> DEFINE both == <<i>> \o s
<1>1. PICK l : l = Len(s)
    OBVIOUS
<1>2. l \in Nat /\ DOMAIN s = 1..l
    BY <1>1
<1>3. <<i>> \in Seq(Items) /\ Len(<<i>>) = 1 /\ <<i>>[1] = i
    OBVIOUS
<1>4. /\ both \in Seq(Items) /\ Len(both) = 1 + l
      /\ \A h \in 1..(1 + l) : both[h] = IF h <= 1 THEN <<i>>[h] ELSE s[h - 1]
    BY <1>1, <1>3, ConcatProperties
<1> HIDE DEF both
<1>5. DOMAIN both = 1..(1 + l)
    BY <1>2, <1>4
<1>6. i \in ToSet(both)
    <2>1. 1 \in 1..(1 + l) /\ both[1] = i
        BY <1>2, <1>3, <1>4
    <2> QED
        BY <1>5, <2>1 DEF ToSet
<1>7. ASSUME NEW x \in ToSet(s) PROVE x \in ToSet(both)
    <2>1. PICK h \in 1..l : s[h] = x
        BY <1>2 DEF ToSet
    <2>2. h + 1 \in 1..(1 + l) /\ ~(h + 1 <= 1) /\ h + 1 - 1 = h
        BY <1>2, <2>1
    <2>3. both[h + 1] = x
        BY <1>4, <2>1, <2>2
    <2> QED
        BY <1>5, <2>2, <2>3 DEF ToSet
<1> QED
    BY <1>4, <1>6, <1>7 DEF both

\* The provider adds, updates or removes an item.
LEMMA ChangesKeep ==
    ASSUME CatalogInv, NEW i \in Items, NEW sequence \in Seq(Items),
           Present \ {i} \subseteq ToSet(sequence),
           Changes(i, sequence), labels' \in Labels
    PROVE  CatalogInv'
<1>1. /\ listing' = sequence
      /\ UNCHANGED <<style, policy, scanner, asset, pending, hist>>
      /\ CatalogTypes /\ ClientWalks /\ WalkKnown /\ WalkCovers
    BY DEF Changes, CatalogInv
<1>2. \/ walk.place # "walking" /\ walk' = walk
      \/ /\ walk.place = "walking" /\ walk'.place = "walking" /\ walk'.changed
         /\ walk'.cursor = walk.cursor /\ walk'.steady = walk.steady \ {i}
    BY <1>1 DEF Changes, CatalogTypes, WalkRow
<1>3. walk' \in WalkRow
    BY <1>1 DEF Changes, CatalogTypes, WalkRow
<1>4. CatalogTypes'
    BY <1>1, <1>3 DEF CatalogTypes
<1>5. ClientWalks'
    BY <1>1, <1>2 DEF ClientWalks
<1>6. WalkCovers'
    BY <1>1, <1>2 DEF WalkCovers
<1>7. CASE walk.place # "walking"
    <2>1. walk'.place # "walking"
        BY <1>2, <1>7
    <2>2. WalkKnown'
        BY <2>1 DEF WalkKnown
    <2>3. ReviewsUndisturbed
        BY <1>1 DEF ReviewsUndisturbed
    <2> QED
        BY <1>4, <1>5, <1>6, <2>2, <2>3, ReviewsAreKept DEF CatalogInv
<1>8. CASE walk.place = "walking"
    <2>1. /\ walk'.place = "walking" /\ walk'.changed /\ walk'.cursor = walk.cursor
          /\ walk'.steady = walk.steady \ {i} /\ walk.steady \subseteq Present
        BY <1>1, <1>2, <1>8 DEF WalkKnown
    <2>2. walk'.steady \subseteq Present'
        BY <1>1, <2>1 DEF Present
    <2>3. PICK c, b : c = walk.cursor /\ b = scanner[0].batch
        OBVIOUS
    <2>4. ~Exempt' => ~Exempt /\ style # "pages"
        BY <1>1, <2>1 DEF Exempt
    <2>5. ASSUME ~Exempt' PROVE
            /\ (\A k \in walk.steady : Behind(walk.cursor, k) => asset[k].known)'
            /\ scanner'[0].place \in {"load", "commit"} =>
                (\A k \in walk.steady : Covered(k, walk.cursor, scanner[0].batch))'
        <3>1. /\ style # "pages" /\ style' = style
              /\ \A k \in walk.steady : Behind(c, k) => asset[k].known
              /\ scanner[0].place \in {"load", "commit"} =>
                    \A k \in walk.steady : Covered(k, c, b)
            BY <1>1, <1>8, <2>3, <2>4, <2>5 DEF WalkKnown
        <3>2. (\A k \in walk.steady : Behind(walk.cursor, k) => asset[k].known)'
            BY <1>1, <2>1, <2>3, <3>1 DEF Behind
        <3>3. ASSUME scanner'[0].place \in {"load", "commit"}
              PROVE  (\A k \in walk.steady : Covered(k, walk.cursor, scanner[0].batch))'
            BY <1>1, <2>1, <2>3, <3>1, <3>3 DEF Covered, Behind
        <3> QED
            BY <3>2, <3>3
    <2>6. WalkKnown'
        BY <2>2, <2>5 DEF WalkKnown
    <2>7. ReviewsUndisturbed
        BY <1>1 DEF ReviewsUndisturbed
    <2> QED
        BY <1>4, <1>5, <1>6, <2>6, <2>7, ReviewsAreKept DEF CatalogInv
<1> QED
    BY <1>7, <1>8

LEMMA ItemsChange ==
    ASSUME CatalogInv, NEW i \in Items,
           AddItem(i) \/ RemoveItem(i) \/ \E found \in Evidence : UpdateItem(i, found)
    PROVE  CatalogInv'
<1>1. CatalogTypes /\ listing \in Seq(Items) /\ labels \in Labels
    BY DEF CatalogInv, CatalogTypes
<1>2. CASE AddItem(i)
    <2>1. <<i>> \o listing \in Seq(Items) /\ Present \subseteq ToSet(<<i>> \o listing)
        BY <1>1, FirstAdded DEF Present
    <2>2. Changes(i, <<i>> \o listing) /\ labels' \in Labels
        BY <1>1, <1>2 DEF AddItem
    <2> QED
        BY <2>1, <2>2, ChangesKeep
<1>3. CASE RemoveItem(i)
    <2>1. i \in Present /\ Changes(i, Others(i)) /\ labels' \in Labels
        BY <1>1, <1>3 DEF RemoveItem
    <2> QED
        BY <1>1, <2>1, OthersStay, ChangesKeep
<1>4. ASSUME NEW found \in Evidence, UpdateItem(i, found) PROVE CatalogInv'
    <2>1. /\ i \in Present /\ Changes(i, <<i>> \o Others(i))
          /\ labels' = [labels EXCEPT ![i] = found]
        BY <1>4 DEF UpdateItem
    <2>2. labels' \in Labels
        BY <1>1, <2>1 DEF Labels, Found
    <2>3. PICK rest : rest = Others(i)
        OBVIOUS
    <2>4. rest \in Seq(Items) /\ Present \ {i} \subseteq ToSet(rest)
        BY <1>1, <2>1, <2>3, OthersStay
    <2>5. <<i>> \o rest \in Seq(Items) /\ {i} \cup ToSet(rest) \subseteq ToSet(<<i>> \o rest)
        BY <2>4, FirstAdded
    <2>6. Changes(i, <<i>> \o rest)
        BY <2>1, <2>3
    <2>7. Present \ {i} \subseteq ToSet(<<i>> \o rest)
        BY <2>4, <2>5
    <2> QED
        BY <2>2, <2>5, <2>6, <2>7, ChangesKeep
<1> QED
    BY <1>2, <1>3, <1>4

\* heuristic_classify always has a sensitivity and a confidence.
LEMMA Classifies ==
    ASSUME NEW found
    PROVE  /\ heuristic_classify(found).sensitivity \in Nat
           /\ heuristic_classify(found).confidence \in Nat
BY DEF heuristic_classify, Restricted, Confidential, Internal

LEMMA CommitKeeps ==
    ASSUME CatalogInv, NEW s \in Scanners, CommitBatch(s)
    PROVE  CatalogInv'
<1> DEFINE records == scanner[s].batch.records
           loaded == scanner[s].loaded
           result == [i \in Items |-> heuristic_classify(scanner[s].found[i])]
           added == {i \in records \ scanner[s].reviewed : Low(result[i].confidence)}
<1>1. /\ scanner[s].place = "commit"
      /\ asset' = [i \in Items |-> IF i \in records THEN Classified(i, loaded[i], result[i])
                                                    ELSE asset[i]]
      /\ pending' = [i \in Items |-> IF i \in added THEN pending[i] + 1 ELSE pending[i]]
      /\ hist' = [hist EXCEPT !.resolved = hist.resolved \ records]
      /\ Advance(s)
      /\ scanner' = [scanner EXCEPT ![s] = NoScan]
      /\ UNCHANGED <<style, listing, labels, policy>>
      /\ CatalogTypes /\ ClientWalks /\ WalkKnown /\ WalkCovers /\ ScansApart
      /\ LowConfidenceReviewed
    BY DEF CommitBatch, CatalogInv
<1>2. /\ scanner' \in [Scanners -> ScannerRow]
      /\ scanner'[s].place = "idle"
      /\ \A t \in Scanners \ {s} : scanner'[t] = scanner[t]
    BY <1>1, NoScanTypes, ScannerMoves
<1>3. records \subseteq Items /\ loaded \in Assets /\ asset \in Assets
      /\ pending \in [Items -> Nat]
    BY <1>1, CatalogFacts DEF CatalogTypes
<1>4. \A i \in Items : result[i].sensitivity \in Nat /\ result[i].confidence \in Nat
    BY Classifies
<1> HIDE DEF records, loaded, result
<1>5. ASSUME NEW i \in Items PROVE Classified(i, loaded[i], result[i]) \in AssetRow
    <2>1. /\ loaded[i].sensitivity \in Nat /\ loaded[i].confidence \in Nat
          /\ asset[i].sensitivity \in Nat /\ asset[i].confidence \in Nat
        BY <1>3 DEF Assets, AssetRow
    <2>2. /\ WrittenColumn(asset[i].sensitivity, loaded[i].sensitivity, result[i].sensitivity) \in Nat
          /\ WrittenColumn(asset[i].confidence, loaded[i].confidence, result[i].confidence) \in Nat
        BY <1>4, <2>1 DEF WrittenColumn
    <2> QED
        BY <2>2 DEF Classified, AssetRow
<1>6. asset' \in Assets /\ \A i \in Items : asset'[i] = IF i \in records
                              THEN Classified(i, loaded[i], result[i]) ELSE asset[i]
    BY <1>1, <1>3, <1>5 DEF Assets
<1>7. \A i \in records : asset'[i].known
    <2>1. \A i \in Items : Classified(i, loaded[i], result[i]).known
        BY Zenon DEF Classified
    <2> QED
        BY <1>3, <1>6, <2>1
<1>8. \A i \in Items : asset[i].known => asset'[i].known
    BY <1>6, <1>7
<1>9. /\ pending' \in [Items -> Nat]
      /\ \A i \in Items : pending'[i] = IF i \in added THEN pending[i] + 1 ELSE pending[i]
    BY <1>1, <1>3
<1>10. /\ hist' \in CatalogHistory /\ hist'.overlap = hist.overlap
       /\ hist'.resolved = hist.resolved \ records
    BY <1>1 DEF CatalogTypes, CatalogHistory
<1>11. walk' \in WalkRow
    <2>1. walk \in WalkRow /\ scanner[s].batch.next \in Nat
        BY <1>1, CatalogFacts DEF CatalogTypes
    <2> QED
        BY <1>1, <2>1 DEF Advance, WalkRow
<1>12. CatalogTypes'
    BY <1>1, <1>2, <1>6, <1>9, <1>10, <1>11 DEF CatalogTypes
<1>13. ClientWalks' /\ WalkKnown' /\ WalkCovers'
    <2>1. CASE s # 0
        <3>1. WalkUndisturbed
            BY <1>1, <1>2, <1>8, <2>1, CatalogAssumption DEF Advance, WalkUndisturbed
        <3> QED
            BY <3>1, WalkIsKept
    <2>2. CASE s = 0
        <3>1. walk.place = "walking" /\ scanner'[0].place = "idle"
            BY <1>1, <1>2, <2>2 DEF ClientWalks
        <3>2. ClientWalks'
            BY <3>1 DEF ClientWalks
        <3>3. PICK c, b : c = walk.cursor /\ b = scanner[0].batch
            OBVIOUS
        <3>4. Exempt' <=> Exempt
            BY <1>1, <2>2 DEF Exempt, Advance, CatalogTypes, WalkRow
        <3>5. walk.steady \subseteq Items /\ walk.steady \subseteq Present
              /\ walk'.steady = walk.steady /\ walk'.changed = walk.changed
            BY <1>1, <2>2, <3>1, CatalogFacts DEF Advance, CatalogTypes, WalkRow, WalkKnown
        <3>6. ASSUME ~Exempt, NEW i \in walk.steady, i \in b.records \/ Behind(c, i)
              PROVE  asset'[i].known
            <4>1. CASE i \in b.records
                BY <1>7, <2>2, <3>3, <4>1 DEF records
            <4>2. CASE Behind(c, i)
                BY <1>1, <1>8, <3>1, <3>3, <3>5, <3>6, <4>2 DEF WalkKnown
            <4> QED
                BY <3>6, <4>1, <4>2
        <3>7. ~Exempt => \A i \in walk.steady : Covered(i, c, b)
            BY <1>1, <2>2, <3>1, <3>3 DEF WalkKnown
        <3>8. CASE b.complete
            <4>1. walk'.place = "done"
                BY <1>1, <2>2, <3>3, <3>8 DEF Advance, CatalogTypes, WalkRow
            <4>2. ~Exempt => \A i \in walk.steady : asset'[i].known
                BY <3>6, <3>7, <3>8 DEF Covered
            <4>3. Exempt' => \/ style' = "pages" /\ walk'.changed
                             \/ style' = "delta" /\ PageSize > MaxItems
                BY DEF Exempt
            <4>4. WalkCovers'
                BY <3>4, <3>5, <4>2, <4>3 DEF WalkCovers
            <4>5. WalkKnown'
                BY <4>1 DEF WalkKnown
            <4> QED
                BY <3>2, <4>4, <4>5
        <3>9. CASE ~b.complete
            <4>1. walk'.place = "walking" /\ walk'.cursor = b.next
                BY <1>1, <2>2, <3>1, <3>3, <3>9 DEF Advance, CatalogTypes, WalkRow
            <4>2. ~Exempt => \A i \in walk.steady : Behind(b.next, i) => asset'[i].known
                BY <3>6, <3>7 DEF Covered
            <4>3. PICK n, d : n = b.next /\ d = scanner'[0].batch
                OBVIOUS
            <4>4. WalkKnown'
                BY <1>1, <3>1, <3>4, <3>5, <4>1, <4>2, <4>3, WalkKnownNext
            <4>5. WalkCovers'
                BY <4>1 DEF WalkCovers
            <4> QED
                BY <3>2, <4>4, <4>5
        <3> QED
            BY <3>8, <3>9
    <2> QED
        BY <2>1, <2>2
<1>14. ~hist.overlap => loaded = asset /\ scanner[s].reviewed = Reviewed
    BY <1>1 DEF ScansApart, loaded
<1>15. ScansApart'
    <2> SUFFICES ASSUME ~hist'.overlap
                 PROVE  /\ \A t, r \in Busy' : t = r
                        /\ \A t \in Scanners : scanner'[t].place # "commit"
        BY DEF ScansApart
    <2>1. \A t, r \in Busy : t = r
        BY <1>1, <1>10 DEF ScansApart
    <2>2. s \in Busy
        BY <1>1 DEF Busy
    <2>3. \A t \in Scanners : scanner'[t].place = "idle"
        <3>1. ASSUME NEW t \in Scanners \ {s} PROVE scanner[t].place = "idle"
            BY <2>1, <2>2 DEF Busy
        <3> QED
            BY <1>2, <3>1
    <2> QED
        BY <2>3 DEF Busy
<1>16. LowConfidenceReviewed'
    <2> SUFFICES ASSUME ~hist'.overlap, NEW i \in Items
                 PROVE  /\ pending'[i] <= 1
                        /\ asset'[i].known /\ Low(asset'[i].confidence) =>
                            pending'[i] = 1 \/ i \in hist'.resolved
        BY DEF LowConfidenceReviewed, Low
    <2>1. /\ pending[i] <= 1 /\ pending[i] \in Nat
          /\ asset[i].known /\ Low(asset[i].confidence) =>
                pending[i] = 1 \/ i \in hist.resolved
        BY <1>1, <1>3, <1>10 DEF LowConfidenceReviewed
    <2>2. CASE i \notin records
        <3>1. asset'[i] = asset[i] /\ pending'[i] = pending[i]
            BY <1>6, <1>9, <2>2
        <3> QED
            BY <1>10, <2>1, <2>2, <3>1
    <2>3. CASE i \in records
        <3>1. i \in scanner[s].reviewed <=> pending[i] > 0
            BY <1>10, <1>14 DEF Reviewed
        <3>2. asset'[i].confidence = result[i].confidence
            <4>1. /\ loaded[i] = asset[i]
                  /\ asset'[i] = Classified(i, loaded[i], result[i])
                BY <1>6, <1>10, <1>14, <2>3
            <4> QED
                BY <4>1 DEF Classified, WrittenColumn
        <3>3. i \in added <=> pending[i] = 0 /\ Low(result[i].confidence)
            BY <2>1, <2>3, <3>1
        <3> HIDE DEF added
        <3> QED
            BY <1>9, <2>1, <3>2, <3>3
    <2> QED
        BY <2>2, <2>3
<1> QED
    BY <1>12, <1>13, <1>15, <1>16 DEF CatalogInv

LEMMA CatalogKeeps ==
    ASSUME CatalogInv, CatalogArrives \/ CatalogStep
    PROVE  CatalogInv'
<1>1. CASE CatalogArrives
    <2>1. CASE BeginWalk
        BY <2>1, WalkBegins
    <2>2. ASSUME NEW s \in Scanners, ScheduledScan(s) \/ ScanFails(s) PROVE CatalogInv'
        BY <2>2, ScheduledKeeps, ScanEndsKeeps DEF ScanFails
    <2>3. ASSUME NEW new \in Policies, set_connector_policy(new) PROVE CatalogInv'
        BY <2>3, PolicyKeeps
    <2>4. ASSUME NEW i \in Items,
                 AddItem(i) \/ RemoveItem(i) \/ \E found \in Evidence : UpdateItem(i, found)
          PROVE  CatalogInv'
        BY <2>4, ItemsChange
    <2>5. ASSUME NEW i \in Items, NEW status \in {"approved", "corrected"},
                 resolve_classification_review(i, status)
          PROVE  CatalogInv'
        BY <2>5, ResolveKeeps
    <2> QED
        BY <1>1, <2>1, <2>2, <2>3, <2>4, <2>5 DEF CatalogArrives
<1>2. CASE CatalogStep
    <2>1. CASE ScanNext
        BY <2>1, NextPageKeeps
    <2>2. ASSUME NEW s \in Scanners,
                 Scan(s) \/ LoadRecords(s) \/ CommitBatch(s) \/ RefuseDuplicate(s)
          PROVE  CatalogInv'
        BY <2>2, ScanKeeps, LoadKeeps, CommitKeeps, ScanEndsKeeps DEF RefuseDuplicate
    <2> QED
        BY <1>2, <2>1, <2>2 DEF CatalogStep
<1> QED
    BY <1>1, <1>2

LEMMA CatalogRests ==
    ASSUME CatalogInv, UNCHANGED cvars
    PROVE  CatalogInv'
<1>1. UNCHANGED <<style, listing, labels, policy, scanner, asset, pending, walk, hist>>
    BY DEF cvars
<1>2. CatalogTypes'
    BY <1>1 DEF CatalogTypes, CatalogInv
<1>3. WalkUndisturbed /\ ReviewsUndisturbed
    BY <1>1 DEF WalkUndisturbed, ReviewsUndisturbed
<1> QED
    BY <1>2, <1>3, WalkIsKept, ReviewsAreKept DEF CatalogInv

\* The inductive invariant of the catalogue: what a walk has left behind and
\* what its batch covers, and what a scan about to commit has read.
THEOREM CatalogInvariant == ScansSpec => []CatalogInv
<1>1. ScansInit => CatalogInv
    BY InitCatalog DEF ScansInit
<1>2. CatalogInv /\ [ScansNext]_allvars => CatalogInv'
    BY CatalogKeeps, CatalogRests DEF ScansNext, allvars
<1> QED
    BY <1>1, <1>2, PTL DEF ScansSpec

\* The cursors of the providers' listings lead a client to every item that was
\* there all along, whatever else comes, goes or fails, for any page sizes that
\* the delta's limit does not cut.
THEOREM WalksCover == ScansSpec => []WalkCovers
<1>1. CatalogInv => WalkCovers
    BY DEF CatalogInv
<1> QED
    BY <1>1, CatalogInvariant, PTL

\* ingest_connector leaves one pending review for an asset it classified with
\* low confidence, until a human resolves it, if nothing overlapped.
THEOREM LowConfidenceIsReviewed == ScansSpec => []LowConfidenceReviewed
<1>1. CatalogInv => LowConfidenceReviewed
    BY DEF CatalogInv
<1> QED
    BY <1>1, CatalogInvariant, PTL

-----------------------------------------------------------------------------
(***************************************************************************)
(* The plan of connector schedules.                                        *)
(***************************************************************************)

\* What a pass knows of the clock: it began in the past, with schedules that
\* were due then.
PassKnown ==
    \A w \in Workers :
        /\ pass[w].at = "idle" => pass[w] = IdlePass
        /\ pass[w].began <= now
        /\ pass[w].at # "idle" /\ ~pass[w].reloaded => pass[w].copy <= pass[w].began

\* An operator's request is one of the edits.
EditCounted == edits = 0 => edit = NoEdit

PlanInv ==
    /\ ScheduleTypes
    /\ PassKnown
    /\ EditCounted

LEMMA LeastIsMin ==
    ASSUME NEW S, S \subseteq Nat, S # {}
    PROVE  Min(S) \in S /\ \A t \in S : Min(S) <= t
BY Least DEF Min

\* The candidate is in the future.
LEMMA CandidateIsNext ==
    ASSUME NEW from \in Nat, NEW after \in Nat
    PROVE  IntervalCandidate(from, after) \in Nat /\ after < IntervalCandidate(from, after)
<1>1. PICK i \in Nat \ {0} : i = Interval
    BY ScheduleAssumption
<1>2. CASE from > after
    BY <1>2 DEF IntervalCandidate
<1>3. CASE from <= after
    <2>1. PICK gap \in Nat : gap = after - from
        BY <1>3
    <2>2. PICK q \in Nat : q = gap \div i
        BY <1>1, <2>1
    <2>3. gap < i * (q + 1) /\ i * (q + 1) \in Nat
        BY <1>1, <2>1, <2>2
    <2>4. IntervalCandidate(from, after) = from + i * (q + 1)
        BY <1>1, <1>3, <2>1, <2>2 DEF IntervalCandidate
    <2> QED
        BY <1>3, <2>1, <2>3, <2>4
<1> QED
    BY <1>2, <1>3

\* What the searches find is later, and outside every window.
LEMMA NextRunIsPlanned ==
    ASSUME NEW s \in Schedules, NEW from \in Nat, NEW after \in Nat,
           next_schedule_run(s, from, after) # {}
    PROVE  /\ Min(next_schedule_run(s, from, after)) \in Nat
           /\ Min(next_schedule_run(s, from, after)) > after
           /\ Min(next_schedule_run(s, from, after)) \notin Blocked
<1>1. PICK runs : runs = next_schedule_run(s, from, after)
    OBVIOUS
<1>2. ASSUME NEW u \in runs PROVE u \in Nat /\ u > after /\ u \notin Blocked
    <2>1. CASE s \in CronSchedules
        BY <1>1, <2>1, ScheduleAssumption DEF next_schedule_run, next_cron_run
    <2>2. CASE s \notin CronSchedules
        <3>1. PICK t : t = IntervalCandidate(from, after)
            OBVIOUS
        <3>2. t \in Nat /\ after < t
            BY <3>1, CandidateIsNext
        <3>3. u \in t..(t + SkipReach) /\ u \notin Blocked /\ SkipReach \in Nat
            BY <1>1, <2>2, <3>1, ScheduleAssumption DEF next_schedule_run, skip_maintenance
        <3> QED
            BY <3>2, <3>3
    <2> QED
        BY <2>1, <2>2
<1>3. runs # {} /\ runs \subseteq Nat
    BY <1>1, <1>2
<1>4. Min(runs) \in runs
    BY <1>3, LeastIsMin
<1> QED
    BY <1>1, <1>2, <1>4

LEMMA FirstRunIsPlanned ==
    ASSUME NEW s \in Schedules, now \in Nat, FirstRun(s) # {}
    PROVE  Min(FirstRun(s)) \in Nat /\ Min(FirstRun(s)) \notin Blocked
<1>1. PICK runs : runs = FirstRun(s)
    OBVIOUS
<1>2. ASSUME NEW u \in runs PROVE u \in Nat /\ u \notin Blocked
    BY <1>1, ScheduleAssumption DEF FirstRun, next_cron_run, skip_maintenance
<1>3. runs # {} /\ runs \subseteq Nat
    BY <1>1, <1>2
<1>4. Min(runs) \in runs
    BY <1>3, LeastIsMin
<1> QED
    BY <1>1, <1>2, <1>4

LEMMA PlanBegins ==
    ASSUME SchedulesInit PROVE PlanInv
<1>0. LastInstant \in Nat /\ MaxEdits \in Nat
    BY ScheduleAssumption
<1>1. /\ IdlePass \in Pass /\ IdlePass.began = 0 /\ IdlePass.current = {} /\ IdlePass.at = "idle"
      /\ NoSchedule \in Schedule /\ NoSchedule.next = 0 /\ NoSchedule.present = FALSE
      /\ NoEdit.op = "none" /\ NoEdit.target = {} /\ NoEdit.copy = NoSchedule
    BY DEF IdlePass, Pass, NoSchedule, Schedule, NoEdit
<1>2. ScheduleTypes
    BY <1>0, <1>1 DEF SchedulesInit, ScheduleTypes
<1>3. PassKnown
    BY <1>1 DEF SchedulesInit, PassKnown
<1>4. EditCounted
    BY <1>1 DEF SchedulesInit, EditCounted
<1> QED
    BY <1>2, <1>3, <1>4 DEF PlanInv

\* A worker writes its own pass.
LEMMA PassWritten ==
    ASSUME PlanInv, NEW w \in Workers, NEW row \in Pass, pass' = [pass EXCEPT ![w] = row],
           UNCHANGED <<now, edit, edits>>, jobs' \in [Schedules -> Nat],
           sched' \in [Schedules -> Schedule], planned' \in [Schedules -> Nat],
           row.at = "idle" => row = IdlePass,
           row.began <= now,
           row.at # "idle" /\ ~row.reloaded => row.copy <= row.began
    PROVE  PlanInv'
<1>1. /\ pass' \in [Workers -> Pass] /\ pass'[w] = row
      /\ \A v \in Workers \ {w} : pass'[v] = pass[v]
    BY DEF PlanInv, ScheduleTypes
<1>2. ScheduleTypes'
    BY <1>1 DEF PlanInv, ScheduleTypes
<1>3. PassKnown'
    BY <1>1 DEF PlanInv, PassKnown
<1>4. EditCounted'
    BY DEF PlanInv, EditCounted
<1> QED
    BY <1>2, <1>3, <1>4 DEF PlanInv

LEMMA EndsKeepPlan ==
    ASSUME PlanInv, NEW w \in Workers, pass' = [pass EXCEPT ![w] = IdlePass],
           UNCHANGED <<now, sched, edit, edits, jobs, planned>>
    PROVE  PlanInv'
<1>1. /\ IdlePass \in Pass /\ IdlePass.at = "idle" /\ IdlePass.began = 0 /\ IdlePass.current = {}
      /\ 0 <= now
    BY ScheduleAssumption DEF IdlePass, Pass, PlanInv, ScheduleTypes
<1>2. sched' \in [Schedules -> Schedule] /\ planned' \in [Schedules -> Nat]
      /\ jobs' \in [Schedules -> Nat]
    BY DEF PlanInv, ScheduleTypes
<1> QED
    BY <1>1, <1>2, PassWritten

LEMMA SelectKeepsPlan ==
    ASSUME PlanInv, NEW w \in Workers, NEW s \in Schedules, SelectDue(w, s)
    PROVE  PlanInv'
<1> DEFINE rest == {i \in Schedules : Due(i)} \ {s}
           row == [at |-> "claiming", rest |-> rest, current |-> {s}, copy |-> sched[s].next,
                   began |-> now, reloaded |-> FALSE]
<1>1. /\ pass' = [pass EXCEPT ![w] = row] /\ Due(s)
      /\ UNCHANGED <<now, sched, edit, edits, jobs, planned>>
    BY DEF SelectDue
<1>2. /\ sched[s] \in Schedule /\ now \in Nat /\ sched[s].next \in Nat /\ sched[s].next <= now
    BY <1>1, ScheduleAssumption DEF PlanInv, ScheduleTypes, Schedule, Due
<1>3. row \in Pass
    BY <1>2 DEF Pass
<1>4. sched' \in [Schedules -> Schedule] /\ planned' \in [Schedules -> Nat]
      /\ jobs' \in [Schedules -> Nat]
    BY <1>1 DEF PlanInv, ScheduleTypes
<1>5. row.at = "claiming" /\ row.began = now /\ row.copy = sched[s].next
    OBVIOUS
<1> HIDE DEF row
<1>6. row.at # "idle" /\ row.began <= now /\ row.copy <= row.began
    BY <1>2, <1>5
<1>7. UNCHANGED <<now, edit, edits>>
    BY <1>1
<1> QED
    BY <1>1, <1>3, <1>4, <1>6, <1>7, PassWritten

\* A step within a pass that changes neither its copy nor its beginning.
LEMMA GoesOnKeepsPlan ==
    ASSUME PlanInv, NEW w \in Workers, pass[w].at # "idle",
           NEW at \in {"enqueueing", "continuing"}, NEW current \in SUBSET pass[w].current,
           pass' = [pass EXCEPT ![w].at = at, ![w].current = current],
           UNCHANGED <<now, edit, edits>>, jobs' \in [Schedules -> Nat],
           sched' \in [Schedules -> Schedule], planned' \in [Schedules -> Nat]
    PROVE  PlanInv'
<1> DEFINE row == [pass[w] EXCEPT !.at = at, !.current = current]
<1>1. pass[w] \in Pass /\ current \in SUBSET Schedules
    BY DEF PlanInv, ScheduleTypes, Pass
<1>2. pass' = [pass EXCEPT ![w] = row]
    BY <1>1 DEF PlanInv, ScheduleTypes
<1>3. row \in Pass /\ row.at = at /\ row.current = current /\ row.copy = pass[w].copy
      /\ row.began = pass[w].began
    BY <1>1 DEF Pass
<1>4. row.reloaded = pass[w].reloaded
    BY <1>1 DEF Pass
<1> HIDE DEF row
<1>5. row.began <= now /\ (~row.reloaded => row.copy <= row.began)
    BY <1>3, <1>4 DEF PlanInv, PassKnown
<1> QED
    BY <1>2, <1>3, <1>5, PassWritten

LEMMA ClaimKeepsPlan ==
    ASSUME PlanInv, NEW w \in Workers, NEW s \in Schedules, ClaimSchedule(w, s)
    PROVE  PlanInv'
<1>0. /\ pass[w].at = "claiming" /\ s \in pass[w].current /\ pass[w] \in Pass
      /\ UNCHANGED <<now, edit, edits, jobs>>
      /\ jobs \in [Schedules -> Nat] /\ sched \in [Schedules -> Schedule]
      /\ planned \in [Schedules -> Nat]
    BY DEF ClaimSchedule, PlanInv, ScheduleTypes
<1>1. CASE pass' = [pass EXCEPT ![w] = IdlePass] /\ UNCHANGED <<sched, planned>>
    BY <1>0, <1>1, EndsKeepPlan
<1>2. CASE /\ next_schedule_run(s, pass[w].copy, pass[w].began) # {} /\ ClaimMatches(w, s)
           /\ sched' = [sched EXCEPT ![s].next =
                            Min(next_schedule_run(s, pass[w].copy, pass[w].began))]
           /\ planned' = [planned EXCEPT ![s] =
                            IF sched'[s].next = sched[s].next THEN @ ELSE @ + 1]
           /\ pass' = [pass EXCEPT ![w].at = "enqueueing"]
    <2>1. PICK run : run = Min(next_schedule_run(s, pass[w].copy, pass[w].began))
        OBVIOUS
    <2>2. pass[w].copy \in Nat /\ pass[w].began \in Nat
        BY <1>0 DEF Pass
    <2>3. run \in Nat /\ run \notin Blocked
        BY <1>2, <2>1, <2>2, NextRunIsPlanned
    <2>4. sched' = [sched EXCEPT ![s] = [sched[s] EXCEPT !.next = run]]
        BY <1>0, <1>2, <2>1
    <2>5. /\ [sched[s] EXCEPT !.next = run] \in Schedule
          /\ [sched[s] EXCEPT !.next = run].next = run
        BY <1>0, <2>3 DEF Schedule
    <2>6. /\ sched' \in [Schedules -> Schedule] /\ sched'[s].next = run
          /\ \A i \in Schedules \ {s} : sched'[i] = sched[i]
        BY <1>0, <2>4, <2>5
    <2>7. planned' \in [Schedules -> Nat]
        BY <1>0, <1>2
    <2>9. pass' = [pass EXCEPT ![w].at = "enqueueing", ![w].current = pass[w].current]
        BY <1>0, <1>2 DEF PlanInv, ScheduleTypes, Pass
    <2> QED
        BY <1>0, <2>6, <2>7, <2>9, GoesOnKeepsPlan
<1>3. CASE pass' = [pass EXCEPT ![w].at = "continuing", ![w].current = {}]
           /\ UNCHANGED <<sched, planned>>
    <2>2. pass[w].at # "idle" /\ {} \in SUBSET pass[w].current
          /\ UNCHANGED <<now, edit, edits>> /\ jobs' \in [Schedules -> Nat]
          /\ sched' \in [Schedules -> Schedule] /\ planned' \in [Schedules -> Nat]
        BY <1>0, <1>3
    <2> QED
        BY <1>3, <2>2, GoesOnKeepsPlan
<1> QED
    BY <1>1, <1>2, <1>3 DEF ClaimSchedule

LEMMA EnqueueKeepsPlan ==
    ASSUME PlanInv, NEW w \in Workers, NEW s \in Schedules, EnqueueDue(w, s)
    PROVE  PlanInv'
<1>0. /\ pass[w].at = "enqueueing" /\ UNCHANGED <<now, sched, edit, edits, planned>>
      /\ jobs \in [Schedules -> Nat]
    BY DEF EnqueueDue, PlanInv, ScheduleTypes
<1>1. CASE /\ jobs' = [jobs EXCEPT ![s] = @ + 1]
           /\ pass' = [pass EXCEPT ![w].at = "continuing", ![w].current = {}]
    <2>1. /\ sched' \in [Schedules -> Schedule]
          /\ planned' \in [Schedules -> Nat] /\ jobs' \in [Schedules -> Nat]
        BY <1>0, <1>1 DEF PlanInv, ScheduleTypes
    <2>2. pass[w].at # "idle" /\ {} \in SUBSET pass[w].current
          /\ UNCHANGED <<now, edit, edits>>
        BY <1>0
    <2> QED
        BY <1>1, <2>1, <2>2, GoesOnKeepsPlan
<1>2. CASE pass' = [pass EXCEPT ![w] = IdlePass] /\ UNCHANGED jobs
    BY <1>0, <1>2, EndsKeepPlan
<1> QED
    BY <1>1, <1>2 DEF EnqueueDue

LEMMA ReloadKeepsPlan ==
    ASSUME PlanInv, NEW w \in Workers, NEW s \in Schedules, ReloadNext(w, s)
    PROVE  PlanInv'
<1>0. /\ pass[w].at = "continuing" /\ pass[w] \in Pass /\ s \in pass[w].rest
      /\ UNCHANGED <<now, sched, edit, edits, jobs, planned>>
      /\ sched[s] \in Schedule
    BY DEF ReloadNext, PlanInv, ScheduleTypes
<1>1. CASE pass' = [pass EXCEPT ![w] = IdlePass]
    BY <1>0, <1>1, EndsKeepPlan
<1> DEFINE row == [pass[w] EXCEPT !.at = "claiming", !.rest = @ \ {s}, !.current = {s},
                                  !.copy = sched[s].next, !.reloaded = TRUE]
<1>2. CASE pass' = [pass EXCEPT ![w] = row]
    <2>1. /\ row.at = "claiming" /\ row.current = {s} /\ row.copy = sched[s].next
          /\ row.began = pass[w].began /\ row.rest = pass[w].rest \ {s}
        BY <1>0 DEF Pass
    <2>2. row.reloaded = TRUE
        BY <1>0 DEF Pass
    <2>3. row \in Pass
        BY <1>0 DEF Pass, Schedule
    <2> HIDE DEF row
    <2>4. row.at # "idle" /\ row.reloaded /\ row.began <= now /\ UNCHANGED <<now, edit, edits>>
        BY <1>0, <2>1, <2>2 DEF PlanInv, PassKnown
    <2>5. /\ sched' \in [Schedules -> Schedule]
          /\ planned' \in [Schedules -> Nat] /\ jobs' \in [Schedules -> Nat]
        BY <1>0 DEF PlanInv, ScheduleTypes
    <2> QED
        BY <1>2, <2>3, <2>4, <2>5, PassWritten
<1>3. pass' = [pass EXCEPT ![w] = IF sched[s].present THEN row ELSE IdlePass]
    BY DEF ReloadNext
<1> HIDE DEF row
<1> QED
    BY <1>1, <1>2, <1>3

\* A commit of an operator writes one schedule.
LEMMA ScheduleWritten ==
    ASSUME PlanInv, NEW s \in Schedules, NEW row \in Schedule, sched' = [sched EXCEPT ![s] = row],
           planned' \in [Schedules -> Nat], UNCHANGED <<now, pass, edits, jobs>>,
           edit' = edit \/ edit' = NoEdit
    PROVE  PlanInv'
<1>1. /\ sched' \in [Schedules -> Schedule] /\ sched'[s] = row
      /\ \A i \in Schedules \ {s} : sched'[i] = sched[i]
    BY DEF PlanInv, ScheduleTypes
<1>2. /\ NoEdit.op = "none" /\ NoEdit.target = {} /\ NoEdit.copy \in Schedule
    BY DEF NoEdit, NoSchedule, Schedule
<1>3. ScheduleTypes'
    BY <1>1, <1>2 DEF PlanInv, ScheduleTypes
<1>4. PassKnown'
    BY DEF PlanInv, PassKnown
<1>5. EditCounted'
    BY <1>1 DEF PlanInv, EditCounted
<1> QED
    BY <1>3, <1>4, <1>5 DEF PlanInv

LEMMA CreateKeepsPlan ==
    ASSUME PlanInv, NEW s \in Schedules, create_schedule(s)
    PROVE  PlanInv'
<1>0. now \in Nat
    BY ScheduleAssumption DEF PlanInv, ScheduleTypes
<1>1. PICK first : first = Min(FirstRun(s))
    OBVIOUS
<1>2. first \in Nat /\ first \notin Blocked
    BY <1>0, <1>1, FirstRunIsPlanned DEF create_schedule
<1>3. PICK on \in BOOLEAN :
        sched' = [sched EXCEPT ![s] = [present |-> TRUE, enabled |-> on, next |-> first]]
    BY <1>1 DEF create_schedule
<1> DEFINE row == [present |-> TRUE, enabled |-> on, next |-> first]
<1>4. row \in Schedule
    BY <1>2 DEF Schedule
<1>5. row.next = first
    OBVIOUS
<1>6. planned' \in [Schedules -> Nat] /\ UNCHANGED <<now, pass, edits, jobs>> /\ edit' = edit
    BY DEF create_schedule, PlanInv, ScheduleTypes
<1>7. sched' = [sched EXCEPT ![s] = row]
    BY <1>3
<1> HIDE DEF row
<1> QED
    BY <1>2, <1>4, <1>5, <1>6, <1>7, ScheduleWritten

LEMMA DeleteKeepsPlan ==
    ASSUME PlanInv, NEW s \in Schedules, delete_connector_schedule(s)
    PROVE  PlanInv'
<1>1. NoSchedule \in Schedule /\ NoSchedule.present = FALSE
    BY DEF NoSchedule, Schedule
<1>2. /\ sched' = [sched EXCEPT ![s] = NoSchedule] /\ planned' \in [Schedules -> Nat]
      /\ UNCHANGED <<now, pass, edits, jobs>> /\ edit' = NoEdit
    BY DEF delete_connector_schedule, PlanInv, ScheduleTypes
<1> QED
    BY <1>1, <1>2, ScheduleWritten

LEMMA EditedTypes ==
    ASSUME PlanInv, NEW s \in Schedules, NEW t \in 0..LastInstant, update_connector_schedule(s, t)
    PROVE  EditedNext(s, t) \in Nat
<1>0. edit.copy \in Schedule /\ now \in Nat /\ (edit.op = "cadence" => FirstRun(s) # {})
    BY ScheduleAssumption DEF update_connector_schedule, PlanInv, ScheduleTypes
<1>1. edit.copy.next \in Nat /\ t \in Nat
    BY <1>0, ScheduleAssumption DEF Schedule
<1>2. CASE edit.op = "cadence"
    BY <1>0, <1>2, FirstRunIsPlanned DEF EditedNext
<1>3. CASE edit.op # "cadence"
    BY <1>0, <1>1, <1>3 DEF EditedNext
<1> QED
    BY <1>2, <1>3

LEMMA UpdateKeepsPlan ==
    ASSUME PlanInv, NEW s \in Schedules, NEW t \in 0..LastInstant, update_connector_schedule(s, t)
    PROVE  PlanInv'
<1>0. /\ UNCHANGED <<now, pass, edits, jobs>> /\ edit' = NoEdit
      /\ sched \in [Schedules -> Schedule] /\ planned \in [Schedules -> Nat]
      /\ sched[s] \in Schedule /\ edit.copy \in Schedule
      /\ edits # 0
    BY DEF update_connector_schedule, PlanInv, ScheduleTypes, EditCounted, NoEdit
<1> DEFINE next == WrittenField(sched[s].next, edit.copy.next, EditedNext(s, t))
           on == WrittenField(sched[s].enabled, edit.copy.enabled, EditedEnabled)
           row == [sched[s] EXCEPT !.enabled = on, !.next = next]
<1>1. next \in Nat
    <2>1. sched[s].next \in Nat
        BY <1>0 DEF Schedule
    <2>2. PICK new : new = EditedNext(s, t)
        OBVIOUS
    <2>3. new \in Nat
        BY <2>2, EditedTypes
    <2> QED
        BY <2>1, <2>2, <2>3 DEF WrittenField
<1>2. on \in BOOLEAN
    <2>1. sched[s].enabled \in BOOLEAN /\ edit.copy.enabled \in BOOLEAN
        BY <1>0 DEF Schedule
    <2>2. EditedEnabled \in BOOLEAN
        BY <2>1 DEF EditedEnabled
    <2> QED
        BY <2>1, <2>2 DEF WrittenField
<1> HIDE DEF next, on
<1>3. row \in Schedule /\ row.next = next
    BY <1>0, <1>1, <1>2 DEF Schedule
<1>4. /\ sched' = [sched EXCEPT ![s].enabled = on, ![s].next = next]
      /\ planned' = [planned EXCEPT ![s] =
                IF sched'[s].next = sched[s].next THEN @ ELSE @ + 1]
    BY DEF update_connector_schedule, on, next
<1>5. sched' = [sched EXCEPT ![s] = row]
    BY <1>0, <1>4
<1>6. planned' \in [Schedules -> Nat]
    BY <1>0, <1>4
<1> HIDE DEF row
<1> QED
    BY <1>0, <1>3, <1>5, <1>6, ScheduleWritten

LEMMA BeginEditKeepsPlan ==
    ASSUME PlanInv, NEW s \in Schedules,
           NEW op \in {"replan", "cadence", "enable", "disable", "delete"}, BeginEdit(s, op)
    PROVE  PlanInv'
<1>0. /\ sched[s] \in Schedule /\ edits \in Nat /\ edits < MaxEdits /\ MaxEdits \in Nat
      /\ edit' = [op |-> op, target |-> {s}, copy |-> sched[s]] /\ edits' = edits + 1
      /\ UNCHANGED <<now, sched, pass, jobs, planned>>
    BY ScheduleAssumption DEF BeginEdit, PlanInv, ScheduleTypes
<1>1. edit'.op = op /\ edit'.target = {s} /\ edit'.copy = sched[s]
    BY <1>0
<1>2. ScheduleTypes'
    BY <1>0, <1>1 DEF PlanInv, ScheduleTypes
<1>3. PassKnown'
    BY <1>0 DEF PlanInv, PassKnown
<1>4. EditCounted'
    BY <1>0 DEF EditCounted
<1> QED
    BY <1>2, <1>3, <1>4 DEF PlanInv

LEMMA TimeKeepsPlan ==
    ASSUME PlanInv, TimePasses
    PROVE  PlanInv'
<1>0. now' = now + 1 /\ now \in Nat /\ now < LastInstant /\ LastInstant \in Nat
      /\ UNCHANGED <<sched, pass, edit, edits, jobs, planned>>
    BY ScheduleAssumption DEF TimePasses, PlanInv, ScheduleTypes
<1>1. ScheduleTypes'
    BY <1>0 DEF PlanInv, ScheduleTypes
<1>2. PassKnown'
    <2>1. \A w \in Workers : pass[w].began \in Nat
        BY DEF PlanInv, ScheduleTypes, Pass
    <2> QED
        BY <1>0, <2>1 DEF PlanInv, PassKnown
<1>3. EditCounted'
    BY <1>0 DEF PlanInv, EditCounted
<1> QED
    BY <1>1, <1>2, <1>3 DEF PlanInv

LEMMA PlanStep == PlanInv /\ [SchedulesNext]_schedulevars => PlanInv'
<1> SUFFICES ASSUME PlanInv, [SchedulesNext]_schedulevars PROVE PlanInv'
    OBVIOUS
<1>1. CASE TimePasses
    BY <1>1, TimeKeepsPlan
<1>2. ASSUME NEW s \in Schedules,
             \/ create_schedule(s)
             \/ \E op \in {"replan", "cadence", "enable", "disable", "delete"} : BeginEdit(s, op)
             \/ \E t \in 0..LastInstant : update_connector_schedule(s, t)
             \/ delete_connector_schedule(s)
      PROVE  PlanInv'
    BY <1>2, CreateKeepsPlan, BeginEditKeepsPlan, UpdateKeepsPlan, DeleteKeepsPlan
<1>3. ASSUME NEW w \in Workers, NEW s \in Schedules,
             \/ SelectDue(w, s) \/ ClaimSchedule(w, s) \/ EnqueueDue(w, s) \/ ReloadNext(w, s)
      PROVE  PlanInv'
    BY <1>3, SelectKeepsPlan, ClaimKeepsPlan, EnqueueKeepsPlan, ReloadKeepsPlan
<1>4. ASSUME NEW w \in Workers, EndPass(w) PROVE PlanInv'
    BY <1>4, EndsKeepPlan DEF EndPass
<1>5. CASE UNCHANGED schedulevars
    BY <1>5 DEF schedulevars, PlanInv, ScheduleTypes, PassKnown, EditCounted
<1> QED
    BY <1>1, <1>2, <1>3, <1>4, <1>5 DEF SchedulesNext

\* The inductive invariant of connector schedules (create_schedule,
\* enqueue_due_schedules and the endpoints): a pass is not ahead of the clock, and
\* what it selected was due when it began.
THEOREM PlanInvariant == SchedulesSpec => []PlanInv
<1> QED
    BY PlanBegins, PlanStep, PTL DEF SchedulesSpec

-----------------------------------------------------------------------------
(***************************************************************************)
(* One job for each occurrence, as long as a pass over several schedules   *)
(* has the table for itself.                                               *)
(***************************************************************************)

\* A pass that has more than one schedule, or had: it reloads them.
Batch(w) == pass[w].rest # {} \/ pass[w].reloaded
BatchesAlone == \A w, v \in Workers : Batch(w) /\ v # w => pass[v].at = "idle"

\* The jobs a schedule has been given, and those that passes have yet to enqueue.
EnqueueingFor(s) == {w \in Workers : pass[w].at = "enqueueing" /\ s \in pass[w].current}
Used(s) == jobs[s] + Cardinality(EnqueueingFor(s))
Spare(s, n) == Used(s) + n <= planned[s]

\* A pass claims one schedule at a time.
OneCurrent ==
    \A w \in Workers :
        /\ pass[w].at \in {"idle", "continuing"} => pass[w].current = {}
        /\ \A s, t \in pass[w].current : s = t
        /\ pass[w].rest \cap pass[w].current = {}
        /\ \A s \in pass[w].rest \cup pass[w].current : planned[s] > 0

\* The next occurrence of a schedule has no job yet.
OccurrencesSpare ==
    \A s \in Schedules :
        /\ IsFiniteSet(EnqueueingFor(s))
        /\ Spare(s, 0)
        /\ planned[s] > 0 => Spare(s, 1)
        /\ sched[s].present => planned[s] > 0

\* A schedule that a pass selected was due when the pass began; if it is later by
\* now, it was planned again meanwhile.
CopiesSpare ==
    \A w \in Workers :
        /\ \A s \in pass[w].rest :
            ~sched[s].present \/ sched[s].next <= pass[w].began \/ Spare(s, 2)
        /\ pass[w].at = "claiming" =>
            pass[w].copy <= pass[w].began \/ \A s \in pass[w].current : Spare(s, 2)

OccurrenceInv == OneCurrent /\ OccurrencesSpare /\ CopiesSpare

LEMMA OccurrencesBegin ==
    ASSUME SchedulesInit PROVE OccurrenceInv
<1>1. /\ IdlePass.at = "idle" /\ IdlePass.current = {} /\ IdlePass.rest = {}
      /\ NoSchedule.present = FALSE
    BY DEF IdlePass, NoSchedule
<1>2. \A s \in Schedules : EnqueueingFor(s) = {} /\ jobs[s] = 0 /\ planned[s] = 0 /\ ~sched[s].present
    BY <1>1 DEF SchedulesInit, EnqueueingFor
<1>3. \A w \in Workers : pass[w] = IdlePass
    BY DEF SchedulesInit
<1>4. OneCurrent /\ CopiesSpare
    BY <1>1, <1>3 DEF OneCurrent, CopiesSpare
<1>5. OccurrencesSpare
    BY <1>2, FS_EmptySet DEF OccurrencesSpare, Spare, Used
<1> QED
    BY <1>4, <1>5 DEF OccurrenceInv

LEMMA UsedIsNat ==
    ASSUME PlanInv, OccurrencesSpare, NEW s \in Schedules
    PROVE  Used(s) \in Nat /\ planned[s] \in Nat /\ jobs[s] \in Nat
           /\ Cardinality(EnqueueingFor(s)) \in Nat
BY FS_CardinalityType DEF PlanInv, ScheduleTypes, OccurrencesSpare, Used

\* The time and the operators plan, and do not use up, occurrences.
OperatorMoves ==
    /\ UNCHANGED <<pass, jobs>>
    /\ \A s \in Schedules :
        /\ planned'[s] \in Nat /\ planned[s] <= planned'[s]
        /\ sched'[s].present => planned'[s] > 0
        /\ planned[s] > 0 =>
            \/ ~sched'[s].present
            \/ sched[s].present /\ sched'[s].next = sched[s].next
            \/ planned'[s] = planned[s] + 1

LEMMA OperatorsKeepOccurrences ==
    ASSUME PlanInv, OccurrenceInv, OperatorMoves
    PROVE  OccurrenceInv'
<1>1. \A s \in Schedules : /\ EnqueueingFor(s)' = EnqueueingFor(s) /\ Used(s)' = Used(s)
                           /\ Used(s) \in Nat /\ planned[s] \in Nat
    BY UsedIsNat DEF OccurrenceInv, OperatorMoves, EnqueueingFor, Used
<1>2. ASSUME NEW s \in Schedules
      PROVE  /\ IsFiniteSet(EnqueueingFor(s)') /\ Spare(s, 0)'
             /\ (planned[s] > 0 => Spare(s, 1))' /\ (sched[s].present => planned[s] > 0)'
             /\ Spare(s, 2) => Spare(s, 2)'
             /\ planned[s] > 0 => planned'[s] > 0
             /\ planned[s] > 0 => \/ ~sched'[s].present \/ Spare(s, 2)'
                                  \/ sched[s].present /\ sched'[s].next = sched[s].next
    <2>1. /\ IsFiniteSet(EnqueueingFor(s)) /\ Used(s) + 0 <= planned[s]
          /\ planned[s] > 0 => Used(s) + 1 <= planned[s]
        BY DEF OccurrenceInv, OccurrencesSpare, Spare
    <2>2. /\ planned'[s] \in Nat /\ planned[s] <= planned'[s]
          /\ sched'[s].present => planned'[s] > 0
          /\ planned[s] > 0 =>
                \/ ~sched'[s].present
                \/ sched[s].present /\ sched'[s].next = sched[s].next
                \/ planned'[s] = planned[s] + 1
        BY DEF OperatorMoves
    <2>3. PICK used \in Nat : used = Used(s) /\ used = Used(s)'
        BY <1>1
    <2>4. planned[s] \in Nat
        BY <1>1
    <2> QED
        BY <1>1, <2>1, <2>2, <2>3, <2>4 DEF Spare
<1>3. OccurrencesSpare'
    BY <1>2 DEF OccurrencesSpare
<1>4. \A w \in Workers : pass[w].rest \subseteq Schedules /\ pass[w].current \subseteq Schedules
    BY DEF PlanInv, ScheduleTypes, Pass
<1>5. OneCurrent'
    BY <1>2, <1>4 DEF OccurrenceInv, OneCurrent, OperatorMoves
<1>6. CopiesSpare'
    <2> SUFFICES ASSUME NEW w \in Workers
                 PROVE  /\ \A s \in pass[w].rest :
                            ~sched'[s].present \/ sched'[s].next <= pass[w].began \/ Spare(s, 2)'
                        /\ pass[w].at = "claiming" =>
                            pass[w].copy <= pass[w].began \/ \A s \in pass[w].current : Spare(s, 2)'
        BY DEF CopiesSpare, OperatorMoves
    <2>1. \A s \in pass[w].rest :
            ~sched[s].present \/ sched[s].next <= pass[w].began \/ Spare(s, 2)
        BY DEF OccurrenceInv, CopiesSpare
    <2>2. pass[w].at = "claiming" =>
            pass[w].copy <= pass[w].began \/ \A s \in pass[w].current : Spare(s, 2)
        BY DEF OccurrenceInv, CopiesSpare
    <2>3. \A s \in pass[w].rest \cup pass[w].current : planned[s] > 0
        BY DEF OccurrenceInv, OneCurrent
    <2> QED
        BY <1>2, <1>4, <2>1, <2>2, <2>3
<1> QED
    BY <1>3, <1>5, <1>6 DEF OccurrenceInv

LEMMA OperatorsMove ==
    ASSUME PlanInv, OccurrenceInv,
           \/ TimePasses
           \/ \E s \in Schedules :
                \/ create_schedule(s)
                \/ \E op \in {"replan", "cadence", "enable", "disable", "delete"} : BeginEdit(s, op)
                \/ \E t \in 0..LastInstant : update_connector_schedule(s, t)
                \/ delete_connector_schedule(s)
    PROVE  OccurrenceInv'
<1>0. /\ sched \in [Schedules -> Schedule] /\ planned \in [Schedules -> Nat]
      /\ \A s \in Schedules : planned[s] \in Nat /\ (sched[s].present => planned[s] > 0)
    BY DEF PlanInv, ScheduleTypes, OccurrenceInv, OccurrencesSpare
<1>1. CASE UNCHANGED <<sched, planned, pass, jobs>>
    BY <1>0, <1>1, OperatorsKeepOccurrences DEF OperatorMoves
<1>2. ASSUME NEW s \in Schedules, create_schedule(s) PROVE OccurrenceInv'
    <2>1. /\ planned[s] = 0 /\ planned' = [planned EXCEPT ![s] = 1] /\ UNCHANGED <<pass, jobs>>
          /\ \A i \in Schedules \ {s} : sched'[i] = sched[i]
        BY <1>0, <1>2 DEF create_schedule
    <2>2. planned'[s] = 1 /\ \A i \in Schedules \ {s} : planned'[i] = planned[i]
        BY <1>0, <2>1
    <2> QED
        BY <1>0, <2>1, <2>2, OperatorsKeepOccurrences DEF OperatorMoves
<1>3. ASSUME NEW s \in Schedules, NEW t \in 0..LastInstant, update_connector_schedule(s, t)
      PROVE  OccurrenceInv'
    <2> DEFINE next == WrittenField(sched[s].next, edit.copy.next, EditedNext(s, t))
               on == WrittenField(sched[s].enabled, edit.copy.enabled, EditedEnabled)
    <2>1. /\ sched' = [sched EXCEPT ![s].enabled = on, ![s].next = next]
          /\ planned' = [planned EXCEPT ![s] =
                    IF sched'[s].next = sched[s].next THEN @ ELSE @ + 1]
          /\ UNCHANGED <<pass, jobs>>
        BY <1>3 DEF update_connector_schedule
    <2> HIDE DEF next, on
    <2>2. \A i \in Schedules \ {s} : sched'[i] = sched[i] /\ planned'[i] = planned[i]
        BY <1>0, <2>1
    <2>3. /\ sched'[s].present = sched[s].present
          /\ \/ sched'[s].next = sched[s].next /\ planned'[s] = planned[s]
             \/ planned'[s] = planned[s] + 1
        BY <1>0, <2>1 DEF Schedule
    <2> QED
        BY <1>0, <2>1, <2>2, <2>3, OperatorsKeepOccurrences DEF OperatorMoves
<1>4. ASSUME NEW s \in Schedules, delete_connector_schedule(s) PROVE OccurrenceInv'
    <2>1. /\ sched' = [sched EXCEPT ![s] = NoSchedule] /\ UNCHANGED <<planned, pass, jobs>>
          /\ NoSchedule.present = FALSE
        BY <1>4 DEF delete_connector_schedule, NoSchedule
    <2>2. ~sched'[s].present /\ \A i \in Schedules \ {s} : sched'[i] = sched[i]
        BY <1>0, <2>1
    <2> QED
        BY <1>0, <2>1, <2>2, OperatorsKeepOccurrences DEF OperatorMoves
<1> QED
    BY <1>1, <1>2, <1>3, <1>4 DEF TimePasses, BeginEdit

\* A worker's own step that uses up no occurrence.
LEMMA PassKeeps ==
    ASSUME PlanInv, OccurrenceInv, NEW w \in Workers, NEW row \in Pass,
           pass' = [pass EXCEPT ![w] = row], UNCHANGED <<sched, planned>>,
           \A s \in Schedules :
                IsFiniteSet(EnqueueingFor(s)') /\ Used(s)' \in Nat /\ Used(s)' <= Used(s),
           row.at \in {"idle", "continuing"} => row.current = {},
           \A s, t \in row.current : s = t,
           row.rest \cap row.current = {},
           \A s \in row.rest \cup row.current : planned[s] > 0,
           \A s \in row.rest : ~sched[s].present \/ sched[s].next <= row.began \/ Spare(s, 2),
           row.at = "claiming" => row.copy <= row.began \/ \A s \in row.current : Spare(s, 2)
    PROVE  OccurrenceInv'
<1>1. pass'[w] = row /\ \A v \in Workers \ {w} : pass'[v] = pass[v]
    BY DEF PlanInv, ScheduleTypes
<1>2. ASSUME NEW s \in Schedules
      PROVE  /\ Spare(s, 0) => Spare(s, 0)'
             /\ Spare(s, 1) => Spare(s, 1)'
             /\ Spare(s, 2) => Spare(s, 2)'
    <2>1. PICK used \in Nat, left \in Nat : used = Used(s) /\ left = Used(s)' /\ left <= used
        BY UsedIsNat DEF OccurrenceInv
    <2>2. planned[s] \in Nat /\ planned'[s] = planned[s]
        BY DEF PlanInv, ScheduleTypes
    <2> QED
        BY <2>1, <2>2 DEF Spare
<1>3. \A v \in Workers : pass[v].rest \subseteq Schedules /\ pass[v].current \subseteq Schedules
    BY DEF PlanInv, ScheduleTypes, Pass
<1>4. row.rest \subseteq Schedules /\ row.current \subseteq Schedules
    BY DEF Pass
<1>5. OccurrencesSpare'
    BY <1>2 DEF OccurrenceInv, OccurrencesSpare
<1>6. OneCurrent'
    BY <1>1 DEF OccurrenceInv, OneCurrent
<1>7. CopiesSpare'
    <2> SUFFICES ASSUME NEW v \in Workers
                 PROVE  /\ \A s \in pass'[v].rest :
                            ~sched[s].present \/ sched[s].next <= pass'[v].began \/ Spare(s, 2)'
                        /\ pass'[v].at = "claiming" =>
                            pass'[v].copy <= pass'[v].began
                                \/ \A s \in pass'[v].current : Spare(s, 2)'
        BY DEF CopiesSpare
    <2>1. CASE v = w
        BY <1>1, <1>2, <1>4, <2>1
    <2>2. CASE v # w
        <3>1. /\ \A s \in pass[v].rest :
                    ~sched[s].present \/ sched[s].next <= pass[v].began \/ Spare(s, 2)
              /\ pass[v].at = "claiming" =>
                    pass[v].copy <= pass[v].began \/ \A s \in pass[v].current : Spare(s, 2)
            BY DEF OccurrenceInv, CopiesSpare
        <3>2. pass'[v] = pass[v]
            BY <1>1, <2>2
        <3> QED
            BY <1>2, <1>3, <3>1, <3>2
    <2> QED
        BY <2>1, <2>2
<1> QED
    BY <1>5, <1>6, <1>7 DEF OccurrenceInv

\* A pass that is not about to enqueue holds no occurrence.
LEMMA NotEnqueueing ==
    ASSUME PlanInv, OccurrencesSpare, NEW w \in Workers, NEW row, row.at # "enqueueing",
           pass' = [pass EXCEPT ![w] = row], UNCHANGED jobs, NEW s \in Schedules
    PROVE  IsFiniteSet(EnqueueingFor(s)') /\ Used(s)' \in Nat /\ Used(s)' <= Used(s)
<1>1. EnqueueingFor(s)' \subseteq EnqueueingFor(s)
    BY DEF PlanInv, ScheduleTypes, EnqueueingFor
<1>2. IsFiniteSet(EnqueueingFor(s)) /\ jobs[s] \in Nat
    BY DEF PlanInv, ScheduleTypes, OccurrencesSpare
<1>3. PICK S, T : S = EnqueueingFor(s) /\ T = EnqueueingFor(s)'
    OBVIOUS
<1>4. /\ IsFiniteSet(T) /\ Cardinality(S) \in Nat /\ Cardinality(T) \in Nat
      /\ Cardinality(T) <= Cardinality(S)
    BY <1>1, <1>2, <1>3, FS_Subset, FS_CardinalityType
<1>5. Used(s) = jobs[s] + Cardinality(S) /\ Used(s)' = jobs[s] + Cardinality(T)
    BY <1>3 DEF Used
<1> QED
    BY <1>2, <1>3, <1>4, <1>5

LEMMA EndsKeepOccurrences ==
    ASSUME PlanInv, OccurrenceInv, NEW w \in Workers, pass' = [pass EXCEPT ![w] = IdlePass],
           UNCHANGED <<sched, planned, jobs>>
    PROVE  OccurrenceInv'
<1>1. /\ IdlePass \in Pass /\ IdlePass.at = "idle" /\ IdlePass.current = {} /\ IdlePass.rest = {}
    BY DEF IdlePass, Pass
<1>2. IdlePass.at # "enqueueing" /\ UNCHANGED jobs /\ OccurrencesSpare
    BY <1>1 DEF OccurrenceInv
<1>3. \A s \in Schedules :
            IsFiniteSet(EnqueueingFor(s)') /\ Used(s)' \in Nat /\ Used(s)' <= Used(s)
    BY <1>2, NotEnqueueing
<1>4. UNCHANGED <<sched, planned>>
    OBVIOUS
<1> QED
    BY <1>1, <1>3, <1>4, PassKeeps

LEMMA SelectKeepsOccurrences ==
    ASSUME PlanInv, OccurrenceInv, NEW w \in Workers, NEW s \in Schedules, SelectDue(w, s)
    PROVE  OccurrenceInv'
<1> DEFINE rest == {i \in Schedules : Due(i)} \ {s}
           row == [at |-> "claiming", rest |-> rest, current |-> {s}, copy |-> sched[s].next,
                   began |-> now, reloaded |-> FALSE]
<1>1. pass' = [pass EXCEPT ![w] = row] /\ Due(s) /\ UNCHANGED <<sched, jobs, planned>>
    BY DEF SelectDue
<1>2. row \in Pass
    BY ScheduleAssumption DEF Pass, PlanInv, ScheduleTypes, Schedule
<1>3. /\ row.at = "claiming" /\ row.current = {s} /\ row.copy = sched[s].next
      /\ row.rest = rest /\ row.began = now
    OBVIOUS
<1> HIDE DEF row
<1>4. \A i \in rest \cup {s} : i \in Schedules /\ sched[i].present /\ sched[i].next <= now
    BY <1>1 DEF Due
<1>5. \A i \in rest \cup {s} : planned[i] > 0
    BY <1>4 DEF OccurrenceInv, OccurrencesSpare
<1>6. s \notin rest
    OBVIOUS
<1> HIDE DEF rest
<1>7. row.at # "enqueueing" /\ OccurrencesSpare /\ UNCHANGED jobs /\ UNCHANGED <<sched, planned>>
    BY <1>1, <1>3 DEF OccurrenceInv
<1>8. \A i \in Schedules :
            IsFiniteSet(EnqueueingFor(i)') /\ Used(i)' \in Nat /\ Used(i)' <= Used(i)
    BY <1>1, <1>7, NotEnqueueing
<1>9. /\ row.at \notin {"idle", "continuing"} /\ (\A i, j \in row.current : i = j)
      /\ row.rest \cap row.current = {}
      /\ \A i \in row.rest \cup row.current : planned[i] > 0
      /\ \A i \in row.rest : sched[i].next <= row.began
      /\ row.copy <= row.began
    BY <1>3, <1>4, <1>5, <1>6
<1> QED
    BY <1>1, <1>2, <1>7, <1>8, <1>9, PassKeeps

LEMMA ReloadKeepsOccurrences ==
    ASSUME PlanInv, OccurrenceInv, NEW w \in Workers, NEW s \in Schedules, ReloadNext(w, s)
    PROVE  OccurrenceInv'
<1>0. /\ pass[w].at = "continuing" /\ pass[w] \in Pass /\ s \in pass[w].rest
      /\ UNCHANGED <<sched, jobs, planned>> /\ sched[s] \in Schedule
    BY DEF ReloadNext, PlanInv, ScheduleTypes
<1> DEFINE row == [pass[w] EXCEPT !.at = "claiming", !.rest = @ \ {s}, !.current = {s},
                                  !.copy = sched[s].next, !.reloaded = TRUE]
<1>1. pass' = [pass EXCEPT ![w] = IF sched[s].present THEN row ELSE IdlePass]
    BY DEF ReloadNext
<1>2. CASE ~sched[s].present
    BY <1>0, <1>1, <1>2, EndsKeepOccurrences
<1>3. CASE sched[s].present
    <2>1. /\ row.at = "claiming" /\ row.current = {s} /\ row.copy = sched[s].next
          /\ row.began = pass[w].began /\ row.rest = pass[w].rest \ {s}
        BY <1>0 DEF Pass
    <2>2. row \in Pass /\ pass' = [pass EXCEPT ![w] = row]
        BY <1>0, <1>1, <1>3 DEF Pass, Schedule
    <2> HIDE DEF row
    <2>3. row.at # "enqueueing" /\ OccurrencesSpare /\ UNCHANGED jobs /\ UNCHANGED <<sched, planned>>
        BY <1>0, <2>1 DEF OccurrenceInv
    <2>4. \A i \in Schedules :
                IsFiniteSet(EnqueueingFor(i)') /\ Used(i)' \in Nat /\ Used(i)' <= Used(i)
        BY <2>2, <2>3, NotEnqueueing
    <2>5. \A i \in pass[w].rest :
            ~sched[i].present \/ sched[i].next <= pass[w].began \/ Spare(i, 2)
        BY DEF OccurrenceInv, CopiesSpare
    <2>6. \A i \in pass[w].rest : planned[i] > 0
        BY DEF OccurrenceInv, OneCurrent
    <2>7. /\ row.at \notin {"idle", "continuing"} /\ (\A i, j \in row.current : i = j)
          /\ row.rest \cap row.current = {}
          /\ \A i \in row.rest \cup row.current : planned[i] > 0
        BY <1>0, <2>1, <2>6
    <2>8. /\ \A i \in row.rest : ~sched[i].present \/ sched[i].next <= row.began \/ Spare(i, 2)
          /\ row.copy <= row.began \/ \A i \in row.current : Spare(i, 2)
        BY <1>0, <1>3, <2>1, <2>5
    <2> QED
        BY <2>2, <2>3, <2>4, <2>7, <2>8, PassKeeps
<1> QED
    BY <1>2, <1>3

\* A pass that is done with its schedule, and goes on to the next one.
LEMMA ContinuingKeepsOccurrences ==
    ASSUME PlanInv, OccurrenceInv, NEW w \in Workers,
           pass' = [pass EXCEPT ![w].at = "continuing", ![w].current = {}],
           UNCHANGED <<sched, planned>>,
           \A s \in Schedules :
                IsFiniteSet(EnqueueingFor(s)') /\ Used(s)' \in Nat /\ Used(s)' <= Used(s)
    PROVE  OccurrenceInv'
<1> DEFINE row == [pass[w] EXCEPT !.at = "continuing", !.current = {}]
<1>1. pass[w] \in Pass /\ pass' = [pass EXCEPT ![w] = row]
    BY DEF PlanInv, ScheduleTypes
<1>2. /\ row \in Pass /\ row.at = "continuing" /\ row.current = {} /\ row.rest = pass[w].rest
      /\ row.began = pass[w].began
    BY <1>1 DEF Pass
<1> HIDE DEF row
<1>3. \A s \in pass[w].rest : /\ planned[s] > 0
                              /\ ~sched[s].present \/ sched[s].next <= pass[w].began \/ Spare(s, 2)
    BY DEF OccurrenceInv, OneCurrent, CopiesSpare
<1>4. /\ row.at # "claiming" /\ (\A s, t \in row.current : s = t) /\ row.rest \cap row.current = {}
      /\ \A s \in row.rest \cup row.current : planned[s] > 0
      /\ \A s \in row.rest : ~sched[s].present \/ sched[s].next <= row.began \/ Spare(s, 2)
    BY <1>2, <1>3
<1> QED
    BY <1>1, <1>2, <1>4, PassKeeps

\* The occurrence that the claim took is the job's.
LEMMA EnqueueKeepsOccurrences ==
    ASSUME PlanInv, OccurrenceInv, NEW w \in Workers, NEW s \in Schedules, EnqueueDue(w, s)
    PROVE  OccurrenceInv'
<1>0. /\ pass[w].at = "enqueueing" /\ s \in pass[w].current /\ UNCHANGED <<sched, planned>>
      /\ jobs \in [Schedules -> Nat] /\ pass \in [Workers -> Pass] /\ pass[w] \in Pass
    BY DEF EnqueueDue, PlanInv, ScheduleTypes
<1>1. CASE pass' = [pass EXCEPT ![w] = IdlePass] /\ UNCHANGED jobs
    BY <1>0, <1>1, EndsKeepOccurrences
<1>2. CASE /\ jobs' = [jobs EXCEPT ![s] = @ + 1]
           /\ pass' = [pass EXCEPT ![w].at = "continuing", ![w].current = {}]
    <2>1. ASSUME NEW i \in Schedules
          PROVE  IsFiniteSet(EnqueueingFor(i)') /\ Used(i)' \in Nat /\ Used(i)' <= Used(i)
        <3>1. PICK S, T : S = EnqueueingFor(i) /\ T = EnqueueingFor(i)'
            OBVIOUS
        <3>2. pass'[w].at = "continuing" /\ \A v \in Workers \ {w} : pass'[v] = pass[v]
            BY <1>0, <1>2 DEF Pass
        <3>3. T = S \ {w}
            BY <1>0, <3>1, <3>2 DEF EnqueueingFor
        <3>4. IsFiniteSet(S) /\ Cardinality(S) \in Nat
            BY <3>1, FS_CardinalityType DEF OccurrenceInv, OccurrencesSpare
        <3>5. /\ IsFiniteSet(T) /\ Cardinality(T) \in Nat /\ Cardinality(T) <= Cardinality(S)
              /\ w \in S => Cardinality(T) = Cardinality(S) - 1
            BY <3>3, <3>4, FS_RemoveElement, FS_Subset, FS_CardinalityType
        <3>6. Used(i) = jobs[i] + Cardinality(S) /\ Used(i)' = jobs'[i] + Cardinality(T)
            BY <3>1 DEF Used
        <3>7. CASE i = s
            <4>1. w \in S /\ jobs'[i] = jobs[i] + 1 /\ jobs[i] \in Nat
                BY <1>0, <1>2, <3>1, <3>7 DEF EnqueueingFor
            <4> QED
                BY <3>1, <3>4, <3>5, <3>6, <4>1
        <3>8. CASE i # s
            <4>1. jobs'[i] = jobs[i] /\ jobs[i] \in Nat
                BY <1>0, <1>2, <3>8
            <4> QED
                BY <3>1, <3>4, <3>5, <3>6, <4>1
        <3> QED
            BY <3>7, <3>8
    <2> QED
        BY <1>0, <1>2, <2>1, ContinuingKeepsOccurrences
<1> QED
    BY <1>1, <1>2 DEF EnqueueDue

\* The claim takes an occurrence and plans the next one: the run that follows a due
\* occurrence is another instant.
LEMMA ClaimKeepsOccurrences ==
    ASSUME PlanInv, OccurrenceInv, BatchesAlone,
           NEW w \in Workers, NEW s \in Schedules, ClaimSchedule(w, s)
    PROVE  OccurrenceInv'
<1>0. /\ pass[w].at = "claiming" /\ s \in pass[w].current /\ pass[w] \in Pass /\ jobs' = jobs
      /\ pass \in [Workers -> Pass] /\ sched \in [Schedules -> Schedule]
      /\ planned \in [Schedules -> Nat]
    BY DEF ClaimSchedule, PlanInv, ScheduleTypes
<1>1. CASE pass' = [pass EXCEPT ![w] = IdlePass] /\ UNCHANGED <<sched, planned>>
    BY <1>0, <1>1, EndsKeepOccurrences
<1>2. CASE pass' = [pass EXCEPT ![w].at = "continuing", ![w].current = {}]
           /\ UNCHANGED <<sched, planned>>
    <2> DEFINE row == [pass[w] EXCEPT !.at = "continuing", !.current = {}]
    <2>1. pass' = [pass EXCEPT ![w] = row] /\ row.at = "continuing"
        BY <1>0, <1>2 DEF Pass
    <2> HIDE DEF row
    <2>2. row.at # "enqueueing" /\ UNCHANGED jobs /\ OccurrencesSpare
        BY <1>0, <2>1 DEF OccurrenceInv
    <2>3. \A i \in Schedules :
                IsFiniteSet(EnqueueingFor(i)') /\ Used(i)' \in Nat /\ Used(i)' <= Used(i)
        BY <2>1, <2>2, NotEnqueueing
    <2> QED
        BY <1>2, <2>3, ContinuingKeepsOccurrences
<1>3. CASE /\ next_schedule_run(s, pass[w].copy, pass[w].began) # {} /\ ClaimMatches(w, s)
           /\ sched' = [sched EXCEPT ![s].next =
                            Min(next_schedule_run(s, pass[w].copy, pass[w].began))]
           /\ planned' = [planned EXCEPT ![s] =
                            IF sched'[s].next = sched[s].next THEN @ ELSE @ + 1]
           /\ pass' = [pass EXCEPT ![w].at = "enqueueing"]
    <2>1. PICK run : run = Min(next_schedule_run(s, pass[w].copy, pass[w].began))
        OBVIOUS
    <2>2. PICK copy \in Nat, began \in Nat : copy = pass[w].copy /\ began = pass[w].began
        BY <1>0 DEF Pass
    <2>3. run \in Nat /\ run > began
        BY <1>3, <2>1, <2>2, NextRunIsPlanned
    <2>4. /\ sched'[s].next = run /\ sched'[s].present /\ sched[s].present /\ sched[s].next = copy
          /\ \A i \in Schedules \ {s} : sched'[i] = sched[i] /\ planned'[i] = planned[i]
        BY <1>0, <1>3, <2>1, <2>2 DEF ClaimMatches, Schedule
    <2>5. PICK p \in Nat : p = planned[s] /\ p > 0
        BY <1>0 DEF OccurrenceInv, OneCurrent
    <2>6. planned'[s] = IF run = copy THEN p ELSE p + 1
        BY <1>0, <1>3, <2>4, <2>5
    <2>7. /\ pass'[w].at = "enqueueing" /\ pass'[w].current = pass[w].current
          /\ pass'[w].rest = pass[w].rest /\ pass'[w].began = began
          /\ \A v \in Workers \ {w} : pass'[v] = pass[v]
        BY <1>0, <1>3, <2>2 DEF Pass
    <2>8. ASSUME NEW i \in Schedules \ {s}
          PROVE  EnqueueingFor(i)' = EnqueueingFor(i) /\ Used(i)' = Used(i)
        <3>1. i \notin pass[w].current
            BY <1>0 DEF OccurrenceInv, OneCurrent
        <3>2. EnqueueingFor(i)' = EnqueueingFor(i)
            BY <2>7, <3>1 DEF EnqueueingFor
        <3> QED
            BY <1>0, <3>2 DEF Used
    <2>9. /\ IsFiniteSet(EnqueueingFor(s)')
           /\ Used(s)' = Used(s) + 1 /\ Used(s) \in Nat
        <3>1. PICK S, T : S = EnqueueingFor(s) /\ T = EnqueueingFor(s)'
            OBVIOUS
        <3>2. T = S \cup {w} /\ w \notin S
            BY <1>0, <2>7, <3>1 DEF EnqueueingFor
        <3>3. IsFiniteSet(S) /\ Cardinality(S) \in Nat
            BY <3>1, FS_CardinalityType DEF OccurrenceInv, OccurrencesSpare
        <3>4. IsFiniteSet(T) /\ Cardinality(T) = Cardinality(S) + 1
            BY <3>2, <3>3, FS_AddElement
        <3>5. Used(s) = jobs[s] + Cardinality(S) /\ Used(s)' = jobs[s] + Cardinality(T)
            BY <1>0, <3>1 DEF Used
        <3>6. jobs[s] \in Nat
            BY DEF PlanInv, ScheduleTypes
        <3> QED
            BY <3>1, <3>3, <3>4, <3>5, <3>6
    <2>10. Spare(s, 0)' /\ Spare(s, 1)'
        <3>1. PICK used \in Nat : used = Used(s) /\ Used(s)' = used + 1
            BY <2>9
        <3>2. used + 1 <= p /\ (copy <= began \/ used + 2 <= p)
            BY <1>0, <2>2, <2>5, <3>1
               DEF OccurrenceInv, OccurrencesSpare, CopiesSpare, Spare
        <3>3. used + 2 <= planned'[s]
            BY <2>3, <2>6, <3>2
        <3>4. planned'[s] \in Nat
            BY <2>6
        <3> QED
            BY <3>1, <3>3, <3>4 DEF Spare
    <2>11. OccurrencesSpare'
        <3> SUFFICES ASSUME NEW i \in Schedules
                     PROVE  /\ IsFiniteSet(EnqueueingFor(i)') /\ Spare(i, 0)'
                            /\ (planned[i] > 0 => Spare(i, 1))'
                            /\ (sched[i].present => planned[i] > 0)'
            BY DEF OccurrencesSpare
        <3>1. CASE i = s
            BY <2>5, <2>6, <2>9, <2>10, <3>1
        <3>2. CASE i # s
            <4>1. /\ IsFiniteSet(EnqueueingFor(i)) /\ Spare(i, 0)
                  /\ planned[i] > 0 => Spare(i, 1)
                  /\ sched[i].present => planned[i] > 0
                BY DEF OccurrenceInv, OccurrencesSpare
            <4> QED
                BY <2>4, <2>8, <3>2, <4>1 DEF Spare
        <3> QED
            BY <3>1, <3>2
    <2>12. OneCurrent'
        <3>1. \A i \in Schedules : planned[i] > 0 => planned'[i] > 0
            BY <2>4, <2>5, <2>6
        <3>2. \A v \in Workers : pass[v].rest \subseteq Schedules /\ pass[v].current \subseteq Schedules
            BY <1>0 DEF Pass
        <3>3. ASSUME NEW v \in Workers
              PROVE  /\ pass'[v].at \in {"idle", "continuing"} => pass'[v].current = {}
                     /\ pass'[v].current = pass[v].current /\ pass'[v].rest = pass[v].rest
            BY <2>7 DEF OccurrenceInv, OneCurrent
        <3> QED
            BY <3>1, <3>2, <3>3 DEF OccurrenceInv, OneCurrent
    <2>13. CopiesSpare'
        <3> SUFFICES ASSUME NEW v \in Workers
                     PROVE  /\ \A i \in pass'[v].rest :
                                ~sched'[i].present \/ sched'[i].next <= pass'[v].began \/ Spare(i, 2)'
                            /\ pass'[v].at = "claiming" =>
                                pass'[v].copy <= pass'[v].began
                                    \/ \A i \in pass'[v].current : Spare(i, 2)'
            BY DEF CopiesSpare
        <3>1. CASE v = w
            <4>1. \A i \in pass[w].rest :
                    ~sched[i].present \/ sched[i].next <= pass[w].began \/ Spare(i, 2)
                BY DEF OccurrenceInv, CopiesSpare
            <4>2. pass[w].rest \subseteq Schedules \ {s}
                BY <1>0 DEF OccurrenceInv, OneCurrent, Pass
            <4>3. \A i \in Schedules \ {s} : Spare(i, 2) => Spare(i, 2)'
                BY <2>4, <2>8 DEF Spare
            <4> QED
                BY <2>2, <2>4, <2>7, <3>1, <4>1, <4>2, <4>3
        <3>2. CASE v # w /\ pass[v].at = "idle"
            BY <2>7, <3>2 DEF PlanInv, PassKnown, IdlePass
        <3>3. CASE v # w /\ pass[v].at # "idle"
            <4>1. pass[v].rest = {} /\ ~pass[v].reloaded
                BY <1>0, <3>3 DEF BatchesAlone, Batch
            <4>2. pass[v].copy <= pass[v].began
                BY <3>3, <4>1 DEF PlanInv, PassKnown
            <4> QED
                BY <2>7, <3>3, <4>1, <4>2
        <3> QED
            BY <3>1, <3>2, <3>3
    <2> QED
        BY <2>11, <2>12, <2>13 DEF OccurrenceInv
<1> QED
    BY <1>1, <1>2, <1>3 DEF ClaimSchedule

LEMMA OccurrenceStep ==
    PlanInv /\ BatchesAlone /\ OccurrenceInv /\ [SchedulesNext]_schedulevars => OccurrenceInv'
<1> SUFFICES ASSUME PlanInv, BatchesAlone, OccurrenceInv, [SchedulesNext]_schedulevars
             PROVE  OccurrenceInv'
    OBVIOUS
<1>1. CASE \/ TimePasses
           \/ \E s \in Schedules :
                \/ create_schedule(s)
                \/ \E op \in {"replan", "cadence", "enable", "disable", "delete"} : BeginEdit(s, op)
                \/ \E t \in 0..LastInstant : update_connector_schedule(s, t)
                \/ delete_connector_schedule(s)
    BY <1>1, OperatorsMove
<1>2. ASSUME NEW w \in Workers, NEW s \in Schedules,
             \/ SelectDue(w, s) \/ ClaimSchedule(w, s) \/ EnqueueDue(w, s) \/ ReloadNext(w, s)
      PROVE  OccurrenceInv'
    BY <1>2, SelectKeepsOccurrences, ClaimKeepsOccurrences, EnqueueKeepsOccurrences,
       ReloadKeepsOccurrences
<1>3. ASSUME NEW w \in Workers, EndPass(w) PROVE OccurrenceInv'
    BY <1>3, EndsKeepOccurrences DEF EndPass
<1>4. CASE UNCHANGED schedulevars
    BY <1>4 DEF schedulevars, OccurrenceInv, OneCurrent, OccurrencesSpare, CopiesSpare, Spare, Used,
                EnqueueingFor
<1> QED
    BY <1>1, <1>2, <1>3, <1>4 DEF SchedulesNext

LEMMA OccurrencesAreSpare ==
    ASSUME PlanInv, OccurrenceInv PROVE OneJobPerOccurrence
<1> SUFFICES ASSUME NEW s \in Schedules, jobs[s] > 0 PROVE jobs[s] < planned[s]
    BY DEF OneJobPerOccurrence
<1>1. PICK j \in Nat, c \in Nat, p \in Nat :
        /\ j = jobs[s] /\ c = Cardinality(EnqueueingFor(s)) /\ p = planned[s]
        /\ j + c + 0 <= p /\ (p > 0 => j + c + 1 <= p)
    BY UsedIsNat DEF OccurrenceInv, OccurrencesSpare, Spare, Used
<1> QED
    BY <1>1

\* As long as a pass over several schedules runs while no other worker has a pass,
\* every occurrence is given at most one job, and the next one is still to come: the
\* compare-and-update of next_run_at keeps two workers from enqueueing it twice
\* (enqueue_due_schedules).
THEOREM OccurrencesUsedOnce ==
    SchedulesSpec /\ []BatchesAlone => []OneJobPerOccurrence
<1>1. SchedulesInit => OccurrenceInv
    BY OccurrencesBegin
<1>2. PlanInv /\ OccurrenceInv => OneJobPerOccurrence
    BY OccurrencesAreSpare
<1> QED
    BY <1>1, <1>2, OccurrenceStep, PlanInvariant, PTL DEF SchedulesSpec

\* Without a second schedule there is nothing to reload.
SingleInv == \A w \in Workers : ~Batch(w)

LEMMA SinglesBegin ==
    ASSUME \A s, t \in Schedules : s = t, SchedulesInit PROVE SingleInv
BY DEF SchedulesInit, SingleInv, Batch, IdlePass

LEMMA SingleWritten ==
    ASSUME PlanInv, SingleInv, NEW w \in Workers, NEW row, pass' = [pass EXCEPT ![w] = row],
           row.rest = {}, ~row.reloaded
    PROVE  SingleInv'
<1>1. pass'[w] = row /\ \A v \in Workers \ {w} : pass'[v] = pass[v]
    BY DEF PlanInv, ScheduleTypes
<1> QED
    BY <1>1 DEF SingleInv, Batch

LEMMA SingleStep ==
    ASSUME \A s, t \in Schedules : s = t
    PROVE  PlanInv /\ SingleInv /\ [SchedulesNext]_schedulevars => SingleInv'
<1> SUFFICES ASSUME PlanInv, SingleInv, [SchedulesNext]_schedulevars PROVE SingleInv'
    OBVIOUS
<1>0. IdlePass.rest = {} /\ ~IdlePass.reloaded /\ pass \in [Workers -> Pass]
    BY DEF IdlePass, PlanInv, ScheduleTypes
<1>1. CASE pass' = pass
    BY <1>1 DEF SingleInv, Batch
<1>2. ASSUME NEW w \in Workers, pass' = [pass EXCEPT ![w] = IdlePass] PROVE SingleInv'
    BY <1>0, <1>2, SingleWritten
<1>3. ASSUME NEW w \in Workers, NEW at, NEW current,
             pass' = [pass EXCEPT ![w].at = at, ![w].current = current]
      PROVE  SingleInv'
    <2> DEFINE row == [pass[w] EXCEPT !.at = at, !.current = current]
    <2>1. /\ pass' = [pass EXCEPT ![w] = row]
          /\ row.rest = pass[w].rest
        BY <1>0, <1>3 DEF Pass
    <2>2. row.reloaded = pass[w].reloaded
        BY <1>0 DEF Pass
    <2> HIDE DEF row
    <2>3. row.rest = {} /\ ~row.reloaded
        BY <2>1, <2>2 DEF SingleInv, Batch
    <2> QED
        BY <2>1, <2>3, SingleWritten
<1>4. ASSUME NEW w \in Workers, NEW s \in Schedules, SelectDue(w, s) PROVE SingleInv'
    <2> DEFINE row == [at |-> "claiming", rest |-> {i \in Schedules : Due(i)} \ {s},
                       current |-> {s}, copy |-> sched[s].next, began |-> now,
                       reloaded |-> FALSE]
    <2>1. pass' = [pass EXCEPT ![w] = row]
        BY <1>4 DEF SelectDue
    <2>2. row.rest = {} /\ ~row.reloaded
        OBVIOUS
    <2> HIDE DEF row
    <2> QED
        BY <2>1, <2>2, SingleWritten
<1>5. ASSUME NEW w \in Workers, NEW s \in Schedules, ClaimSchedule(w, s) PROVE SingleInv'
    <2>1. CASE pass' = [pass EXCEPT ![w].at = "enqueueing"]
        <3>1. pass' = [pass EXCEPT ![w].at = "enqueueing", ![w].current = pass[w].current]
            BY <1>0, <2>1 DEF Pass
        <3> QED
            BY <1>3, <3>1
    <2>2. CASE pass' = [pass EXCEPT ![w].at = "continuing", ![w].current = {}]
        BY <1>3, <2>2
    <2> QED
        BY <1>2, <1>5, <2>1, <2>2 DEF ClaimSchedule
<1>6. ASSUME NEW w \in Workers, NEW s \in Schedules, EnqueueDue(w, s) PROVE SingleInv'
    BY <1>2, <1>3, <1>6 DEF EnqueueDue
<1>7. ASSUME NEW w \in Workers, NEW s \in Schedules, ReloadNext(w, s) PROVE SingleInv'
    BY <1>7 DEF ReloadNext, SingleInv, Batch
<1> QED
    BY <1>1, <1>2, <1>4, <1>5, <1>6, <1>7
       DEF SchedulesNext, TimePasses, create_schedule, BeginEdit, update_connector_schedule,
           delete_connector_schedule, EndPass, schedulevars

\* With one schedule, however many workers, or with one worker, however many schedules,
\* no occurrence is ever given two jobs (enqueue_due_schedules).  With two of both it
\* can be: the pass that reloads a schedule claims what another one has planned.
THEOREM SinglesUsedOnce ==
    ASSUME (\A s, t \in Schedules : s = t) \/ (\A w, v \in Workers : w = v)
    PROVE  SchedulesSpec => []OneJobPerOccurrence
<1>1. CASE \A w, v \in Workers : w = v
    <2>1. BatchesAlone
        BY <1>1 DEF BatchesAlone
    <2>2. SchedulesInit => OccurrenceInv
        BY OccurrencesBegin
    <2>3. PlanInv /\ OccurrenceInv /\ [SchedulesNext]_schedulevars => OccurrenceInv'
        BY <1>1, OccurrenceStep DEF BatchesAlone
    <2>4. PlanInv /\ OccurrenceInv => OneJobPerOccurrence
        BY OccurrencesAreSpare
    <2> QED
        BY <2>2, <2>3, <2>4, PlanInvariant, PTL DEF SchedulesSpec
<1>2. CASE \A s, t \in Schedules : s = t
    <2>1. SchedulesInit => SingleInv
        BY <1>2, SinglesBegin
    <2>2. PlanInv /\ SingleInv /\ [SchedulesNext]_schedulevars => SingleInv'
        BY <1>2, SingleStep
    <2>3. SingleInv => BatchesAlone
        BY DEF SingleInv, BatchesAlone
    <2> QED
        BY <2>1, <2>2, <2>3, PlanInvariant, OccurrencesUsedOnce, PTL DEF SchedulesSpec
<1> QED
    BY <1>1, <1>2
=============================================================================
