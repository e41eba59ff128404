---------------------- MODULE IntegrationDeliveryProofs ----------------------
(***************************************************************************)
(* The job queue of app/services/jobs.py and app/worker.py, and the        *)
(* deliveries of app/services/integrations.py on top of it, for any number *)
(* of workers, clients, jobs and deliveries: types, claims and exclusive   *)
(* execution; the commits of jobs.py implement JobQueue; what a job and    *)
(* its delivery tell of each other.                                        *)
(***************************************************************************)
EXTENDS IntegrationDelivery, FiniteSetTheorems, TLAPS

-----------------------------------------------------------------------------
(***************************************************************************)
(* Rows and what the commits write.                                        *)
(***************************************************************************)

\* The absent row and the idle request are well typed.
LEMMA IdleTypes == AbsentRow \in Row /\ IdleRequest \in Requests
BY DEF AbsentRow, Row, IdleRequest, Requests, Statuses, Claims

\* A flushed column holds its current or the assigned value.
LEMMA WrittenValue ==
    ASSUME NEW current, NEW loaded, NEW assigned
    PROVE  Written(current, loaded, assigned) \in {current, assigned}
BY DEF Written

\* The fields of a row.
LEMMA RowFields ==
    ASSUME NEW row \in Row
    PROVE  /\ row.status \in Statuses
           /\ row.attempts \in Nat
           /\ row.cancel \in BOOLEAN
           /\ row.due \in BOOLEAN
           /\ row.claim \in Claims
BY DEF Row

\* enqueue_job writes a pending row that has used no attempt.
LEMMA EnqueuedFacts ==
    LET r == [AbsentRow EXCEPT !.status = "pending", !.due = TRUE]
    IN  r \in Row /\ r.attempts = 0 /\ r.status = "pending"
BY DEF AbsentRow, Row, Statuses, Claims

\* The effect of recover_stale_jobs on one row.
LEMMA RecoveredFacts ==
    ASSUME NEW row \in Row
    PROVE  /\ Recovered(row) \in Row
           /\ Recovered(row).attempts = row.attempts
           /\ Recovered(row).status = "pending" =>
                  \/ row.status = "pending"
                  \/ row.status = "running" /\ row.attempts < MaxAttempts
           /\ ~(row.status = "running" /\ row.claim = "stale") => Recovered(row) = row
<1>1. /\ row.status \in Statuses /\ row.attempts \in Nat /\ row.cancel \in BOOLEAN
      /\ row.due \in BOOLEAN /\ row.claim \in Claims
    BY RowFields
<1>2. CASE ~(row.status = "running" /\ row.claim = "stale")
    BY <1>2 DEF Recovered
<1>3. CASE row.status = "running" /\ row.claim = "stale" /\ row.attempts >= MaxAttempts
    <2>1. Recovered(row) = [row EXCEPT !.status = "failed"]
        BY <1>3 DEF Recovered
    <2> QED
        BY <1>3, <2>1 DEF Row, Statuses
<1>4. CASE row.status = "running" /\ row.claim = "stale" /\ ~(row.attempts >= MaxAttempts)
    <2>1. Recovered(row) = [row EXCEPT !.status = "pending", !.claim = "none", !.due = TRUE]
        BY <1>4 DEF Recovered
    <2>2. row.attempts < MaxAttempts
        BY <1>1, <1>4, BoundsAssumption
    <2>3. Recovered(row) \in Row
        BY <2>1, Zenon DEF Row, Statuses, Claims
    <2>4. Recovered(row).attempts = row.attempts
        BY <2>1 DEF Row
    <2> QED
        BY <1>4, <2>2, <2>3, <2>4
<1> QED
    BY <1>2, <1>3, <1>4

\* The effect of the successful claim.
LEMMA ClaimedFacts ==
    ASSUME NEW row \in Row
    PROVE  /\ ClaimedRow(row) \in Row
           /\ ClaimedRow(row).status = "running"
           /\ ClaimedRow(row).claim = "live"
           /\ ClaimedRow(row).attempts = row.attempts + 1
<1>1. row.attempts + 1 \in Nat
    BY DEF Row
<1>2. ClaimedRow(row) \in Row
    BY <1>1, Zenon DEF ClaimedRow, Row, Statuses, Claims
<1> QED
    BY <1>2 DEF ClaimedRow, Row

\* The two commits of execute_job that end a job without a failure.
LEMMA EndedFacts ==
    ASSUME NEW row \in Row, NEW loaded \in Row
    PROVE  /\ CancelledRow(row, loaded) \in Row
           /\ CancelledRow(row, loaded).attempts = row.attempts
           /\ CancelledRow(row, loaded).status \in {row.status, "cancelled"}
           /\ FinishedRow(row, loaded) \in Row
           /\ FinishedRow(row, loaded).attempts = row.attempts
           /\ FinishedRow(row, loaded).status \in {row.status, "cancelled", "completed"}
<1>1. \A s \in Statuses : /\ [row EXCEPT !.status = s] \in Row
                          /\ [row EXCEPT !.status = s].attempts = row.attempts
                          /\ [row EXCEPT !.status = s].status = s
    BY DEF Row
<1>2. row.status \in Statuses /\ {"cancelled", "completed"} \subseteq Statuses
    BY RowFields DEF Statuses
<1>3. PICK s \in {row.status, "cancelled"} : CancelledRow(row, loaded) = [row EXCEPT !.status = s]
    BY WrittenValue DEF CancelledRow
<1>4. PICK t \in {row.status, "cancelled", "completed"} :
            FinishedRow(row, loaded) = [row EXCEPT !.status = t]
    <2> DEFINE a == IF loaded.cancel THEN "cancelled" ELSE "completed"
    <2>1. Written(row.status, loaded.status, a) \in {row.status, a}
        BY WrittenValue
    <2>2. FinishedRow(row, loaded) = [row EXCEPT !.status = Written(row.status, loaded.status, a)]
        BY DEF FinishedRow
    <2>3. a \in {"cancelled", "completed"}
        OBVIOUS
    <2> QED
        BY <2>1, <2>2, <2>3
<1> QED
    BY <1>1, <1>2, <1>3, <1>4

\* The commit of execute_job's except branch: a job goes back to pending only
\* if the copy counted fewer than max_attempts.
LEMMA FailedFacts ==
    ASSUME NEW row \in Row, NEW loaded \in Row
    PROVE  /\ FailedRow(row, loaded) \in Row
           /\ FailedRow(row, loaded).attempts = row.attempts
           /\ FailedRow(row, loaded).status = "pending" =>
                  row.status = "pending" \/ loaded.attempts < MaxAttempts
<1>0. row.status \in Statuses /\ row.claim \in Claims /\ loaded.attempts \in Nat
    BY RowFields
<1>1. CASE FinalFailure(loaded)
    <2> DEFINE a == IF loaded.cancel THEN "cancelled" ELSE "failed"
               s == Written(row.status, loaded.status, a)
    <2>1. FailedRow(row, loaded) = [row EXCEPT !.status = s]
        BY <1>1 DEF FailedRow
    <2>2. s \in {row.status, "cancelled", "failed"}
        BY WrittenValue
    <2>3. s \in Statuses
        BY <1>0, <2>2 DEF Statuses
    <2> HIDE DEF s
    <2> QED
        BY <2>1, <2>2, <2>3 DEF Row
<1>2. CASE ~FinalFailure(loaded)
    <2> DEFINE s == Written(row.status, loaded.status, "pending")
               k == Written(row.claim, loaded.claim, "none")
    <2>1. FailedRow(row, loaded) = [row EXCEPT !.status = s, !.due = FALSE, !.claim = k]
        BY <1>2 DEF FailedRow
    <2>2. s \in Statuses /\ k \in Claims
        BY <1>0, WrittenValue DEF Statuses, Claims
    <2>3. loaded.attempts < MaxAttempts
        BY <1>0, <1>2, BoundsAssumption DEF FinalFailure
    <2> HIDE DEF s, k
    <2>4. FailedRow(row, loaded) \in Row
        BY <2>1, <2>2, Zenon DEF Row
    <2>5. FailedRow(row, loaded).attempts = row.attempts
        BY <2>1 DEF Row
    <2> QED
        BY <2>3, <2>4, <2>5
<1> QED
    BY <1>1, <1>2

\* cancel_job never makes a row pending and keeps its claim and attempts.
LEMMA CancelFacts ==
    ASSUME NEW row \in Row, NEW loaded \in Row
    PROVE  /\ cancel_job(row, loaded) \in Row
           /\ cancel_job(row, loaded).attempts = row.attempts
           /\ cancel_job(row, loaded).claim = row.claim
           /\ cancel_job(row, loaded).status \in {row.status, "cancelled"}
           /\ loaded.status # "pending" => cancel_job(row, loaded).status = row.status
<1> DEFINE f == Written(row.cancel, loaded.cancel, TRUE)
           s == IF loaded.status = "pending"
                THEN Written(row.status, loaded.status, "cancelled") ELSE row.status
<1>1. cancel_job(row, loaded) = [row EXCEPT !.cancel = f, !.status = s]
    BY DEF cancel_job
<1>2. row.status \in Statuses /\ row.cancel \in BOOLEAN
    BY RowFields
<1>3. f \in BOOLEAN
    BY <1>2, WrittenValue, Zenon
<1>4. s \in {row.status, "cancelled"} /\ (loaded.status # "pending" => s = row.status)
    BY WrittenValue
<1>5. s \in Statuses
    BY <1>2, <1>4 DEF Statuses
<1> HIDE DEF f, s
<1>6. cancel_job(row, loaded) \in Row
    BY <1>1, <1>3, <1>5, Zenon DEF Row
<1>7. /\ cancel_job(row, loaded).attempts = row.attempts
      /\ cancel_job(row, loaded).claim = row.claim
      /\ cancel_job(row, loaded).status = s
    BY <1>1 DEF Row
<1> QED
    BY <1>4, <1>6, <1>7

\* retry_job of an up-to-date copy starts the attempts again.
LEMMA RetryFacts ==
    ASSUME NEW row \in Row, NEW loaded \in Row
    PROVE  /\ retry_job(row, loaded) \in Row
           /\ loaded = row => retry_job(row, loaded).attempts = 0
<1> DEFINE s == Written(row.status, loaded.status, "pending")
           f == Written(row.cancel, loaded.cancel, FALSE)
           k == Written(row.claim, loaded.claim, "none")
           n == Written(row.attempts, loaded.attempts, 0)
<1>1. retry_job(row, loaded) = [row EXCEPT !.status = s, !.cancel = f, !.due = TRUE,
                                         !.claim = k, !.attempts = n]
    BY DEF retry_job
<1>2. /\ row.status \in Statuses /\ row.cancel \in BOOLEAN
      /\ row.claim \in Claims /\ row.attempts \in Nat
    BY RowFields
<1>3. s \in Statuses /\ k \in Claims /\ n \in Nat
    BY <1>2, WrittenValue DEF Statuses, Claims
<1>4. f \in BOOLEAN
    <2>1. f = row.cancel \/ f = FALSE
        BY Zenon DEF Written
    <2> QED
        BY <1>2, <2>1, Zenon
<1>5. loaded = row => n = 0
    BY DEF Written
<1> HIDE DEF s, f, k, n
<1>6. retry_job(row, loaded) \in Row
    BY <1>1, <1>3, <1>4, Zenon DEF Row
<1>7. retry_job(row, loaded).attempts = n
    <2> DEFINE before == [row EXCEPT !.status = s, !.cancel = f, !.due = TRUE, !.claim = k]
    <2>1. retry_job(row, loaded) = [before EXCEPT !.attempts = n]
        BY <1>1
    <2>2. before \in Row
        BY <1>3, <1>4, Zenon DEF Row
    <2> HIDE DEF before
    <2> QED
        BY <2>1, <2>2 DEF Row
<1> QED
    BY <1>5, <1>6, <1>7

-----------------------------------------------------------------------------
(***************************************************************************)
(* Types.                                                                  *)
(***************************************************************************)

\* Turns stay numbers, whatever happens to the rows.
LEMMA TurnsTyped ==
    ASSUME TypeOK, turn' = TurnsAfter(rows, rows')
    PROVE  turn' \in [Jobs -> Nat]
BY DEF TypeOK, TurnsAfter

\* A worker whose session ended is well typed.
LEMMA EndSessionTyped ==
    ASSUME TypeOK, NEW w \in Workers, NEW place \in {"down", "polling"},
           EndSession(w, place)
    PROVE  /\ pc' \in [Workers -> Places]
           /\ held' \in [Workers -> Jobs \cup {0}]
           /\ snap' \in [Workers -> Row]
           /\ ticket' \in [Workers -> Nat]
           /\ \A v \in Workers : pc'[v] \notin {"down", "polling"} => held'[v] \in Jobs
<1>1. pc' \in [Workers -> Places] /\ held' \in [Workers -> Jobs \cup {0}]
      /\ ticket' \in [Workers -> Nat]
    BY DEF TypeOK, EndSession, Places
<1>2. snap' \in [Workers -> Row]
    BY IdleTypes DEF TypeOK, EndSession
<1>3. \A v \in Workers : pc'[v] \notin {"down", "polling"} => held'[v] \in Jobs
    BY DEF TypeOK, EndSession
<1> QED
    BY <1>1, <1>2, <1>3

\* The commits of execute_job write a row and end the session.
LEMMA CommitTyped ==
    ASSUME TypeOK, NEW w \in Workers, NEW new \in Row, Commit(w, new)
    PROVE  TypeOK'
<1>1. rows' \in [Jobs -> Row]
    BY DEF TypeOK, Commit
<1>2. turn' \in [Jobs -> Nat]
    BY TurnsTyped DEF Commit
<1> QED
    BY <1>1, <1>2, EndSessionTyped DEF TypeOK, Commit

\* Every row and copy a worker at work uses.
LEMMA WorkerRows ==
    ASSUME TypeOK, NEW w \in Workers, pc[w] \notin {"down", "polling"}
    PROVE  held[w] \in Jobs /\ rows[held[w]] \in Row /\ snap[w] \in Row
BY DEF TypeOK

\* Init is well typed.
LEMMA InitTyped == Init => TypeOK
<1> SUFFICES ASSUME Init PROVE TypeOK
    OBVIOUS
<1>1. rows \in [Jobs -> Row] /\ snap \in [Workers -> Row] /\ req \in [Clients -> Requests]
    BY IdleTypes DEF Init
<1>2. used \in [requests : 0..MaxRequests, crashes : 0..MaxCrashes]
    BY BoundsAssumption DEF Init
<1>3. \A c \in Clients : req[c].op = "idle"
    BY DEF Init, IdleRequest
<1> QED
    BY <1>1, <1>2, <1>3 DEF Init, TypeOK, Places

\* Every step of the queue keeps the types.
LEMMA StepTyped == TypeOK /\ [Next]_vars => TypeOK'
<1> SUFFICES ASSUME TypeOK, [Next]_vars PROVE TypeOK'
    OBVIOUS
<1>1. ASSUME NEW j \in Jobs, enqueue_job(j)
      PROVE  TypeOK'
    <2>1. rows' \in [Jobs -> Row]
        BY <1>1, EnqueuedFacts DEF enqueue_job, TypeOK
    <2> QED
        BY <1>1, <2>1, TurnsTyped DEF enqueue_job, TypeOK
<1>2. ASSUME NEW j \in Jobs, BackoffElapses(j) \/ ClaimExpires(j)
      PROVE  TypeOK'
    <2>0. rows[j] \in Row
        BY DEF TypeOK
    <2>1. [rows[j] EXCEPT !.due = TRUE] \in Row /\ [rows[j] EXCEPT !.claim = "stale"] \in Row
        BY <2>0 DEF Row, Claims
    <2>2. rows' \in [Jobs -> Row]
        BY <1>2, <2>1 DEF BackoffElapses, ClaimExpires, TypeOK
    <2> QED
        BY <1>2, <2>2 DEF BackoffElapses, ClaimExpires, TypeOK
<1>3. ASSUME NEW w \in Workers, WorkerStart(w)
      PROVE  TypeOK'
    <2>1. rows' \in [Jobs -> Row]
        BY <1>3, RecoveredFacts DEF WorkerStart, recover_stale_jobs, TypeOK
    <2>2. pc' \in [Workers -> Places]
        BY <1>3 DEF WorkerStart, TypeOK, Places
    <2>3. turn' \in [Jobs -> Nat]
        BY <1>3, TurnsTyped DEF WorkerStart
    <2> QED
        BY <1>3, <2>1, <2>2, <2>3 DEF WorkerStart, TypeOK
<1>4. ASSUME NEW w \in Workers, SelectCandidate(w)
      PROVE  TypeOK'
    <2>1. pc' \in [Workers -> Places]
        BY <1>4 DEF SelectCandidate, TypeOK, Places
    <2>2. held' \in [Workers -> Jobs \cup {0}] /\ held'[w] \in Jobs
        BY <1>4 DEF SelectCandidate, TypeOK
    <2> QED
        BY <1>4, <2>1, <2>2 DEF SelectCandidate, TypeOK
<1>5. ASSUME NEW w \in Workers, ClaimUpdate(w)
      PROVE  TypeOK'
    <2>0. held[w] \in Jobs /\ rows[held[w]] \in Row
        BY <1>5, WorkerRows DEF ClaimUpdate
    <2>1. CASE ClaimGuard(held[w])
        <3>1. rows' \in [Jobs -> Row]
            BY <1>5, <2>0, <2>1, ClaimedFacts DEF ClaimUpdate, TypeOK
        <3>2. pc' \in [Workers -> Places] /\ ticket' \in [Workers -> Nat]
            BY <1>5, <2>0, <2>1 DEF ClaimUpdate, TypeOK, Places
        <3> QED
            BY <1>5, <2>0, <2>1, <3>1, <3>2 DEF ClaimUpdate, TypeOK
    <2>2. CASE ~ClaimGuard(held[w])
        BY <1>5, <2>2, EndSessionTyped DEF ClaimUpdate, TypeOK
    <2> QED
        BY <2>1, <2>2
<1>6. ASSUME NEW w \in Workers, LoadJob(w) \/ HandlerReturns(w)
      PROVE  TypeOK'
    <2>0. held[w] \in Jobs /\ rows[held[w]] \in Row
        BY <1>6, WorkerRows DEF LoadJob, HandlerReturns
    <2>1. pc' \in [Workers -> Places] /\ snap' \in [Workers -> Row]
        BY <1>6, <2>0 DEF LoadJob, HandlerReturns, TypeOK, Places
    <2> QED
        BY <1>6, <2>0, <2>1 DEF LoadJob, HandlerReturns, TypeOK
<1>7. ASSUME NEW w \in Workers, HandlerRaises(w)
      PROVE  TypeOK'
    <2>0. held[w] \in Jobs /\ rows[held[w]] \in Row /\ snap[w] \in Row
        BY <1>7, WorkerRows DEF HandlerRaises
    <2>1. pc' \in [Workers -> Places] /\ snap' \in [Workers -> Row]
        BY <1>7, <2>0 DEF HandlerRaises, TypeOK, Places
    <2> QED
        BY <1>7, <2>0, <2>1 DEF HandlerRaises, TypeOK
<1>8. ASSUME NEW w \in Workers, CommitCancelled(w) \/ CommitFinished(w) \/ CommitFailed(w)
      PROVE  TypeOK'
    <2>0. rows[held[w]] \in Row /\ snap[w] \in Row
        BY <1>8, WorkerRows DEF CommitCancelled, CommitFinished, CommitFailed
    <2>1. \E new \in Row : Commit(w, new)
        BY <1>8, <2>0, EndedFacts, FailedFacts DEF CommitCancelled, CommitFinished, CommitFailed
    <2> QED
        BY <2>1, CommitTyped
<1>9. ASSUME NEW w \in Workers, WorkerDown(w)
      PROVE  TypeOK'
    <2>1. used' \in [requests : 0..MaxRequests, crashes : 0..MaxCrashes]
        BY <1>9, BoundsAssumption DEF WorkerDown, TypeOK
    <2> QED
        BY <1>9, <2>1, EndSessionTyped DEF WorkerDown, TypeOK
<1>10. ASSUME NEW c \in Clients, NEW op \in {"cancel", "retry"}, NEW j \in Jobs,
              BeginRequest(c, op, j)
       PROVE  TypeOK'
    <2>1. used' \in [requests : 0..MaxRequests, crashes : 0..MaxCrashes]
        BY <1>10, BoundsAssumption DEF BeginRequest, TypeOK
    <2>2. [op |-> op, job |-> j, snap |-> rows[j]] \in Requests
        BY BoundsAssumption DEF Requests, TypeOK, Jobs
    <2> QED
        BY <1>10, <2>1, <2>2 DEF BeginRequest, TypeOK
<1>11. ASSUME NEW c \in Clients, CommitRequest(c)
       PROVE  TypeOK'
    <2>0. req[c].job \in Jobs /\ rows[req[c].job] \in Row /\ req[c].snap \in Row
        BY <1>11 DEF CommitRequest, TypeOK, Requests
    <2>1. rows' \in [Jobs -> Row]
        BY <1>11, <2>0, CancelFacts, RetryFacts DEF CommitRequest, TypeOK
    <2>2. req' \in [Clients -> Requests] /\ req'[c].op = "idle"
        BY <1>11, IdleTypes DEF CommitRequest, TypeOK, IdleRequest
    <2>3. turn' \in [Jobs -> Nat]
        BY <1>11, TurnsTyped DEF CommitRequest
    <2> QED
        BY <1>11, <2>1, <2>2, <2>3 DEF CommitRequest, TypeOK
<1>12. CASE UNCHANGED vars
    BY <1>12 DEF vars, TypeOK
<1> QED
    BY <1>1, <1>2, <1>3, <1>4, <1>5, <1>6, <1>7, <1>8, <1>9, <1>10, <1>11, <1>12
    DEF Next, WorkerStep

\* Every reachable state of the job queue is well typed.
THEOREM JobsTypeOK == Spec => []TypeOK
    BY InitTyped, StepTyped, PTL DEF Spec

-----------------------------------------------------------------------------
(***************************************************************************)
(* The compare-and-update of claim_next_job, on every schedule.            *)
(***************************************************************************)

\* A row that becomes pending takes a new turn; the others keep theirs.
TurnAdvances ==
    \A j \in Jobs :
        \/ /\ turn'[j] = turn[j]
           /\ rows'[j].status = "pending" => rows[j].status = "pending"
        \/ turn'[j] = turn[j] + 1

\* No worker takes up a job in this step.
NobodyStarts ==
    \A w \in Workers : \A j \in Jobs :
        WorksOn(w, j)' => WorksOn(w, j) /\ ticket'[w] = ticket[w]

\* TurnsAfter advances the turn exactly when a row becomes pending.
LEMMA TurnsAfterAdvances ==
    ASSUME turn' = TurnsAfter(rows, rows')
    PROVE  TurnAdvances
BY DEF TurnsAfter, TurnAdvances

\* Steps on which nobody takes up a job keep the claims apart.
LEMMA ClaimsStayApart ==
    ASSUME TypeOK, OneClaimPerTurn, TurnAdvances, NobodyStarts
    PROVE  OneClaimPerTurn'
<1>0. turn \in [Jobs -> Nat] /\ ticket \in [Workers -> Nat]
    BY DEF TypeOK
<1>1. ASSUME NEW w1 \in Workers, NEW w2 \in Workers, NEW j \in Jobs,
             WorksOn(w1, j)', WorksOn(w2, j)', w1 # w2
      PROVE  ticket'[w1] # ticket'[w2]
    BY <1>1 DEF NobodyStarts, OneClaimPerTurn
<1>2. ASSUME NEW w \in Workers, NEW j \in Jobs, WorksOn(w, j)'
      PROVE  /\ ticket'[w] <= turn'[j]
             /\ rows'[j].status = "pending" => ticket'[w] < turn'[j]
    <2>1. WorksOn(w, j) /\ ticket'[w] = ticket[w]
        BY <1>2 DEF NobodyStarts
    <2>2. /\ ticket[w] <= turn[j]
          /\ rows[j].status = "pending" => ticket[w] < turn[j]
        BY <2>1 DEF OneClaimPerTurn
    <2>3. ticket[w] \in Nat /\ turn[j] \in Nat
        BY <1>0
    <2> QED
        BY <2>1, <2>2, <2>3 DEF TurnAdvances
<1> QED
    BY <1>1, <1>2 DEF OneClaimPerTurn

\* A worker whose session ended works on nothing; the others are as before.
LEMMA EndSessionStops ==
    ASSUME TypeOK, NEW w \in Workers, NEW place \in {"down", "polling"},
           EndSession(w, place)
    PROVE  NobodyStarts
BY DEF TypeOK, EndSession, NobodyStarts, WorksOn, Working

\* Every step keeps at most one claim per turn.
LEMMA StepOneClaim == TypeOK /\ OneClaimPerTurn /\ [Next]_vars => OneClaimPerTurn'
<1> SUFFICES ASSUME TypeOK, OneClaimPerTurn, [Next]_vars PROVE OneClaimPerTurn'
    OBVIOUS
<1>1. ASSUME NEW j \in Jobs, enqueue_job(j)
      PROVE  OneClaimPerTurn'
    <2>1. NobodyStarts
        BY <1>1 DEF enqueue_job, NobodyStarts, WorksOn
    <2> QED
        BY <1>1, <2>1, TurnsAfterAdvances, ClaimsStayApart DEF enqueue_job
<1>2. ASSUME NEW j \in Jobs, BackoffElapses(j) \/ ClaimExpires(j)
      PROVE  OneClaimPerTurn'
    <2>1. NobodyStarts
        BY <1>2 DEF BackoffElapses, ClaimExpires, NobodyStarts, WorksOn
    <2>2. \A i \in Jobs : rows'[i].status = rows[i].status
        <3>1. rows[j] \in Row /\ rows \in [Jobs -> Row]
            BY DEF TypeOK
        <3> QED
            BY <1>2, <3>1 DEF BackoffElapses, ClaimExpires, Row
    <2>3. TurnAdvances
        BY <1>2, <2>2 DEF BackoffElapses, ClaimExpires, TurnAdvances
    <2> QED
        BY <2>1, <2>3, ClaimsStayApart
<1>3. ASSUME NEW w \in Workers, WorkerStart(w)
      PROVE  OneClaimPerTurn'
    <2>1. NobodyStarts
        BY <1>3 DEF WorkerStart, NobodyStarts, WorksOn, Working, TypeOK
    <2> QED
        BY <1>3, <2>1, TurnsAfterAdvances, ClaimsStayApart DEF WorkerStart
<1>4. ASSUME NEW w \in Workers, SelectCandidate(w)
      PROVE  OneClaimPerTurn'
    <2>1. NobodyStarts
        BY <1>4 DEF SelectCandidate, NobodyStarts, WorksOn, Working, TypeOK
    <2>2. TurnAdvances
        BY <1>4 DEF SelectCandidate, TurnAdvances
    <2> QED
        BY <2>1, <2>2, ClaimsStayApart
<1>5. ASSUME NEW w \in Workers, ClaimUpdate(w)
      PROVE  OneClaimPerTurn'
    <2>0. held[w] \in Jobs /\ rows[held[w]] \in Row
        BY <1>5, WorkerRows DEF ClaimUpdate
    <2>1. CASE ClaimGuard(held[w])
        <3>1. /\ rows' = [rows EXCEPT ![held[w]] = ClaimedRow(rows[held[w]])]
              /\ pc' = [pc EXCEPT ![w] = "claimed"]
              /\ ticket' = [ticket EXCEPT ![w] = turn[held[w]]]
              /\ UNCHANGED <<held, turn>>
              /\ pc[w] = "selected"
              /\ rows[held[w]].status = "pending"
            BY <1>5, <2>1 DEF ClaimUpdate, ClaimGuard
        <3>2. \A v \in Workers \ {w} : \A j \in Jobs :
                  /\ WorksOn(v, j)' = WorksOn(v, j)
                  /\ ticket'[v] = ticket[v]
            BY <3>1 DEF WorksOn, TypeOK
        <3>3. /\ ticket'[w] = turn[held[w]]
              /\ \A j \in Jobs : WorksOn(w, j)' => j = held[w]
            BY <3>1 DEF WorksOn, TypeOK
        <3>4. \A j \in Jobs : rows'[j].status = "pending" =>
                  j # held[w] /\ rows[j].status = "pending"
            BY <2>0, <3>1, ClaimedFacts DEF TypeOK
        <3>5. turn \in [Jobs -> Nat] /\ ticket \in [Workers -> Nat]
            BY DEF TypeOK
        <3>6. \A v \in Workers \ {w} :
                  WorksOn(v, held[w]) => ticket[v] < turn[held[w]]
            BY <2>0, <3>1 DEF OneClaimPerTurn
        <3>7. ASSUME NEW w1 \in Workers, NEW w2 \in Workers, NEW j \in Jobs,
                     WorksOn(w1, j)', WorksOn(w2, j)', w1 # w2
              PROVE  ticket'[w1] # ticket'[w2]
            <4>1. CASE w1 # w /\ w2 # w
                BY <3>2, <3>7, <4>1 DEF OneClaimPerTurn
            <4>2. CASE w1 = w
                BY <2>0, <3>2, <3>3, <3>5, <3>6, <3>7, <4>2
            <4>3. CASE w2 = w
                BY <2>0, <3>2, <3>3, <3>5, <3>6, <3>7, <4>3
            <4> QED
                BY <4>1, <4>2, <4>3
        <3>8. ASSUME NEW v \in Workers, NEW j \in Jobs, WorksOn(v, j)'
              PROVE  /\ ticket'[v] <= turn'[j]
                     /\ rows'[j].status = "pending" => ticket'[v] < turn'[j]
            <4>1. CASE v # w
                BY <3>1, <3>2, <3>4, <3>8, <4>1 DEF OneClaimPerTurn
            <4>2. CASE v = w
                BY <2>0, <3>1, <3>3, <3>4, <3>5, <3>8, <4>2
            <4> QED
                BY <4>1, <4>2
        <3> QED
            BY <3>7, <3>8 DEF OneClaimPerTurn
    <2>2. CASE ~ClaimGuard(held[w])
        <3>1. EndSession(w, "polling") /\ UNCHANGED <<rows, turn>>
            BY <1>5, <2>2 DEF ClaimUpdate
        <3>2. TurnAdvances
            BY <3>1 DEF TurnAdvances
        <3> QED
            BY <3>1, <3>2, EndSessionStops, ClaimsStayApart
    <2> QED
        BY <2>1, <2>2
<1>6. ASSUME NEW w \in Workers, LoadJob(w) \/ HandlerReturns(w) \/ HandlerRaises(w)
      PROVE  OneClaimPerTurn'
    <2>1. NobodyStarts
        BY <1>6 DEF LoadJob, HandlerReturns, HandlerRaises, NobodyStarts, WorksOn,
            Working, TypeOK
    <2>2. TurnAdvances
        BY <1>6 DEF LoadJob, HandlerReturns, HandlerRaises, TurnAdvances
    <2> QED
        BY <2>1, <2>2, ClaimsStayApart
<1>7. ASSUME NEW w \in Workers, CommitCancelled(w) \/ CommitFinished(w) \/ CommitFailed(w)
      PROVE  OneClaimPerTurn'
    <2>1. EndSession(w, "polling") /\ turn' = TurnsAfter(rows, rows')
        BY <1>7 DEF CommitCancelled, CommitFinished, CommitFailed, Commit
    <2> QED
        BY <2>1, EndSessionStops, TurnsAfterAdvances, ClaimsStayApart
<1>8. ASSUME NEW w \in Workers, WorkerDown(w)
      PROVE  OneClaimPerTurn'
    <2>1. EndSession(w, "down") /\ TurnAdvances
        BY <1>8 DEF WorkerDown, TurnAdvances
    <2> QED
        BY <2>1, EndSessionStops, ClaimsStayApart
<1>9. ASSUME NEW c \in Clients, NEW op \in {"cancel", "retry"}, NEW j \in Jobs,
             BeginRequest(c, op, j)
      PROVE  OneClaimPerTurn'
    <2>1. NobodyStarts /\ TurnAdvances
        BY <1>9 DEF BeginRequest, NobodyStarts, TurnAdvances, WorksOn
    <2> QED
        BY <2>1, ClaimsStayApart
<1>10. ASSUME NEW c \in Clients, CommitRequest(c)
       PROVE  OneClaimPerTurn'
    <2>1. NobodyStarts
        BY <1>10 DEF CommitRequest, NobodyStarts, WorksOn
    <2> QED
        BY <1>10, <2>1, TurnsAfterAdvances, ClaimsStayApart DEF CommitRequest
<1>11. CASE UNCHANGED vars
    BY <1>11 DEF vars, OneClaimPerTurn, WorksOn
<1> QED
    BY <1>1, <1>2, <1>3, <1>4, <1>5, <1>6, <1>7, <1>8, <1>9, <1>10, <1>11
    DEF Next, WorkerStep

\* claim_next_job hands one return to pending to at most one worker, for any
\* number of workers, crashes, recoveries, retries and requests.
THEOREM JobsOneClaim == Spec => []OneClaimPerTurn
<1>1. Init => OneClaimPerTurn
    BY DEF Init, OneClaimPerTurn, WorksOn, Working
<1>2. Init => TypeOK
    BY InitTyped
<1>3. TypeOK /\ OneClaimPerTurn /\ [Next]_vars => (TypeOK /\ OneClaimPerTurn)'
    BY StepTyped, StepOneClaim
<1> QED
    BY <1>1, <1>2, <1>3, PTL DEF Spec

-----------------------------------------------------------------------------
(***************************************************************************)
(* Exclusive execution and bounded attempts, on timely schedules.          *)
(***************************************************************************)

\* Whoever is at work after the step was at work before it, on the same copy.
StillWorking ==
    \A w \in Workers : pc'[w] \in Working =>
        pc'[w] = pc[w] /\ held'[w] = held[w] /\ snap'[w] = snap[w]

\* The step leaves alone what the rows at work say of their claim.
ClaimsKept ==
    \A w \in Workers : \A j \in Jobs : WorksOn(w, j)' =>
        /\ rows'[j].status = rows[j].status
        /\ rows'[j].claim = rows[j].claim
        /\ rows'[j].attempts = rows[j].attempts

\* The count of attempts of every row is in order after the step.
CountsKept ==
    \A j \in Jobs :
        /\ rows'[j].attempts <= MaxAttempts
        /\ rows'[j].status = "pending" => rows'[j].attempts < MaxAttempts

\* Steps that keep the claims preserve the invariant.
LEMMA ClaimsSurvive ==
    ASSUME TimelyInv, TypeOK', StillWorking, ClaimsKept, CountsKept, RetriesFinished'
    PROVE  TimelyInv'
<1>0. /\ HeldIsLive /\ ExclusiveRun /\ CopiesCount
      /\ \A w \in Workers : pc[w] \in Working => held[w] \in Jobs
    BY DEF TimelyInv, TypeOK, Working
<1>1. \A w \in Workers : \A j \in Jobs : WorksOn(w, j)' => WorksOn(w, j)
    BY DEF StillWorking, WorksOn
<1>2. HeldIsLive'
    BY <1>0, <1>1 DEF HeldIsLive, ClaimsKept
<1>3. ExclusiveRun'
    BY <1>0, <1>1 DEF ExclusiveRun
<1>4. CopiesCount'
    <2> SUFFICES ASSUME NEW w \in Workers,
                        pc'[w] \in {"cancelling", "handling", "finishing", "failing"}
                 PROVE  snap'[w].attempts = rows'[held'[w]].attempts
        BY DEF CopiesCount
    <2>1. pc'[w] \in Working
        BY DEF Working
    <2>2. pc'[w] = pc[w] /\ held'[w] = held[w] /\ snap'[w] = snap[w]
        BY <2>1 DEF StillWorking
    <2>3. held[w] \in Jobs
        BY <1>0, <2>1, <2>2
    <2>4. rows'[held[w]].attempts = rows[held[w]].attempts
        BY <2>1, <2>2, <2>3 DEF ClaimsKept, WorksOn
    <2> QED
        BY <1>0, <2>2, <2>4 DEF CopiesCount
<1>5. PendingHasAttempts' /\ AttemptsBounded'
    BY DEF CountsKept, PendingHasAttempts, AttemptsBounded
<1> QED
    BY <1>2, <1>3, <1>4, <1>5 DEF TimelyInv

\* An ended session works on nothing.
LEMMA EndSessionKeepsOthers ==
    ASSUME TypeOK, NEW w \in Workers, NEW place \in {"down", "polling"},
           EndSession(w, place)
    PROVE  /\ StillWorking
           /\ pc'[w] \notin Working
           /\ \A v \in Workers \ {w} : pc'[v] = pc[v] /\ held'[v] = held[v]
BY DEF TypeOK, EndSession, StillWorking, Working

\* The copies of a request in flight are rows of its job.
LEMMA RequestRows ==
    ASSUME TypeOK, NEW c \in Clients, req[c].op # "idle"
    PROVE  req[c].job \in Jobs /\ rows[req[c].job] \in Row /\ req[c].snap \in Row
BY DEF TypeOK, Requests

\* A timely step is a step of the queue.
LEMMA TimelyIsNext == [TimelyNext]_vars => [Next]_vars
BY DEF TimelyNext, Next

\* Commits of execute_job: the worker leaves, its row is still well counted.
LEMMA CommitKeeps ==
    ASSUME TimelyInv, TypeOK', NEW w \in Workers, pc[w] \in Working,
           NEW new \in Row, Commit(w, new),
           new.attempts = rows[held[w]].attempts,
           new.status = "pending" => new.attempts < MaxAttempts
    PROVE  TimelyInv'
<1>0. TypeOK /\ ExclusiveRun /\ PendingHasAttempts /\ AttemptsBounded
    BY DEF TimelyInv
<1>1. held[w] \in Jobs /\ rows' = [rows EXCEPT ![held[w]] = new] /\ req' = req
    BY <1>0, WorkerRows DEF Commit, Working
<1>2. /\ StillWorking
      /\ pc'[w] \notin Working
      /\ \A v \in Workers \ {w} : pc'[v] = pc[v] /\ held'[v] = held[v]
    BY <1>0, EndSessionKeepsOthers DEF Commit
<1>3. \A j \in Jobs \ {held[w]} : rows'[j] = rows[j]
    BY <1>0, <1>1 DEF TypeOK
<1>4. rows'[held[w]] = new
    BY <1>0, <1>1 DEF TypeOK
<1>5. ClaimsKept
    <2> SUFFICES ASSUME NEW v \in Workers, NEW j \in Jobs, WorksOn(v, j)'
                 PROVE  j # held[w]
        BY <1>3 DEF ClaimsKept
    <2>1. v # w
        BY <1>2 DEF WorksOn
    <2>2. WorksOn(v, j)
        BY <1>2, <2>1 DEF WorksOn
    <2>3. WorksOn(w, held[w])
        BY DEF WorksOn
    <2> QED
        BY <1>0, <2>1, <2>2, <2>3 DEF ExclusiveRun
<1>6. CountsKept
    <2> SUFFICES ASSUME NEW j \in Jobs
                 PROVE  /\ rows'[j].attempts <= MaxAttempts
                        /\ rows'[j].status = "pending" => rows'[j].attempts < MaxAttempts
        BY DEF CountsKept
    <2>1. CASE j = held[w]
        BY <1>0, <1>1, <1>4, <2>1 DEF AttemptsBounded
    <2>2. CASE j # held[w]
        BY <1>0, <1>3, <2>2 DEF AttemptsBounded, PendingHasAttempts
    <2> QED
        BY <2>1, <2>2
<1>7. RetriesFinished'
    BY <1>1 DEF TimelyInv, RetriesFinished
<1> QED
    BY <1>2, <1>5, <1>6, <1>7, ClaimsSurvive

\* Every timely step keeps the invariant.
LEMMA StepTimely == TimelyInv /\ [TimelyNext]_vars => TimelyInv'
<1> SUFFICES ASSUME TimelyInv, [TimelyNext]_vars PROVE TimelyInv'
    OBVIOUS
<1>0. /\ TypeOK /\ HeldIsLive /\ ExclusiveRun /\ CopiesCount
      /\ RetriesFinished /\ PendingHasAttempts /\ AttemptsBounded
    BY DEF TimelyInv
<1>t. TypeOK'
    BY <1>0, TimelyIsNext, StepTyped
<1>r. rows \in [Jobs -> Row]
    BY <1>0 DEF TypeOK
<1>m. MaxAttempts \in Nat \ {0}
    BY BoundsAssumption
<1>k. UNCHANGED rows => CountsKept /\ ClaimsKept
    BY <1>0 DEF CountsKept, ClaimsKept, PendingHasAttempts, AttemptsBounded
<1>u. UNCHANGED <<pc, held, snap>> => StillWorking
    BY DEF StillWorking
<1>q. UNCHANGED req => RetriesFinished'
    BY <1>0 DEF RetriesFinished
<1>1. ASSUME NEW j \in Jobs, enqueue_job(j)
      PROVE  TimelyInv'
    <2>1. \A w \in Workers : ~WorksOn(w, j)
        BY <1>0, <1>1 DEF enqueue_job, HeldIsLive
    <2>2. /\ \A i \in Jobs \ {j} : rows'[i] = rows[i]
          /\ rows'[j].attempts = 0
        BY <1>1, <1>r, EnqueuedFacts DEF enqueue_job
    <2>3. ClaimsKept
        BY <1>1, <2>1, <2>2 DEF enqueue_job, ClaimsKept, WorksOn
    <2>4. CountsKept
        BY <1>0, <1>m, <2>2 DEF CountsKept, PendingHasAttempts, AttemptsBounded
    <2>5. StillWorking /\ RetriesFinished'
        BY <1>1, <1>u, <1>q DEF enqueue_job
    <2> QED
        BY <1>t, <2>3, <2>4, <2>5, ClaimsSurvive
<1>2. ASSUME NEW j \in Jobs,
             BackoffElapses(j) \/ ((\A w \in Workers : ~WorksOn(w, j)) /\ ClaimExpires(j))
      PROVE  TimelyInv'
    <2>0. rows[j] \in Row
        BY <1>r
    <2>1. \A w \in Workers : ~WorksOn(w, j)
        BY <1>0, <1>2 DEF BackoffElapses, HeldIsLive
    <2>2. /\ \A i \in Jobs \ {j} : rows'[i] = rows[i]
          /\ rows'[j].attempts = rows[j].attempts
          /\ rows'[j].status = rows[j].status
        BY <1>2, <1>r, <2>0 DEF BackoffElapses, ClaimExpires, Row
    <2>3. ClaimsKept
        BY <1>2, <2>1, <2>2 DEF BackoffElapses, ClaimExpires, ClaimsKept, WorksOn
    <2>4. CountsKept
        BY <1>0, <2>2 DEF CountsKept, PendingHasAttempts, AttemptsBounded
    <2>5. StillWorking /\ RetriesFinished'
        BY <1>2, <1>u, <1>q DEF BackoffElapses, ClaimExpires
    <2> QED
        BY <1>t, <2>3, <2>4, <2>5, ClaimsSurvive
<1>3. ASSUME NEW w \in Workers, WorkerStart(w)
      PROVE  TimelyInv'
    <2>1. StillWorking /\ RetriesFinished'
        BY <1>0, <1>3, <1>q DEF WorkerStart, StillWorking, Working, TypeOK
    <2>2. \A j \in Jobs : rows'[j] = Recovered(rows[j])
        BY <1>3 DEF WorkerStart, recover_stale_jobs
    <2>3. ClaimsKept
        <3> SUFFICES ASSUME NEW v \in Workers, NEW j \in Jobs, WorksOn(v, j)'
                     PROVE  rows'[j] = rows[j]
            BY DEF ClaimsKept
        <3>1. WorksOn(v, j)
            BY <2>1 DEF StillWorking, WorksOn
        <3>2. rows[j].claim = "live"
            BY <1>0, <3>1 DEF HeldIsLive
        <3> QED
            BY <1>r, <2>2, <3>2, RecoveredFacts
    <2>4. CountsKept
        BY <1>0, <1>r, <2>2, RecoveredFacts DEF CountsKept, PendingHasAttempts, AttemptsBounded
    <2> QED
        BY <1>t, <2>1, <2>3, <2>4, ClaimsSurvive
<1>4. ASSUME NEW w \in Workers, SelectCandidate(w)
      PROVE  TimelyInv'
    <2>1. StillWorking
        BY <1>0, <1>4 DEF SelectCandidate, StillWorking, Working, TypeOK
    <2>2. CountsKept /\ ClaimsKept /\ RetriesFinished'
        BY <1>4, <1>k, <1>q DEF SelectCandidate
    <2> QED
        BY <1>t, <2>1, <2>2, ClaimsSurvive
<1>5. ASSUME NEW w \in Workers, ClaimUpdate(w)
      PROVE  TimelyInv'
    <2>0. held[w] \in Jobs /\ rows[held[w]] \in Row
        BY <1>0, <1>5, WorkerRows DEF ClaimUpdate
    <2>1. CASE ClaimGuard(held[w])
        <3>1. /\ rows' = [rows EXCEPT ![held[w]] = ClaimedRow(rows[held[w]])]
              /\ pc' = [pc EXCEPT ![w] = "claimed"]
              /\ UNCHANGED <<held, snap, req>>
              /\ rows[held[w]].status = "pending"
            BY <1>5, <2>1 DEF ClaimUpdate, ClaimGuard
        <3>2. /\ \A j \in Jobs \ {held[w]} : rows'[j] = rows[j]
              /\ rows'[held[w]].status = "running"
              /\ rows'[held[w]].claim = "live"
              /\ rows'[held[w]].attempts = rows[held[w]].attempts + 1
            BY <1>r, <2>0, <3>1, ClaimedFacts
        <3>3. /\ \A v \in Workers \ {w} : pc'[v] = pc[v]
              /\ pc'[w] = "claimed"
            BY <1>0, <3>1 DEF TypeOK
        <3>4. \A v \in Workers : ~WorksOn(v, held[w])
            BY <1>0, <2>0, <3>1 DEF HeldIsLive
        <3>5. \A v \in Workers \ {w} : pc[v] \in Working => held[v] # held[w]
            BY <3>4 DEF WorksOn
        <3>6. HeldIsLive'
            BY <1>0, <3>1, <3>2, <3>3, <3>5 DEF HeldIsLive, WorksOn
        <3>7. ExclusiveRun'
            BY <1>0, <3>1, <3>3, <3>5 DEF ExclusiveRun, WorksOn
        <3>8. CopiesCount'
            <4> SUFFICES ASSUME NEW v \in Workers,
                                pc'[v] \in {"cancelling", "handling", "finishing", "failing"}
                         PROVE  snap[v].attempts = rows'[held[v]].attempts
                BY <3>1 DEF CopiesCount
            <4>1. v # w /\ pc'[v] = pc[v] /\ pc[v] \in Working
                BY <3>3 DEF Working
            <4>2. held[v] \in Jobs \ {held[w]}
                BY <1>0, <3>5, <4>1 DEF TypeOK, Working
            <4> QED
                BY <1>0, <3>2, <4>1, <4>2 DEF CopiesCount
        <3>9. rows[held[w]].attempts \in Nat /\ rows[held[w]].attempts < MaxAttempts
            BY <1>0, <2>0, <3>1, RowFields DEF PendingHasAttempts
        <3>10. PendingHasAttempts' /\ AttemptsBounded'
            BY <1>0, <1>m, <2>0, <3>2, <3>9 DEF PendingHasAttempts, AttemptsBounded
        <3> QED
            BY <1>t, <1>q, <3>1, <3>6, <3>7, <3>8, <3>10 DEF TimelyInv
    <2>2. CASE ~ClaimGuard(held[w])
        <3>1. EndSession(w, "polling") /\ UNCHANGED <<rows, req>>
            BY <1>5, <2>2 DEF ClaimUpdate
        <3>2. StillWorking
            BY <1>0, <3>1, EndSessionKeepsOthers
        <3> QED
            BY <1>t, <1>k, <1>q, <3>1, <3>2, ClaimsSurvive
    <2> QED
        BY <2>1, <2>2
<1>6. ASSUME NEW w \in Workers, LoadJob(w) \/ HandlerReturns(w) \/ HandlerRaises(w)
      PROVE  TimelyInv'
    <2>1. /\ pc[w] \in Working /\ pc'[w] \in Working
          /\ \A v \in Workers \ {w} : pc'[v] = pc[v] /\ snap'[v] = snap[v]
          /\ UNCHANGED <<rows, held, req>>
        BY <1>0, <1>6 DEF LoadJob, HandlerReturns, HandlerRaises, Working, TypeOK
    <2>2. HeldIsLive' /\ ExclusiveRun'
        BY <1>0, <2>1 DEF HeldIsLive, ExclusiveRun, WorksOn
    <2>3. snap'[w].attempts = rows[held[w]].attempts
        <3>1. CASE LoadJob(w) \/ HandlerReturns(w)
            BY <1>0, <3>1 DEF LoadJob, HandlerReturns, TypeOK
        <3>2. CASE HandlerRaises(w)
            <4>1. snap'[w] \in {snap[w], rows[held[w]]}
                BY <1>0, <3>2 DEF HandlerRaises, TypeOK
            <4>2. snap[w].attempts = rows[held[w]].attempts
                BY <1>0, <3>2 DEF HandlerRaises, CopiesCount
            <4> QED
                BY <4>1, <4>2
        <3> QED
            BY <1>6, <3>1, <3>2
    <2>4. CopiesCount'
        BY <1>0, <2>1, <2>3 DEF CopiesCount
    <2>5. PendingHasAttempts' /\ AttemptsBounded' /\ RetriesFinished'
        BY <1>0, <1>q, <2>1 DEF PendingHasAttempts, AttemptsBounded
    <2> QED
        BY <1>t, <2>2, <2>4, <2>5 DEF TimelyInv
<1>7. ASSUME NEW w \in Workers, CommitCancelled(w) \/ CommitFinished(w)
      PROVE  TimelyInv'
    <2>0. pc[w] \in Working
        BY <1>7 DEF CommitCancelled, CommitFinished, Working
    <2>1. held[w] \in Jobs /\ rows[held[w]] \in Row /\ snap[w] \in Row
        BY <1>0, <2>0, WorkerRows DEF Working
    <2>2. rows[held[w]].status = "running"
        BY <1>0, <2>0, <2>1 DEF HeldIsLive, WorksOn
    <2>3. \E new \in Row : /\ Commit(w, new)
                            /\ new.attempts = rows[held[w]].attempts
                            /\ new.status # "pending"
        BY <1>7, <2>1, <2>2, EndedFacts DEF CommitCancelled, CommitFinished
    <2> QED
        BY <1>t, <2>0, <2>3, CommitKeeps
<1>8. ASSUME NEW w \in Workers, CommitFailed(w)
      PROVE  TimelyInv'
    <2>0. pc[w] = "failing" /\ pc[w] \in Working
        BY <1>8 DEF CommitFailed, Working
    <2>1. held[w] \in Jobs /\ rows[held[w]] \in Row /\ snap[w] \in Row
        BY <1>0, <2>0, WorkerRows
    <2>2. rows[held[w]].status = "running"
        BY <1>0, <2>0, <2>1 DEF HeldIsLive, WorksOn
    <2>3. snap[w].attempts = rows[held[w]].attempts
        BY <1>0, <2>0 DEF CopiesCount
    <2> DEFINE new == FailedRow(rows[held[w]], snap[w])
    <2>4. /\ new \in Row
          /\ new.attempts = rows[held[w]].attempts
          /\ new.status = "pending" => new.attempts < MaxAttempts
        <3>1. /\ new \in Row
              /\ new.attempts = rows[held[w]].attempts
              /\ new.status = "pending" =>
                    rows[held[w]].status = "pending" \/ snap[w].attempts < MaxAttempts
            BY <2>1, FailedFacts
        <3> QED
            BY <2>2, <2>3, <3>1
    <2>5. Commit(w, new)
        BY <1>8 DEF CommitFailed
    <2> HIDE DEF new
    <2> QED
        BY <1>t, <2>0, <2>4, <2>5, CommitKeeps
<1>9. ASSUME NEW w \in Workers, WorkerDown(w)
      PROVE  TimelyInv'
    <2>1. EndSession(w, "down") /\ UNCHANGED <<rows, req>>
        BY <1>9 DEF WorkerDown
    <2>2. StillWorking
        BY <1>0, <2>1, EndSessionKeepsOthers
    <2> QED
        BY <1>t, <1>k, <1>q, <2>1, <2>2, ClaimsSurvive
<1>10. ASSUME NEW c \in Clients, NEW op \in {"cancel", "retry"}, NEW j \in Jobs,
              BeginRequest(c, op, j)
       PROVE  TimelyInv'
    <2>1. UNCHANGED <<rows, pc, held, snap>>
        BY <1>10 DEF BeginRequest
    <2>2. RetriesFinished'
        BY <1>0, <1>10 DEF BeginRequest, RequestAccepted, RetriesFinished, TypeOK
    <2> QED
        BY <1>t, <1>k, <1>u, <2>1, <2>2, ClaimsSurvive
<1>11. ASSUME NEW c \in Clients, req[c].op # "idle", req[c].snap = rows[req[c].job],
              CommitRequest(c)
       PROVE  TimelyInv'
    <2> DEFINE j == req[c].job
    <2>0. j \in Jobs /\ rows[j] \in Row
        BY <1>0, <1>11, RequestRows
    <2>1. StillWorking
        BY <1>11, <1>u DEF CommitRequest
    <2>2. RetriesFinished'
        BY <1>0, <1>11 DEF CommitRequest, RetriesFinished, IdleRequest, TypeOK
    <2>3. \A i \in Jobs \ {j} : rows'[i] = rows[i]
        BY <1>11, <1>r DEF CommitRequest
    <2>4. CASE req[c].op = "cancel"
        <3>1. rows'[j] = cancel_job(rows[j], rows[j])
            BY <1>11, <1>r, <2>0, <2>4 DEF CommitRequest
        <3>2. /\ rows'[j].attempts = rows[j].attempts
              /\ rows'[j].claim = rows[j].claim
              /\ rows'[j].status \in {rows[j].status, "cancelled"}
              /\ rows[j].status # "pending" => rows'[j].status = rows[j].status
            BY <2>0, <3>1, CancelFacts
        <3>3. ClaimsKept
            BY <1>0, <1>11, <2>0, <2>3, <3>2 DEF CommitRequest, ClaimsKept, HeldIsLive, WorksOn
        <3>4. CountsKept
            BY <1>0, <2>0, <2>3, <3>2 DEF CountsKept, PendingHasAttempts, AttemptsBounded
        <3> QED
            BY <1>t, <2>1, <2>2, <3>3, <3>4, ClaimsSurvive
    <2>5. CASE req[c].op # "cancel"
        <3>1. req[c].op = "retry"
            BY <1>0, <1>11, <2>5 DEF TypeOK, Requests
        <3>2. rows[j].status \in {"failed", "cancelled"}
            BY <1>0, <1>11, <3>1 DEF RetriesFinished
        <3>3. rows'[j] = retry_job(rows[j], rows[j])
            BY <1>11, <1>r, <2>0, <2>5 DEF CommitRequest
        <3>4. rows'[j].attempts = 0
            BY <2>0, <3>3, RetryFacts
        <3>5. ClaimsKept
            BY <1>0, <1>11, <2>0, <2>3, <3>2 DEF CommitRequest, ClaimsKept, HeldIsLive, WorksOn
        <3>6. CountsKept
            BY <1>0, <1>m, <2>0, <2>3, <3>4 DEF CountsKept, PendingHasAttempts, AttemptsBounded
        <3> QED
            BY <1>t, <2>1, <2>2, <3>5, <3>6, ClaimsSurvive
    <2> QED
        BY <2>4, <2>5
<1>12. CASE UNCHANGED vars
    BY <1>t, <1>k, <1>u, <1>q, <1>12, ClaimsSurvive DEF vars
<1> QED
    BY <1>1, <1>2, <1>3, <1>4, <1>5, <1>6, <1>7, <1>8, <1>9, <1>10, <1>11, <1>12
    DEF TimelyNext, WorkerStep

\* TimelyInv holds initially.
LEMMA InitTimely == Init => TimelyInv
<1> SUFFICES ASSUME Init PROVE TimelyInv
    OBVIOUS
<1>1. HeldIsLive /\ ExclusiveRun /\ CopiesCount
    BY DEF Init, HeldIsLive, ExclusiveRun, CopiesCount, WorksOn, Working
<1>2. RetriesFinished
    BY DEF Init, RetriesFinished, IdleRequest
<1>3. PendingHasAttempts /\ AttemptsBounded
    BY BoundsAssumption DEF Init, PendingHasAttempts, AttemptsBounded, AbsentRow
<1> QED
    BY <1>1, <1>2, <1>3, InitTyped DEF TimelyInv

\* The inductive invariant of the timely schedules.
THEOREM JobsTimelyInv == TimelySpec => []TimelyInv
    BY InitTimely, StepTimely, PTL DEF TimelySpec

\* As long as no worker outlives its claim and no request commits over a row
\* that changed, execute_job runs a job in one worker at a time ...
THEOREM JobsExclusive == TimelySpec => []ExclusiveRun
<1>1. TimelyInv => ExclusiveRun
    BY DEF TimelyInv
<1> QED
    BY <1>1, JobsTimelyInv, PTL

\* ... and claim_next_job hands it out at most max_attempts times.
THEOREM JobsAttempts == TimelySpec => []AttemptsBounded
<1>1. TimelyInv => AttemptsBounded
    BY DEF TimelyInv
<1> QED
    BY <1>1, JobsTimelyInv, PTL

\* A timely step that changes a completed row does not make it pending.
LEMMA StepCompleted ==
    ASSUME TimelyInv, [TimelyNext]_vars, NEW j \in Jobs, rows[j].status = "completed"
    PROVE  rows'[j].status # "pending"
<1>0. /\ TypeOK /\ HeldIsLive /\ RetriesFinished
      /\ rows \in [Jobs -> Row] /\ rows[j] \in Row
    BY DEF TimelyInv, TypeOK
<1>1. CASE UNCHANGED rows
    BY <1>1
<1>2. ASSUME NEW i \in Jobs, enqueue_job(i) \/ BackoffElapses(i) \/ ClaimExpires(i)
      PROVE  rows'[j].status # "pending"
    <2>1. CASE i = j
        BY <1>0, <1>2, <2>1 DEF enqueue_job, BackoffElapses, ClaimExpires, Row
    <2>2. CASE i # j
        BY <1>0, <1>2, <2>2 DEF enqueue_job, BackoffElapses, ClaimExpires
    <2> QED
        BY <2>1, <2>2
<1>3. ASSUME NEW w \in Workers, WorkerStart(w)
      PROVE  rows'[j].status # "pending"
    BY <1>0, <1>3, RecoveredFacts DEF WorkerStart, recover_stale_jobs
<1>4. ASSUME NEW w \in Workers, ClaimUpdate(w)
      PROVE  rows'[j].status # "pending"
    <2>1. held[w] \in Jobs /\ rows[held[w]] \in Row
        BY <1>0, <1>4, WorkerRows DEF ClaimUpdate
    <2>2. rows' = rows \/ rows' = [rows EXCEPT ![held[w]] = ClaimedRow(rows[held[w]])]
        BY <1>4 DEF ClaimUpdate
    <2> QED
        BY <1>0, <2>1, <2>2, ClaimedFacts
<1>5. ASSUME NEW w \in Workers, CommitCancelled(w) \/ CommitFinished(w) \/ CommitFailed(w)
      PROVE  rows'[j].status # "pending"
    <2>1. pc[w] \in Working /\ \E new : rows' = [rows EXCEPT ![held[w]] = new]
        BY <1>5 DEF CommitCancelled, CommitFinished, CommitFailed, Commit, Working
    <2>2. held[w] # j
        BY <1>0, <2>1 DEF HeldIsLive, WorksOn
    <2> QED
        BY <1>0, <2>1, <2>2
<1>6. ASSUME NEW c \in Clients, req[c].op # "idle", req[c].snap = rows[req[c].job],
             CommitRequest(c)
      PROVE  rows'[j].status # "pending"
    <2>0. req[c].job \in Jobs /\ rows[req[c].job] \in Row
        BY <1>0, <1>6, RequestRows
    <2>1. CASE req[c].job # j
        BY <1>0, <1>6, <2>1 DEF CommitRequest
    <2>2. CASE req[c].job = j
        <3>1. req[c].op = "cancel"
            <4>1. req[c].op # "retry"
                BY <1>0, <1>6, <2>2 DEF RetriesFinished
            <4> QED
                BY <1>0, <1>6, <4>1 DEF TypeOK, Requests
        <3>2. rows'[j] = cancel_job(rows[j], rows[j])
            BY <1>0, <1>6, <2>2, <3>1 DEF CommitRequest
        <3> QED
            BY <1>0, <3>2, CancelFacts
    <2> QED
        BY <2>1, <2>2
<1> QED
    BY <1>1, <1>2, <1>3, <1>4, <1>5, <1>6
    DEF TimelyNext, WorkerStep, SelectCandidate, LoadJob, HandlerReturns, HandlerRaises,
        WorkerDown, BeginRequest, vars

\* On timely schedules retry_job, recover_stale_jobs and execute_job never send
\* a completed job back to the queue.
THEOREM JobsCompletedStaysDone == TimelySpec => CompletedStaysDone
<1>1. TimelyInv /\ [TimelyNext]_vars =>
        [\A j \in Jobs : rows[j].status = "completed" => rows'[j].status # "pending"]_vars
    BY StepCompleted
<1> QED
    BY <1>1, JobsTimelyInv, PTL DEF TimelySpec, CompletedStaysDone

-----------------------------------------------------------------------------
(***************************************************************************)
(* On timely schedules the commits of jobs.py implement JobQueue: initial  *)
(* states map to its initial states, and under TimelyInv every step maps   *)
(* to one of its steps or a stutter.                                       *)
(***************************************************************************)
\* One row changes: what is seen of the queue changes there.
LEMMA SeenChange ==
    ASSUME TypeOK, NEW j \in Jobs, NEW new, rows' = [rows EXCEPT ![j] = new]
    PROVE  SeenQueue' = [SeenQueue EXCEPT ![j] = Seen(new)]
BY DEF TypeOK, SeenQueue

\* What is seen of one row.
LEMMA SeenFields ==
    ASSUME NEW j \in Jobs
    PROVE  /\ SeenQueue[j] = Seen(rows[j])
           /\ SeenQueue[j].status = rows[j].status
           /\ SeenQueue[j].attempts = rows[j].attempts
BY DEF SeenQueue, Seen

\* The rows that look the same look the same to the users of the queue.
LEMMA SeenStutter ==
    ASSUME UNCHANGED rows
    PROVE  UNCHANGED SeenQueue
BY DEF SeenQueue

\* A row that keeps its attempts is seen to change its status only.
LEMMA StatusSeen ==
    ASSUME NEW j \in Jobs, NEW new, new.attempts = rows[j].attempts
    PROVE  Seen(new) = [SeenQueue[j] EXCEPT !.status = new.status]
BY DEF Seen, SeenQueue

\* The effect of recover_stale_jobs on a row is a failure of its run.
LEMMA RecoveredSeen ==
    ASSUME NEW row \in Row
    PROVE  Seen(Recovered(row)) =
               IF row.status = "running" /\ row.claim = "stale"
               THEN Abstract!AfterFailure(Seen(row)) ELSE Seen(row)
<1>1. CASE ~(row.status = "running" /\ row.claim = "stale")
    BY <1>1 DEF Recovered
<1>2. CASE row.status = "running" /\ row.claim = "stale"
    <2>1. Recovered(row).attempts = row.attempts
        BY RecoveredFacts
    <2>2. Recovered(row).status = IF row.attempts >= MaxAttempts THEN "failed" ELSE "pending"
        <3>1. CASE row.attempts >= MaxAttempts
            <4>1. Recovered(row) = [row EXCEPT !.status = "failed"]
                BY <1>2, <3>1 DEF Recovered
            <4> QED
                BY <3>1, <4>1 DEF Row
        <3>2. CASE ~(row.attempts >= MaxAttempts)
            <4> DEFINE first == [row EXCEPT !.status = "pending"]
            <4>1. Recovered(row) = [first EXCEPT !.claim = "none", !.due = TRUE]
                BY <1>2, <3>2 DEF Recovered
            <4>2. first.status = "pending" /\ DOMAIN first = DOMAIN row
                BY DEF Row
            <4> HIDE DEF first
            <4> QED
                BY <3>2, <4>1, <4>2 DEF Row
        <3> QED
            BY <3>1, <3>2
    <2> QED
        BY <1>2, <2>1, <2>2 DEF Seen, Abstract!AfterFailure
<1> QED
    BY <1>1, <1>2

\* The commit of execute_job's except branch over a running row: the job is
\* cancelled, fails, goes back to the queue, or the row keeps its status.
LEMMA FailedStatus ==
    ASSUME NEW row \in Row, NEW loaded \in Row
    PROVE  \/ FailedRow(row, loaded).status \in {row.status, "cancelled"}
           \/ FailedRow(row, loaded).status =
                  IF loaded.attempts >= MaxAttempts THEN "failed" ELSE "pending"
<1>1. CASE FinalFailure(loaded)
    <2> DEFINE a == IF loaded.cancel THEN "cancelled" ELSE "failed"
               s == Written(row.status, loaded.status, a)
    <2>1. FailedRow(row, loaded) = [row EXCEPT !.status = s]
        BY <1>1 DEF FailedRow
    <2>2. s \in {row.status, a}
        BY WrittenValue
    <2>3. a = "cancelled" \/ (a = "failed" /\ loaded.attempts >= MaxAttempts)
        BY <1>1, Zenon DEF FinalFailure
    <2> HIDE DEF a, s
    <2>4. FailedRow(row, loaded).status = s
        BY <2>1 DEF Row
    <2> QED
        BY <2>2, <2>3, <2>4
<1>2. CASE ~FinalFailure(loaded)
    <2> DEFINE s == Written(row.status, loaded.status, "pending")
               k == Written(row.claim, loaded.claim, "none")
               first == [row EXCEPT !.status = s]
    <2>1. FailedRow(row, loaded) = [first EXCEPT !.due = FALSE, !.claim = k]
        BY <1>2 DEF FailedRow
    <2>2. s \in {row.status, "pending"}
        BY WrittenValue
    <2> HIDE DEF s, k
    <2>3. first.status = s /\ DOMAIN first = DOMAIN row
        BY DEF Row
    <2> HIDE DEF first
    <2>4. FailedRow(row, loaded).status = s
        BY <2>1, <2>3 DEF Row
    <2>5. ~(loaded.attempts >= MaxAttempts)
        BY <1>2 DEF FinalFailure
    <2> QED
        BY <2>2, <2>4, <2>5
<1> QED
    BY <1>1, <1>2

\* retry_job of an up-to-date copy of a finished row.
LEMMA RetriedStatus ==
    ASSUME NEW row \in Row
    PROVE  retry_job(row, row).status = "pending"
<1> DEFINE s == Written(row.status, row.status, "pending")
           f == Written(row.cancel, row.cancel, FALSE)
           k == Written(row.claim, row.claim, "none")
           n == Written(row.attempts, row.attempts, 0)
           first == [row EXCEPT !.status = s]
<1>1. retry_job(row, row) = [first EXCEPT !.cancel = f, !.due = TRUE,
                                          !.claim = k, !.attempts = n]
    BY DEF retry_job
<1>2. s = "pending"
    BY DEF Written
<1> HIDE DEF s, f, k, n
<1>3. first.status = "pending" /\ DOMAIN first = DOMAIN row
    BY <1>2 DEF Row
<1> HIDE DEF first
<1> QED
    BY <1>1, <1>3 DEF Row

-----------------------------------------------------------------------------
\* A commit of execute_job over a running row looks like the end of its run.
LEMMA CommitSeen ==
    ASSUME TypeOK, NEW w \in Workers, NEW new, Commit(w, new),
           held[w] \in Jobs, rows[held[w]].status = "running",
           new.attempts = rows[held[w]].attempts,
           \/ new.status \in {"running", "cancelled", "completed"}
           \/ new.status = IF rows[held[w]].attempts >= MaxAttempts
                           THEN "failed" ELSE "pending"
    PROVE  Abstract!QueueNext \/ UNCHANGED SeenQueue
<1> DEFINE j == held[w]
<1>1. SeenQueue' = [SeenQueue EXCEPT ![j] = Seen(new)]
    BY SeenChange DEF Commit
<1>2. Seen(new) = [SeenQueue[j] EXCEPT !.status = new.status]
    BY StatusSeen
<1>3. /\ SeenQueue[j] = [status |-> "running", attempts |-> rows[j].attempts]
      /\ SeenQueue = [i \in Jobs |-> SeenQueue[i]]
    BY DEF SeenQueue, Seen
<1> HIDE DEF j
<1>4. CASE new.status = "running"
    BY <1>1, <1>2, <1>3, <1>4
<1>5. CASE new.status = "cancelled"
    <2>1. Abstract!Cancel(j)
        BY <1>1, <1>2, <1>3, <1>5 DEF Abstract!Cancel
    <2> QED
        BY <2>1 DEF Abstract!QueueNext, j
<1>6. CASE new.status = "completed"
    <2>1. Abstract!Complete(j)
        BY <1>1, <1>2, <1>3, <1>6 DEF Abstract!Complete
    <2> QED
        BY <2>1 DEF Abstract!QueueNext, j
<1>7. CASE new.status = IF rows[j].attempts >= MaxAttempts THEN "failed" ELSE "pending"
    <2>1. Seen(new) = Abstract!AfterFailure(SeenQueue[j])
        BY <1>2, <1>3, <1>7 DEF Abstract!AfterFailure
    <2>2. SeenQueue[j].status = "running"
        BY <1>3
    <2>3. SeenQueue' = [SeenQueue EXCEPT ![j] = Abstract!AfterFailure(SeenQueue[j])]
        BY <1>1, <2>1, Zenon
    <2>4. Abstract!Fail(j)
        BY <2>2, <2>3, Zenon DEF Abstract!Fail
    <2> QED
        BY <2>4 DEF Abstract!QueueNext, j
<1> QED
    BY <1>4, <1>5, <1>6, <1>7 DEF j

\* recover_stale_jobs fails the runs whose claims expired, all in one step.
LEMMA RecoverySeen ==
    ASSUME TypeOK, recover_stale_jobs
    PROVE  Abstract!QueueNext
<1> DEFINE lost == {j \in Jobs : rows[j].status = "running" /\ rows[j].claim = "stale"}
<1>1. SeenQueue' = [j \in Jobs |-> IF j \in lost THEN Abstract!AfterFailure(SeenQueue[j])
                                                 ELSE SeenQueue[j]]
    <2>1. \A j \in Jobs : rows'[j] = Recovered(rows[j]) /\ rows[j] \in Row
        BY DEF recover_stale_jobs, TypeOK
    <2>2. \A j \in Jobs : Seen(rows'[j]) = IF j \in lost
                THEN Abstract!AfterFailure(Seen(rows[j])) ELSE Seen(rows[j])
        BY <2>1, RecoveredSeen
    <2>3. SeenQueue' = [j \in Jobs |-> Seen(rows'[j])]
        BY DEF SeenQueue, Seen
    <2>4. \A j \in Jobs : SeenQueue[j] = Seen(rows[j])
        BY SeenFields
    <2> HIDE DEF lost
    <2> QED
        BY <2>2, <2>3, <2>4
<1>2. \A j \in lost : SeenQueue[j].status = "running"
    BY SeenFields
<1>3. Abstract!Recover(lost)
    <2> HIDE DEF lost
    <2> QED
        BY <1>1, <1>2 DEF Abstract!Recover
<1> QED
    BY <1>3 DEF Abstract!QueueNext

\* A request that commits over the row it loaded cancels or retries the job.
LEMMA RequestSeen ==
    ASSUME TypeOK, RetriesFinished, NEW c \in Clients, req[c].op # "idle",
           req[c].snap = rows[req[c].job], CommitRequest(c)
    PROVE  Abstract!QueueNext \/ UNCHANGED SeenQueue
<1> DEFINE j == req[c].job
<1>1. j \in Jobs /\ rows[j] \in Row /\ req[c].op \in {"cancel", "retry"}
    BY RequestRows DEF TypeOK, Requests
<1>2. SeenQueue[j] = Seen(rows[j]) /\ SeenQueue[j].status = rows[j].status
    BY <1>1, SeenFields
<1>3. SeenQueue = [i \in Jobs |-> SeenQueue[i]]
    BY DEF SeenQueue
<1>4. CASE req[c].op = "cancel"
    <2> DEFINE new == cancel_job(rows[j], rows[j])
    <2>1. rows' = [rows EXCEPT ![j] = new]
        BY <1>1, <1>4 DEF CommitRequest, TypeOK
    <2>2. /\ new.attempts = rows[j].attempts
          /\ new.status \in {rows[j].status, "cancelled"}
          /\ rows[j].status # "pending" => new.status = rows[j].status
        BY <1>1, CancelFacts
    <2> HIDE DEF new
    <2>3. SeenQueue' = [SeenQueue EXCEPT ![j] = Seen(new)]
        BY <1>1, <2>1, SeenChange
    <2>4. Seen(new) = [SeenQueue[j] EXCEPT !.status = new.status]
        BY <1>1, <2>2, StatusSeen
    <2>5. CASE new.status = rows[j].status
        <3>1. Seen(new) = SeenQueue[j]
            BY <1>2, <2>2, <2>5 DEF Seen
        <3> QED
            BY <1>3, <2>3, <3>1
    <2>6. CASE new.status = "cancelled" /\ new.status # rows[j].status
        <3>1. Abstract!Cancel(j)
            BY <1>1, <1>2, <2>2, <2>3, <2>4, <2>6 DEF Abstract!Cancel, SeenQueue
        <3> QED
            BY <1>1, <3>1 DEF Abstract!QueueNext
    <2> QED
        BY <2>2, <2>5, <2>6
<1>5. CASE req[c].op = "retry"
    <2> DEFINE new == retry_job(rows[j], rows[j])
    <2>1. rows' = [rows EXCEPT ![j] = new]
        BY <1>1, <1>5 DEF CommitRequest, TypeOK
    <2>2. new.attempts = 0 /\ new.status = "pending"
        BY <1>1, RetryFacts, RetriedStatus
    <2> HIDE DEF new
    <2>3. rows[j].status \in {"failed", "cancelled"}
        BY <1>5 DEF RetriesFinished
    <2>4. Seen(new) = [status |-> "pending", attempts |-> 0]
        BY <2>2 DEF Seen
    <2>5. SeenQueue' = [SeenQueue EXCEPT ![j] = Seen(new)]
        BY <1>1, <2>1, SeenChange
    <2>6. Abstract!Retry(j)
        BY <1>2, <2>3, <2>4, <2>5, Zenon DEF Abstract!Retry
    <2> QED
        BY <1>1, <2>6 DEF Abstract!QueueNext
<1> QED
    BY <1>1, <1>4, <1>5

-----------------------------------------------------------------------------
\* Every timely step is a step of the abstract queue or invisible in it.
LEMMA StepSeen == TimelyInv /\ [TimelyNext]_vars => [Abstract!QueueNext]_SeenQueue
<1> SUFFICES ASSUME TimelyInv, [TimelyNext]_vars
             PROVE  Abstract!QueueNext \/ UNCHANGED SeenQueue
    OBVIOUS
<1>0. TypeOK /\ HeldIsLive /\ CopiesCount /\ RetriesFinished /\ rows \in [Jobs -> Row]
    BY DEF TimelyInv, TypeOK
<1>1. CASE UNCHANGED rows
    BY <1>1, SeenStutter
<1>2. ASSUME NEW j \in Jobs, enqueue_job(j)
      PROVE  Abstract!QueueNext
    <2> DEFINE new == [AbsentRow EXCEPT !.status = "pending", !.due = TRUE]
    <2>1. rows' = [rows EXCEPT ![j] = new] /\ rows[j].status = "absent"
        BY <1>2 DEF enqueue_job
    <2>2. Seen(new) = [status |-> "pending", attempts |-> 0]
        BY EnqueuedFacts DEF Seen
    <2> HIDE DEF new
    <2>3. SeenQueue' = [SeenQueue EXCEPT ![j] = Seen(new)]
        BY <1>0, <2>1, SeenChange
    <2>4. SeenQueue[j].status = "absent"
        BY <2>1, SeenFields
    <2>5. Abstract!Enqueue(j)
        BY <2>2, <2>3, <2>4, Zenon DEF Abstract!Enqueue
    <2> QED
        BY <2>5 DEF Abstract!QueueNext
<1>3. ASSUME NEW j \in Jobs, BackoffElapses(j) \/ ClaimExpires(j)
      PROVE  UNCHANGED SeenQueue
    <2>1. rows[j] \in Row
        BY <1>0
    <2>2. \A i \in Jobs : Seen(rows'[i]) = Seen(rows[i])
        BY <1>0, <1>3, <2>1 DEF BackoffElapses, ClaimExpires, Row, Seen
    <2> QED
        BY <2>2 DEF SeenQueue, Seen
<1>4. ASSUME NEW w \in Workers, WorkerStart(w)
      PROVE  Abstract!QueueNext
    BY <1>0, <1>4, RecoverySeen DEF WorkerStart
<1>5. ASSUME NEW w \in Workers, ClaimUpdate(w)
      PROVE  Abstract!QueueNext \/ UNCHANGED SeenQueue
    <2> DEFINE j == held[w]
               new == ClaimedRow(rows[j])
    <2>1. j \in Jobs /\ rows[j] \in Row
        BY <1>0, <1>5, WorkerRows DEF ClaimUpdate
    <2>2. CASE ClaimGuard(j)
        <3>1. rows' = [rows EXCEPT ![j] = new] /\ rows[j].status = "pending"
            BY <1>5, <2>2 DEF ClaimUpdate, ClaimGuard
        <3>2. new.status = "running" /\ new.attempts = rows[j].attempts + 1
            BY <2>1, ClaimedFacts
        <3> HIDE DEF new, j
        <3>3. Seen(new) = [status |-> "running", attempts |-> SeenQueue[j].attempts + 1]
            BY <2>1, <3>2, SeenFields DEF Seen
        <3>4. SeenQueue' = [SeenQueue EXCEPT ![j] = Seen(new)]
            BY <1>0, <2>1, <3>1, SeenChange
        <3>5. SeenQueue[j].status = "pending"
            BY <2>1, <3>1, SeenFields
        <3>6. Abstract!Claim(j)
            BY <3>3, <3>4, <3>5, Zenon DEF Abstract!Claim
        <3> QED
            BY <2>1, <3>6 DEF Abstract!QueueNext
    <2>3. CASE ~ClaimGuard(j)
        BY <1>5, <2>3, SeenStutter DEF ClaimUpdate
    <2> QED
        BY <2>2, <2>3
<1>6. ASSUME NEW w \in Workers, CommitCancelled(w) \/ CommitFinished(w) \/ CommitFailed(w)
      PROVE  Abstract!QueueNext \/ UNCHANGED SeenQueue
    <2>0. /\ held[w] \in Jobs /\ rows[held[w]] \in Row /\ snap[w] \in Row
          /\ rows[held[w]].status = "running"
          /\ snap[w].attempts = rows[held[w]].attempts
        BY <1>0, <1>6, WorkerRows
        DEF CommitCancelled, CommitFinished, CommitFailed, HeldIsLive, CopiesCount,
            WorksOn, Working
    <2>1. CASE CommitCancelled(w)
        BY <1>0, <2>0, <2>1, EndedFacts, CommitSeen DEF CommitCancelled
    <2>2. CASE CommitFinished(w)
        BY <1>0, <2>0, <2>2, EndedFacts, CommitSeen DEF CommitFinished
    <2>3. CASE CommitFailed(w)
        BY <1>0, <2>0, <2>3, FailedFacts, FailedStatus, CommitSeen DEF CommitFailed
    <2> QED
        BY <1>6, <2>1, <2>2, <2>3
<1>7. ASSUME NEW c \in Clients, req[c].op # "idle", req[c].snap = rows[req[c].job],
             CommitRequest(c)
      PROVE  Abstract!QueueNext \/ UNCHANGED SeenQueue
    BY <1>0, <1>7, RequestSeen
<1> QED
    BY <1>1, <1>2, <1>3, <1>4, <1>5, <1>6, <1>7
    DEF TimelyNext, WorkerStep, SelectCandidate, LoadJob, HandlerReturns, HandlerRaises,
        WorkerDown, BeginRequest, vars

\* Initially the queue is empty.
LEMMA InitSeen == Init => Abstract!QueueInit
BY DEF Init, AbsentRow, SeenQueue, Seen, Abstract!QueueInit, Abstract!AbsentJob

\* As long as no worker outlives its claim and no request commits over a row
\* that changed, jobs.py implements the queue that its users rely on.
THEOREM JobsImplementQueue == TimelySpec => ImplementsJobQueue
    BY InitSeen, InitTimely, StepSeen, StepTimely, PTL
    DEF TimelySpec, ImplementsJobQueue, Abstract!QueueSpec


-----------------------------------------------------------------------------
(***************************************************************************)
(* Deliveries, on timely schedules.                                        *)
(***************************************************************************)
AtHandler == {"handling", "finishing", "failing"}

\* Where deliver_integration is when its caller, execute_job, is at a place; only
\* a handler has a copy of the delivery.
StepShapes ==
    \A w \in Workers :
        /\ pc[w] = "finishing" => step[w] = "returned"
        /\ pc[w] = "failing" => step[w] \in {"raised", "raised-early"}
        /\ pc[w] = "handling" <=> step[w] # "none" /\ pc[w] \notin {"finishing", "failing"}
        /\ step[w] = "none" => copy[w] = "absent"

\* The session of a worker at work has loaded a running job.
CopiesRunning ==
    \A w \in Workers :
        pc[w] \in {"cancelling", "handling", "finishing", "failing"} => snap[w].status = "running"

\* A job has its delivery from the beginning, and the delivery is committed first.
PayloadsKnown ==
    \A j \in Jobs :
        /\ rows[j].status = "absent" => payload[j] = 0
        /\ rows[j].status # "absent" =>
            payload[j] \in Deliveries /\ deliveries[payload[j]] # "absent"

\* A handler that was answered, or that found the delivery delivered, knows that
\* it was received.
AnswersKnown ==
    \A w \in Workers : step[w] \in {"accepted", "returned"} => Target(w) \in received

JobsFor(d) == {j \in Jobs : payload[j] = d}
Alone(d) == \E j \in Jobs : JobsFor(d) = {j}

\* The only job of a delivered delivery does not send it again.
DeliveredRests ==
    \A d \in Deliveries : deliveries[d] = "delivered" /\ Alone(d) =>
        \A w \in Workers : step[w] \notin {"none", "lookup", "returned"} => Target(w) # d

\* As long as no worker dies, a running job has a worker, ...
RunningHeld ==
    \A j \in Jobs : rows[j].status = "running" => \E w \in Workers : WorksOn(w, j)

\* ... one that will not leave a delivery failed: it has not sent the request yet,
\* or read the delivery when it was not a dead letter.
Minds(w) ==
    \/ pc[w] \in {"claimed", "cancelling"}
    \/ pc[w] = "handling" /\ step[w] \notin {"returned", "raised-early"}
    \/ (pc[w] = "failing" \/ step[w] = "raised-early")
       /\ copy[w] # "dead-letter"

\* ... A failed delivery has a job that minds it, ...
FailedMinded ==
    \A d \in Deliveries : deliveries[d] = "failed" =>
        \E j \in Jobs :
            /\ payload[j] = d
            /\ \/ rows[j].status \in {"pending", "cancelled"}
               \/ \E w \in Workers : WorksOn(w, j) /\ Minds(w)

\* ... and a delivery that was never attempted has no failed job.
PendingFresh ==
    \A d \in Deliveries : deliveries[d] = "pending" =>
        /\ \A j \in Jobs : payload[j] = d => rows[j].status # "failed"
        /\ \A w \in Workers : step[w] # "none" /\ Target(w) = d => copy[w] # "dead-letter"

DeliveryInv ==
    /\ TimelyInv
    /\ DeliveryTypeOK
    /\ StepShapes
    /\ CopiesRunning
    /\ PayloadsKnown
    /\ AnswersKnown
    /\ CompletedWasReceived
    /\ DeliveredRests
    /\ used.crashes = 0 => RunningHeld /\ FailedMinded /\ PendingFresh


\* A step of a delivery is a step of the queue below it, or none.
LEMMA DeliveryIsTimely == [TimelyDeliveryNext]_allVars => [TimelyNext]_vars
<1> SUFFICES ASSUME [TimelyDeliveryNext]_allVars PROVE TimelyNext \/ UNCHANGED vars
    OBVIOUS
<1>1. CASE Produce
    BY <1>1 DEF Produce, queue_integration_event, replay_delivery, EnqueueDeliver,
                disable_integration_endpoint, TimelyNext
<1>2. CASE \E j \in Jobs :
            BackoffElapses(j) \/ ((\A w \in Workers : ~WorksOn(w, j)) /\ ClaimExpires(j))
    BY <1>2 DEF TimelyNext
<1>3. ASSUME NEW w \in Workers, DeliverySteps(w)
      PROVE  WorkerStep(w) \/ WorkerDown(w) \/ UNCHANGED vars
    BY <1>3 DEF DeliverySteps, StartDelivery, LookupDelivery, CommitAttempt, Send, CommitAnswer,
                DeliveryReturns, DeliveryRaises, DeliveryFails, DeliveryEnds, QueueOnly, WorkerStep
<1>4. ASSUME NEW c \in Clients, req[c].op # "idle" => req[c].snap = rows[req[c].job],
             Requested(c)
      PROVE  TimelyNext
    BY <1>4 DEF Requested, CommitRequest, TimelyNext
<1>5. CASE UNCHANGED allVars
    BY <1>5 DEF allVars
<1> QED
    BY <1>1, <1>2, <1>3, <1>4, <1>5 DEF TimelyDeliveryNext, TimelyNext

LEMMA DeliveryTimely == TimelyDeliverySpec => TimelySpec
<1>1. DeliveryInit => Init
    BY DEF DeliveryInit
<1> QED
    BY <1>1, DeliveryIsTimely, PTL DEF TimelyDeliverySpec, TimelySpec

\* A worker in a handler works on a running job, on which no other worker is.
LEMMA HandlersWork ==
    ASSUME DeliveryInv, NEW w \in Workers, step[w] # "none"
    PROVE  /\ pc[w] \in AtHandler /\ held[w] \in Jobs /\ WorksOn(w, held[w])
           /\ rows[held[w]].status = "running" /\ rows[held[w]] \in Row
           /\ Target(w) \in Deliveries /\ deliveries[Target(w)] # "absent"
           /\ \A v \in Workers : v # w => ~WorksOn(v, held[w])
<1>1. pc[w] \in AtHandler
    BY DEF DeliveryInv, StepShapes, AtHandler
<1>2. held[w] \in Jobs /\ WorksOn(w, held[w]) /\ rows[held[w]] \in Row
    BY <1>1 DEF DeliveryInv, TimelyInv, TypeOK, AtHandler, WorksOn, Working
<1>3. rows[held[w]].status = "running"
    BY <1>2 DEF DeliveryInv, TimelyInv, HeldIsLive
<1>4. Target(w) \in Deliveries /\ deliveries[Target(w)] # "absent"
    BY <1>2, <1>3 DEF DeliveryInv, PayloadsKnown, Target
<1>5. \A v \in Workers : v # w => ~WorksOn(v, held[w])
    BY <1>2 DEF DeliveryInv, TimelyInv, ExclusiveRun
<1> QED
    BY <1>1, <1>2, <1>3, <1>4, <1>5

LEMMA DeliveryParts ==
    ASSUME DeliveryInv
    PROVE  /\ deliveries \in [Deliveries -> DeliveryStatus]
           /\ payload \in [Jobs -> Deliveries \cup {0}]
           /\ endpointOn \in BOOLEAN
           /\ step \in [Workers -> Steps] /\ copy \in [Workers -> DeliveryStatus]
           /\ received \subseteq Deliveries
BY DEF DeliveryInv, DeliveryTypeOK

\* In a handler, away from the queue: the step the worker w gets to, the copy it
\* has and the status its delivery gets.
HandlerMoves(w, s, c, d) ==
    /\ UNCHANGED <<vars, payload, endpointOn>>
    /\ pc[w] = "handling"
    /\ s # "none" /\ step' = [step EXCEPT ![w] = s]
    /\ copy' = [copy EXCEPT ![w] = c]
    /\ d # "absent" /\ deliveries' = [deliveries EXCEPT ![Target(w)] = d]
    /\ received \subseteq received' /\ received' \subseteq Deliveries
    /\ s \in {"accepted", "returned"} \/ d = "delivered" => Target(w) \in received'
    /\ d = "delivered" /\ Alone(Target(w)) => s \in {"lookup", "returned"}
    /\ d = "failed" => s # "returned" /\ (s = "raised-early" => c # "dead-letter")
    /\ d = "pending" => deliveries[Target(w)] = "pending"
                        /\ (c = copy[w] \/ c # "dead-letter")

LEMMA HandlerKeeps ==
    ASSUME DeliveryInv, TimelyInv', NEW w \in Workers, NEW s \in Steps,
           NEW c \in DeliveryStatus, NEW d \in DeliveryStatus, HandlerMoves(w, s, c, d)
    PROVE  DeliveryInv'
<1> USE DEF HandlerMoves
<1>1. step[w] # "none" /\ step[w] \in Steps
    BY DeliveryParts DEF DeliveryInv, StepShapes
<1>2. PICK j, t : j = held[w] /\ t = Target(w)
    OBVIOUS
<1>3. /\ j \in Jobs /\ WorksOn(w, j) /\ t \in Deliveries /\ deliveries[t] # "absent"
      /\ t = payload[j] /\ \A v \in Workers : v # w => ~WorksOn(v, j)
    BY <1>1, <1>2, HandlersWork DEF Target
<1>4. /\ step'[w] = s /\ copy'[w] = c /\ deliveries'[t] = d
      /\ \A v \in Workers : v # w => step'[v] = step[v] /\ copy'[v] = copy[v]
      /\ \A e \in Deliveries : e # t => deliveries'[e] = deliveries[e]
    BY <1>2, <1>3, DeliveryParts
<1>5. DeliveryTypeOK'
    BY <1>2, <1>3, DeliveryParts DEF DeliveryTypeOK, Jobs
<1>6. UNCHANGED <<rows, pc, held, snap, used, payload>>
    BY DEF vars
<1>7. \A v \in Workers : Target(v)' = Target(v)
    BY <1>6 DEF Target
<1>8. StepShapes' /\ CopiesRunning'
    BY <1>4, <1>6 DEF DeliveryInv, StepShapes, CopiesRunning
<1>9. PayloadsKnown'
    BY <1>3, <1>4, <1>6 DEF DeliveryInv, PayloadsKnown
<1>10. AnswersKnown'
    BY <1>2, <1>4, <1>7 DEF DeliveryInv, AnswersKnown
<1>11. CompletedWasReceived'
    BY <1>2, <1>4, <1>6 DEF DeliveryInv, CompletedWasReceived
<1>12. \A e \in Deliveries : Alone(e)' <=> Alone(e)
    BY <1>6 DEF Alone, JobsFor
<1>13. DeliveredRests'
    <2> SUFFICES ASSUME NEW e \in Deliveries, deliveries'[e] = "delivered", Alone(e),
                        NEW v \in Workers, step'[v] \notin {"none", "lookup", "returned"}
                 PROVE  Target(v) # e
        BY <1>7, <1>12 DEF DeliveredRests
    <2>1. CASE e # t
        BY <1>2, <1>4, <2>1 DEF DeliveryInv, DeliveredRests
    <2>2. CASE e = t
        <3>1. v # w /\ step[v] # "none"
            BY <1>2, <1>4, <2>2
        <3>2. held[v] \in Jobs /\ held[v] # j
            BY <1>3, <3>1, HandlersWork
        <3> QED
            BY <1>3, <2>2, <3>2 DEF Alone, JobsFor, Target
    <2> QED
        BY <2>1, <2>2
<1>14. ASSUME used'.crashes = 0 PROVE RunningHeld' /\ FailedMinded' /\ PendingFresh'
    <2>1. RunningHeld /\ FailedMinded /\ PendingFresh
        BY <1>6, <1>14 DEF DeliveryInv
    <2>2. \A v \in Workers, i \in Jobs : WorksOn(v, i)' <=> WorksOn(v, i)
        BY <1>6 DEF WorksOn
    <2>3. RunningHeld'
        BY <1>6, <2>1, <2>2 DEF RunningHeld
    <2>4. FailedMinded'
        <3> SUFFICES ASSUME NEW e \in Deliveries, deliveries'[e] = "failed"
                     PROVE  \E i \in Jobs :
                                /\ payload[i] = e
                                /\ \/ rows[i].status \in {"pending", "cancelled"}
                                   \/ \E v \in Workers : WorksOn(v, i) /\ Minds(v)'
            BY <1>6, <2>2 DEF FailedMinded
        <3>1. CASE e = t
            <4>1. Minds(w)'
                BY <1>4, <1>6, <3>1 DEF Minds
            <4> QED
                BY <1>3, <3>1, <4>1
        <3>2. CASE e # t
            <4>1. PICK i \in Jobs :
                    /\ payload[i] = e
                    /\ \/ rows[i].status \in {"pending", "cancelled"}
                       \/ \E v \in Workers : WorksOn(v, i) /\ Minds(v)
                BY <1>4, <2>1, <3>2 DEF FailedMinded
            <4>2. \A v \in Workers : WorksOn(v, i) => v # w
                BY <1>3, <3>2, <4>1 DEF WorksOn
            <4>3. \A v \in Workers : v # w /\ Minds(v) => Minds(v)'
                BY <1>4, <1>6 DEF Minds
            <4> QED
                BY <4>1, <4>2, <4>3
        <3> QED
            BY <3>1, <3>2
    <2>5. PendingFresh'
        BY <1>1, <1>2, <1>4, <1>6, <1>7, <2>1 DEF PendingFresh
    <2> QED
        BY <2>3, <2>4, <2>5
<1> QED
    BY <1>5, <1>8, <1>9, <1>10, <1>11, <1>13, <1>14 DEF DeliveryInv


LEMMA LooksDeliveryUp ==
    ASSUME DeliveryInv, TimelyInv', NEW w \in Workers, LookupDelivery(w)
    PROVE  DeliveryInv'
<1>1. pc[w] = "handling" /\ step[w] = "lookup"
      /\ UNCHANGED <<vars, deliveries, payload, endpointOn, received>>
    BY DEF LookupDelivery, AtStep
<1>2. PICK t \in Deliveries : t = Target(w) /\ deliveries[t] # "absent"
    BY <1>1, HandlersWork
<1>3. PICK d \in DeliveryStatus : d = deliveries[t] /\ d # "absent"
    BY <1>2, DeliveryParts
<1>4. PICK s \in Steps :
        /\ s = LookupOutcome(d) /\ s \in {"returned", "prepared", "raised-early"}
        /\ step' = [step EXCEPT ![w] = s] /\ copy' = [copy EXCEPT ![w] = d]
    BY <1>2, <1>3 DEF LookupDelivery, LookupOutcome, Steps
<1>5. s = "returned" <=> d = "delivered"
    BY <1>4 DEF LookupOutcome
<1>6. deliveries' = [deliveries EXCEPT ![Target(w)] = d]
    BY <1>1, <1>2, <1>3, DeliveryParts
<1>7. d = "delivered" => t \in received
    BY <1>3 DEF DeliveryInv, CompletedWasReceived
<1>8. s # "none" /\ s # "accepted"
    BY <1>4
<1>9. received \subseteq received' /\ received' \subseteq Deliveries
    BY <1>1, DeliveryParts
<1>10. /\ s \in {"accepted", "returned"} \/ d = "delivered" => Target(w) \in received'
       /\ d = "delivered" /\ Alone(Target(w)) => s \in {"lookup", "returned"}
       /\ d = "failed" => s # "returned" /\ (s = "raised-early" => d # "dead-letter")
       /\ d = "pending" => deliveries[Target(w)] = "pending"
    BY <1>2, <1>3, <1>4, <1>5, <1>7, <1>8, <1>9
<1>11. HandlerMoves(w, s, d, d)
    BY <1>1, <1>3, <1>4, <1>6, <1>8, <1>9, <1>10 DEF HandlerMoves
<1> QED
    BY <1>11, HandlerKeeps

LEMMA AttemptKeeps ==
    ASSUME DeliveryInv, TimelyInv', NEW w \in Workers, CommitAttempt(w) \/ Send(w)
    PROVE  DeliveryInv'
<1>1. /\ pc[w] = "handling" /\ step[w] \in {"prepared", "sending"}
      /\ UNCHANGED <<vars, deliveries, payload, endpointOn, copy>>
    BY DEF CommitAttempt, Send, AtStep
<1>2. PICK t \in Deliveries : t = Target(w) /\ deliveries[t] # "absent"
    BY <1>1, HandlersWork
<1>3. PICK s \in Steps :
        /\ s \in {"sending", "accepted", "refused"}
        /\ step' = [step EXCEPT ![w] = s]
        /\ received' \in {received, received \cup {t}}
        /\ s = "accepted" => t \in received'
    BY <1>2 DEF CommitAttempt, Send, Steps
<1>4. PICK d \in DeliveryStatus : d = deliveries[t] /\ d # "absent"
    BY <1>2, DeliveryParts
<1>5. PICK c \in DeliveryStatus : c = copy[w]
    BY DeliveryParts
<1>6. /\ deliveries' = [deliveries EXCEPT ![Target(w)] = d] /\ copy' = [copy EXCEPT ![w] = c]
      /\ received \subseteq received' /\ received' \subseteq Deliveries
    BY <1>1, <1>2, <1>3, <1>4, <1>5, DeliveryParts
<1>7. d = "delivered" => t \in received /\ ~Alone(t)
    BY <1>1, <1>2, <1>4 DEF DeliveryInv, CompletedWasReceived, DeliveredRests
<1>8. s \notin {"none", "returned", "raised-early"}
    BY <1>3
<1>9. /\ s \in {"accepted", "returned"} \/ d = "delivered" => Target(w) \in received'
      /\ d = "delivered" /\ Alone(Target(w)) => s \in {"lookup", "returned"}
      /\ d = "failed" => s # "returned" /\ (s = "raised-early" => c # "dead-letter")
      /\ d = "pending" => deliveries[Target(w)] = "pending" /\ c = copy[w]
    BY <1>2, <1>3, <1>4, <1>5, <1>6, <1>7
<1>10. HandlerMoves(w, s, c, d)
    BY <1>1, <1>3, <1>4, <1>6, <1>8, <1>9 DEF HandlerMoves
<1> QED
    BY <1>10, HandlerKeeps

LEMMA AnswerKeeps ==
    ASSUME DeliveryInv, TimelyInv', NEW w \in Workers, CommitAnswer(w)
    PROVE  DeliveryInv'
<1>1. PICK d \in DeliveryStatus, s \in Steps :
        /\ pc[w] = "handling"
        /\ \/ d = "delivered" /\ s = "returned" /\ step[w] = "accepted"
           \/ d = "failed" /\ s = "raised" /\ step[w] = "refused"
        /\ deliveries' = [deliveries EXCEPT ![Target(w)] = d]
        /\ step' = [step EXCEPT ![w] = s]
        /\ UNCHANGED <<vars, payload, endpointOn, copy, received>>
    <2>1. CASE AtStep(w, "accepted")
        BY <2>1 DEF CommitAnswer, AtStep, DeliveryStatus, Steps
    <2>2. CASE AtStep(w, "refused")
        BY <2>2 DEF CommitAnswer, AtStep, DeliveryStatus, Steps
    <2> QED
        BY <2>1, <2>2 DEF CommitAnswer
<1>2. d = "delivered" => Target(w) \in received
    BY <1>1 DEF DeliveryInv, AnswersKnown
<1>3. PICK c \in DeliveryStatus : c = copy[w]
    BY DeliveryParts
<1>4. copy' = [copy EXCEPT ![w] = c]
    BY <1>1, <1>3, DeliveryParts
<1>5. HandlerMoves(w, s, c, d)
    BY <1>1, <1>2, <1>3, <1>4, DeliveryParts DEF HandlerMoves
<1> QED
    BY <1>5, HandlerKeeps

\* A new delivery has no job yet.
LEMMA CreatesDelivery ==
    ASSUME DeliveryInv, TimelyInv', NEW d \in Deliveries, Fresh(d),
           deliveries' = [deliveries EXCEPT ![d] = "pending"],
           UNCHANGED <<vars, payload, endpointOn, step, copy, received>>
    PROVE  DeliveryInv'
<1>1. deliveries[d] = "absent"
    BY DEF Fresh
<1>2. /\ deliveries'[d] = "pending"
      /\ \A e \in Deliveries : e # d => deliveries'[e] = deliveries[e]
    BY DeliveryParts
<1>3. UNCHANGED <<rows, pc, held, snap, used>>
    BY DEF vars
<1>4. DeliveryTypeOK'
    BY DeliveryParts DEF DeliveryTypeOK, DeliveryStatus, Jobs
<1>5. StepShapes' /\ CopiesRunning' /\ AnswersKnown'
    BY <1>3 DEF DeliveryInv, StepShapes, CopiesRunning, AnswersKnown, Target
<1>6. \A j \in Jobs : payload[j] # d
    BY <1>1 DEF DeliveryInv, PayloadsKnown, Deliveries
<1>7. \A w \in Workers : step[w] # "none" => Target(w) # d
    BY <1>1, HandlersWork
<1>8. PayloadsKnown' /\ CompletedWasReceived'
    BY <1>2, <1>3 DEF DeliveryInv, PayloadsKnown, CompletedWasReceived
<1>9. DeliveredRests'
    BY <1>2, <1>3 DEF DeliveryInv, DeliveredRests, Alone, JobsFor, Target
<1>10. ASSUME used'.crashes = 0 PROVE RunningHeld' /\ FailedMinded' /\ PendingFresh'
    <2>1. RunningHeld /\ FailedMinded /\ PendingFresh
        BY <1>3, <1>10 DEF DeliveryInv
    <2>2. RunningHeld' /\ FailedMinded'
        BY <1>2, <1>3, <2>1 DEF RunningHeld, FailedMinded, WorksOn, Minds
    <2>3. PendingFresh'
        BY <1>2, <1>3, <1>6, <1>7, <2>1 DEF PendingFresh, Target
    <2> QED
        BY <2>2, <2>3
<1> QED
    BY <1>4, <1>5, <1>8, <1>9, <1>10 DEF DeliveryInv

\* In the queue, away from the handlers: what a step may do to rows and workers.
NowClaims(j) == \E w \in Workers : pc'[w] = "claimed" /\ held'[w] = j

QueueMoves ==
    /\ UNCHANGED deliveryVars
    /\ \A w \in Workers :
        \/ pc'[w] = pc[w] /\ held'[w] = held[w] /\ snap'[w] = snap[w]
        \/ pc[w] \notin Working /\ pc'[w] \in {"down", "polling", "selected", "claimed"}
    /\ \A j \in Jobs :
        /\ rows'[j].status = "absent" <=> rows[j].status = "absent"
        /\ rows'[j].status = "completed" => rows[j].status = "completed"
    /\ used'.crashes = used.crashes
    /\ used.crashes = 0 => \A j \in Jobs :
        /\ rows'[j].status = "failed" => rows[j].status = "failed"
        /\ rows'[j].status = "running" => rows[j].status = "running" \/ NowClaims(j)
        /\ rows[j].status \in {"pending", "cancelled"} =>
            rows'[j].status \in {"pending", "cancelled"} \/ NowClaims(j)

LEMMA QueueKeeps ==
    ASSUME DeliveryInv, TimelyInv', QueueMoves
    PROVE  DeliveryInv'
<1> USE DEF QueueMoves
<1>1. UNCHANGED <<deliveries, payload, endpointOn, step, copy, received>>
    BY DEF deliveryVars
<1>2. \A w \in Workers : step[w] # "none" =>
        pc'[w] = pc[w] /\ held'[w] = held[w] /\ Target(w)' = Target(w)
    BY <1>1 DEF DeliveryInv, StepShapes, Working, Target
<1>3. \A w \in Workers, j \in Jobs : WorksOn(w, j) => pc'[w] = pc[w] /\ held'[w] = held[w]
    BY DEF WorksOn
<1>4. DeliveryTypeOK'
    BY <1>1 DEF DeliveryInv, DeliveryTypeOK
<1>5. StepShapes' /\ CopiesRunning'
    BY <1>1 DEF DeliveryInv, StepShapes, CopiesRunning, Working
<1>6. PayloadsKnown' /\ CompletedWasReceived'
    BY <1>1 DEF DeliveryInv, PayloadsKnown, CompletedWasReceived
<1>7. AnswersKnown'
    BY <1>1, <1>2 DEF DeliveryInv, AnswersKnown
<1>8. DeliveredRests'
    BY <1>1, <1>2 DEF DeliveryInv, DeliveredRests, Alone, JobsFor
<1>9. ASSUME used'.crashes = 0 PROVE RunningHeld' /\ FailedMinded' /\ PendingFresh'
    <2>1. used.crashes = 0 /\ RunningHeld /\ FailedMinded /\ PendingFresh
        BY <1>9 DEF DeliveryInv
    <2>2. \A j \in Jobs : NowClaims(j) => \E w \in Workers : WorksOn(w, j)' /\ Minds(w)'
        BY DEF NowClaims, WorksOn, Working, Minds
    <2>3. \A w \in Workers, j \in Jobs : WorksOn(w, j) => WorksOn(w, j)' /\ (Minds(w) => Minds(w)')
        BY <1>1, <1>3 DEF WorksOn, Minds
    <2>4. RunningHeld'
        BY <2>1, <2>2, <2>3 DEF RunningHeld
    <2>5. FailedMinded'
        <3> SUFFICES ASSUME NEW d \in Deliveries, deliveries[d] = "failed"
                     PROVE  \E j \in Jobs :
                                /\ payload[j] = d
                                /\ \/ rows'[j].status \in {"pending", "cancelled"}
                                   \/ \E w \in Workers : WorksOn(w, j)' /\ Minds(w)'
            BY <1>1 DEF FailedMinded
        <3>1. PICK j \in Jobs :
                /\ payload[j] = d
                /\ \/ rows[j].status \in {"pending", "cancelled"}
                   \/ \E w \in Workers : WorksOn(w, j) /\ Minds(w)
            BY <2>1 DEF FailedMinded
        <3> QED
            BY <2>1, <2>2, <2>3, <3>1
    <2>6. PendingFresh'
        BY <1>1, <1>2, <2>1 DEF PendingFresh
    <2> QED
        BY <2>4, <2>5, <2>6
<1> QED
    BY <1>4, <1>5, <1>6, <1>7, <1>8, <1>9 DEF DeliveryInv

\* A row that recovery does not fail or return to the queue stays as it is.
LEMMA RecoveredStatus ==
    ASSUME NEW row \in Row
    PROVE  \/ Recovered(row) = row
           \/ row.status = "running" /\ row.claim = "stale"
              /\ Recovered(row).status \in {"pending", "failed"}
<1>1. CASE ~(row.status = "running" /\ row.claim = "stale")
    BY <1>1 DEF Recovered
<1>2. CASE row.status = "running" /\ row.claim = "stale"
    <2>1. Seen(Recovered(row)) = Abstract!AfterFailure(Seen(row))
        BY <1>2, RecoveredSeen
    <2>2. PICK s \in {"pending", "failed"} :
            Abstract!AfterFailure(Seen(row)) = [Seen(row) EXCEPT !.status = s]
        BY DEF Abstract!AfterFailure
    <2>3. Seen(Recovered(row)).status = s
        BY <2>1, <2>2 DEF Seen
    <2> QED
        BY <1>2, <2>3 DEF Seen
<1> QED
    BY <1>1, <1>2

\* Starting a worker, polling and claiming leave the handlers alone.
LEMMA WorkerQueues ==
    ASSUME DeliveryInv, TimelyInv', NEW w \in Workers, QueueOnly(w)
    PROVE  DeliveryInv'
<1>0. TypeOK /\ HeldIsLive
    BY DEF DeliveryInv, TimelyInv
<1>1. /\ rows \in [Jobs -> Row] /\ pc \in [Workers -> Places]
      /\ held \in [Workers -> Jobs \cup {0}] /\ snap \in [Workers -> Row]
    BY <1>0 DEF TypeOK
<1>2. CASE WorkerStart(w)
    <2>1. \A j \in Jobs :
            \/ rows'[j] = rows[j]
            \/ rows[j].status = "running" /\ rows[j].claim = "stale"
               /\ rows'[j].status \in {"pending", "failed"}
        BY <1>1, <1>2, RecoveredStatus DEF WorkerStart, recover_stale_jobs
    <2>2. ASSUME used.crashes = 0, NEW j \in Jobs PROVE rows'[j] = rows[j]
        <3>1. rows[j].status = "running" => rows[j].claim = "live"
            BY <1>0, <2>2 DEF DeliveryInv, RunningHeld, HeldIsLive
        <3> QED
            BY <2>1, <3>1
    <2>3. /\ pc' = [pc EXCEPT ![w] = "polling"] /\ pc[w] = "down"
          /\ UNCHANGED <<held, snap, used>>
        BY <1>2 DEF WorkerStart
    <2>4. QueueMoves
        BY <1>1, <2>1, <2>2, <2>3 DEF QueueMoves, QueueOnly, Working
    <2> QED
        BY <2>4, QueueKeeps
<1>3. CASE SelectCandidate(w)
    <2>1. QueueMoves
        BY <1>1, <1>3 DEF QueueMoves, QueueOnly, Working, SelectCandidate
    <2> QED
        BY <2>1, QueueKeeps
<1>4. CASE ClaimUpdate(w)
    <2>1. PICK j \in Jobs : j = held[w] /\ rows[j] \in Row /\ pc[w] = "selected"
        BY <1>0, <1>4, WorkerRows DEF ClaimUpdate
    <2>2. CASE ClaimGuard(j)
        <3>1. PICK new : new = ClaimedRow(rows[j]) /\ new.status = "running"
            BY <2>1, ClaimedFacts
        <3>2. /\ rows' = [rows EXCEPT ![j] = new] /\ rows[j].status = "pending"
              /\ pc' = [pc EXCEPT ![w] = "claimed"] /\ UNCHANGED <<held, snap, used>>
            BY <1>4, <2>1, <2>2, <3>1 DEF ClaimUpdate, ClaimGuard
        <3>3. NowClaims(j)
            BY <1>1, <2>1, <3>2 DEF NowClaims
        <3>4. rows'[j].status = "running" /\ \A i \in Jobs : i # j => rows'[i] = rows[i]
            BY <1>1, <3>1, <3>2
        <3>5. QueueMoves
            BY <1>1, <2>1, <3>2, <3>3, <3>4 DEF QueueMoves, QueueOnly, Working
        <3> QED
            BY <3>5, QueueKeeps
    <2>3. CASE ~ClaimGuard(j)
        <3>1. EndSession(w, "polling") /\ UNCHANGED <<rows, used>>
            BY <1>4, <2>1, <2>3 DEF ClaimUpdate
        <3>2. QueueMoves
            BY <1>1, <2>1, <3>1 DEF QueueMoves, QueueOnly, Working, EndSession
        <3> QED
            BY <3>2, QueueKeeps
    <2> QED
        BY <2>2, <2>3
<1> QED
    BY <1>2, <1>3, <1>4 DEF QueueOnly

\* So do time and the API requests.
LEMMA ClockQueues ==
    ASSUME DeliveryInv, TimelyInv', NEW j \in Jobs, BackoffElapses(j) \/ ClaimExpires(j),
           UNCHANGED deliveryVars
    PROVE  DeliveryInv'
<1>1. rows \in [Jobs -> Row]
    BY DEF DeliveryInv, TimelyInv, TypeOK
<1>2. \A i \in Jobs : rows'[i].status = rows[i].status
    BY <1>1 DEF BackoffElapses, ClaimExpires, Row
<1>3. UNCHANGED <<pc, held, snap, used>>
    BY DEF BackoffElapses, ClaimExpires
<1>4. QueueMoves
    BY <1>2, <1>3 DEF QueueMoves
<1> QED
    BY <1>4, QueueKeeps

LEMMA RequestQueues ==
    ASSUME DeliveryInv, TimelyInv', NEW c \in Clients, Requested(c),
           req[c].op # "idle" => req[c].snap = rows[req[c].job]
    PROVE  DeliveryInv'
<1>0. TypeOK /\ RetriesFinished
    BY DEF DeliveryInv, TimelyInv
<1>1. CASE \E op \in {"cancel", "retry"}, j \in Jobs : BeginRequest(c, op, j)
    <2>1. UNCHANGED <<rows, pc, held, snap>> /\ used'.crashes = used.crashes
        BY <1>0, <1>1 DEF BeginRequest, TypeOK
    <2>2. QueueMoves
        BY <2>1 DEF QueueMoves, Requested
    <2> QED
        BY <2>2, QueueKeeps
<1>2. CASE CommitRequest(c)
    <2>1. PICK j \in Jobs : j = req[c].job /\ rows[j] \in Row /\ req[c].snap = rows[j]
        BY <1>0, <1>2, RequestRows DEF CommitRequest
    <2>2. PICK new :
            /\ rows' = [rows EXCEPT ![j] = new]
            /\ \/ new = cancel_job(rows[j], rows[j])
               \/ new = retry_job(rows[j], rows[j]) /\ req[c].op = "retry"
        <3>1. req[c].op \in {"cancel", "retry"}
            BY <1>0, <1>2 DEF CommitRequest, TypeOK, Requests
        <3> QED
            BY <1>2, <2>1, <3>1 DEF CommitRequest
    <2>3. \/ new.status = rows[j].status
          \/ new.status = "cancelled" /\ rows[j].status = "pending"
          \/ new.status = "pending" /\ rows[j].status \in {"failed", "cancelled"}
        BY <1>0, <2>1, <2>2, CancelFacts, RetriedStatus DEF RetriesFinished
    <2>4. rows'[j] = new /\ \A i \in Jobs : i # j => rows'[i] = rows[i]
        BY <1>0, <2>2 DEF TypeOK
    <2>5. UNCHANGED <<pc, held, snap, used>>
        BY <1>2 DEF CommitRequest
    <2>6. QueueMoves
        BY <2>3, <2>4, <2>5 DEF QueueMoves, Requested
    <2> QED
        BY <2>6, QueueKeeps
<1> QED
    BY <1>1, <1>2 DEF Requested

\* execute_job around the handler: the worker w gets to the place p of its loop
\* and to the step s of deliver_integration, with the copy c of the delivery.
LoopMoves(w, p, s, c) ==
    /\ UNCHANGED <<rows, held, used, deliveries, payload, endpointOn, received>>
    /\ pc[w] \in {"claimed", "handling"}
    /\ pc' = [pc EXCEPT ![w] = p]
    /\ step' = [step EXCEPT ![w] = s] /\ copy' = [copy EXCEPT ![w] = c]
    /\ snap'[w].status = "running" /\ \A v \in Workers : v # w => snap'[v] = snap[v]
    /\ \/ p = "cancelling" /\ s = "none" /\ c = "absent"
       \/ p = "handling" /\ s = "lookup" /\ c = "absent"
       \/ p = "finishing" /\ s = "returned" /\ step[w] = s /\ c = copy[w]
       \/ p = "failing" /\ s = "raised-early" /\ step[w] = s /\ c = copy[w]
       \/ p = "failing" /\ s = "raised" /\ step[w] = s /\ c = deliveries[Target(w)]

LEMMA LoopKeeps ==
    ASSUME DeliveryInv, TimelyInv', NEW w \in Workers, NEW p \in Places, NEW s \in Steps,
           NEW c \in DeliveryStatus, LoopMoves(w, p, s, c)
    PROVE  DeliveryInv'
<1> USE DEF LoopMoves
<1>1. /\ pc \in [Workers -> Places] /\ step \in [Workers -> Steps]
      /\ copy \in [Workers -> DeliveryStatus]
    BY DeliveryParts DEF DeliveryInv, TimelyInv, TypeOK
<1>2. /\ pc'[w] = p /\ step'[w] = s /\ copy'[w] = c
      /\ \A v \in Workers : v # w => pc'[v] = pc[v] /\ step'[v] = step[v] /\ copy'[v] = copy[v]
    BY <1>1
<1>3. \A v \in Workers : Target(v)' = Target(v)
    BY DEF Target
<1>4. DeliveryTypeOK'
    BY DeliveryParts DEF DeliveryTypeOK
<1>5. StepShapes' /\ CopiesRunning'
    BY <1>2 DEF DeliveryInv, StepShapes, CopiesRunning
<1>6. PayloadsKnown' /\ CompletedWasReceived'
    BY DEF DeliveryInv, PayloadsKnown, CompletedWasReceived
<1>7. AnswersKnown'
    BY <1>2, <1>3 DEF DeliveryInv, AnswersKnown
<1>8. DeliveredRests'
    BY <1>2, <1>3 DEF DeliveryInv, DeliveredRests, Alone, JobsFor
<1>9. ASSUME used'.crashes = 0 PROVE RunningHeld' /\ FailedMinded' /\ PendingFresh'
    <2>1. RunningHeld /\ FailedMinded /\ PendingFresh
        BY <1>9 DEF DeliveryInv
    <2>2. \A v \in Workers, j \in Jobs : WorksOn(v, j) => WorksOn(v, j)'
        BY <1>2 DEF WorksOn, Working
    <2>3. RunningHeld'
        BY <2>1, <2>2 DEF RunningHeld
    <2>4. \A v \in Workers : v # w /\ Minds(v) => Minds(v)'
        BY <1>2 DEF Minds
    <2>5. FailedMinded'
        <3> SUFFICES ASSUME NEW d \in Deliveries, deliveries[d] = "failed"
                     PROVE  \E j \in Jobs :
                                /\ payload[j] = d
                                /\ \/ rows[j].status \in {"pending", "cancelled"}
                                   \/ \E v \in Workers : WorksOn(v, j)' /\ Minds(v)'
            BY DEF FailedMinded
        <3>1. PICK j \in Jobs :
                /\ payload[j] = d
                /\ \/ rows[j].status \in {"pending", "cancelled"}
                   \/ \E v \in Workers : WorksOn(v, j) /\ Minds(v)
            BY <2>1 DEF FailedMinded
        <3>2. WorksOn(w, j) /\ Minds(w) => Minds(w)'
            <4> SUFFICES ASSUME WorksOn(w, j), Minds(w) PROVE Minds(w)'
                OBVIOUS
            <4>1. Target(w) = d
                BY <3>1 DEF WorksOn, Target
            <4>2. pc[w] = "claimed" => step[w] = "none"
                BY DEF DeliveryInv, StepShapes
            <4> QED
                BY <1>2, <4>1, <4>2 DEF Minds
        <3> QED
            BY <2>2, <2>4, <3>1, <3>2
    <2>6. PendingFresh'
        BY <1>2, <1>3, <2>1 DEF PendingFresh
    <2> QED
        BY <2>3, <2>5, <2>6
<1> QED
    BY <1>4, <1>5, <1>6, <1>7, <1>8, <1>9 DEF DeliveryInv

LEMMA WorkerLoops ==
    ASSUME DeliveryInv, TimelyInv', NEW w \in Workers,
           StartDelivery(w) \/ DeliveryReturns(w) \/ DeliveryRaises(w)
    PROVE  DeliveryInv'
<1>1. /\ pc \in [Workers -> Places] /\ snap \in [Workers -> Row] /\ held[w] \in Jobs
      /\ rows[held[w]].status = "running" /\ pc[w] \in {"claimed", "handling"}
    <2>1. TypeOK /\ HeldIsLive /\ pc[w] \in {"claimed", "handling"}
        BY DEF DeliveryInv, TimelyInv, StartDelivery, DeliveryReturns, DeliveryRaises,
               LoadJob, HandlerReturns, HandlerRaises
    <2>2. held[w] \in Jobs
        BY <2>1 DEF TypeOK
    <2>3. WorksOn(w, held[w])
        BY <2>1 DEF WorksOn, Working
    <2> QED
        BY <2>1, <2>2, <2>3 DEF TypeOK, HeldIsLive
<1>2. pc[w] = "handling" => Target(w) \in Deliveries /\ step[w] # "none"
    BY HandlersWork DEF DeliveryInv, StepShapes
<1>3. step \in [Workers -> Steps] /\ copy \in [Workers -> DeliveryStatus]
    BY DeliveryParts
<1>4. CASE StartDelivery(w)
    <2>1. PICK p \in {"cancelling", "handling"}, s \in {"none", "lookup"} :
            /\ pc' = [pc EXCEPT ![w] = p] /\ step' = [step EXCEPT ![w] = s]
            /\ p = "handling" <=> s = "lookup"
        BY <1>1, <1>4 DEF StartDelivery, LoadJob
    <2>2. copy[w] = "absent"
        BY <1>4 DEF StartDelivery, LoadJob, DeliveryInv, StepShapes
    <2>3. copy' = [copy EXCEPT ![w] = "absent"]
        BY <1>3, <1>4, <2>2 DEF StartDelivery
    <2>4. /\ UNCHANGED <<rows, held, used, deliveries, payload, endpointOn, received>>
          /\ snap'[w].status = "running" /\ \A v \in Workers : v # w => snap'[v] = snap[v]
        BY <1>1, <1>4 DEF StartDelivery, LoadJob
    <2>5. LoopMoves(w, p, s, "absent") /\ p \in Places /\ s \in Steps /\ "absent" \in DeliveryStatus
        BY <1>1, <2>1, <2>3, <2>4 DEF LoopMoves, Places, Steps, DeliveryStatus
    <2> QED
        BY <2>5, LoopKeeps
<1>5. CASE DeliveryReturns(w)
    <2>1. PICK c \in DeliveryStatus : c = copy[w]
        BY <1>3
    <2>2. copy' = [copy EXCEPT ![w] = c] /\ step' = [step EXCEPT ![w] = "returned"]
        BY <1>3, <1>5, <2>1 DEF DeliveryReturns, deliveryVars
    <2>3. /\ UNCHANGED <<rows, held, used, deliveries, payload, endpointOn, received>>
          /\ snap'[w].status = "running" /\ \A v \in Workers : v # w => snap'[v] = snap[v]
          /\ pc' = [pc EXCEPT ![w] = "finishing"]
        BY <1>1, <1>5 DEF DeliveryReturns, HandlerReturns, deliveryVars
    <2>4. LoopMoves(w, "finishing", "returned", c)
        BY <1>1, <1>5, <2>1, <2>2, <2>3 DEF LoopMoves, DeliveryReturns
    <2> QED
        BY <2>4, LoopKeeps DEF Places, Steps
<1>6. CASE DeliveryRaises(w)
    <2>0. pc[w] = "handling" /\ snap[w].status = "running"
        BY <1>6 DEF DeliveryRaises, HandlerRaises, DeliveryInv, CopiesRunning
    <2>1. PICK c \in DeliveryStatus, s \in {"raised-early", "raised"} :
            /\ copy' = [copy EXCEPT ![w] = c]
            /\ s = step[w]
            /\ IF s = "raised" THEN c = deliveries[Target(w)] ELSE c = copy[w]
        <3>1. deliveries[Target(w)] \in DeliveryStatus
            BY <1>2, <2>0, DeliveryParts
        <3>2. CASE step[w] = "raised"
            BY <1>6, <3>1, <3>2 DEF DeliveryRaises
        <3>3. CASE step[w] # "raised"
            <4>1. copy' = [copy EXCEPT ![w] = copy[w]] /\ step[w] = "raised-early"
                BY <1>3, <1>6, <3>3 DEF DeliveryRaises
            <4> QED
                BY <1>3, <4>1
        <3> QED
            BY <3>2, <3>3
    <2>2. step' = [step EXCEPT ![w] = s]
        BY <1>3, <1>6, <2>1 DEF DeliveryRaises
    <2>3. PICK loaded \in {snap[w], rows[held[w]]} : snap' = [snap EXCEPT ![w] = loaded]
        BY <1>6 DEF DeliveryRaises, HandlerRaises
    <2>4. /\ UNCHANGED <<rows, held, used, deliveries, payload, endpointOn, received>>
          /\ snap'[w].status = "running" /\ \A v \in Workers : v # w => snap'[v] = snap[v]
          /\ pc' = [pc EXCEPT ![w] = "failing"]
        BY <1>1, <1>6, <2>0, <2>3 DEF DeliveryRaises, HandlerRaises
    <2>5. LoopMoves(w, "failing", s, c)
        BY <1>1, <2>1, <2>2, <2>4 DEF LoopMoves
    <2> QED
        BY <2>5, LoopKeeps DEF Places, Steps
<1> QED
    BY <1>4, <1>5, <1>6

\* A worker leaves its job: the row it commits and the dead letter.
Leaves(w) ==
    /\ LeaveHandler(w)
    /\ pc'[w] \in {"down", "polling"}
    /\ \A v \in Workers : v # w => pc'[v] = pc[v] /\ held'[v] = held[v] /\ snap'[v] = snap[v]
    /\ \A j \in Jobs :
        /\ \/ rows'[j].status = rows[j].status
           \/ WorksOn(w, j) /\ rows'[j].status \in {"pending", "cancelled", "completed", "failed"}
        /\ rows'[j].status = "completed" /\ rows[j].status # "completed" => payload[j] \in received
    /\ deliveries' \in [Deliveries -> DeliveryStatus]
    /\ \A d \in Deliveries :
        \/ deliveries'[d] = deliveries[d]
        \/ deliveries[d] # "absent" /\ deliveries'[d] = "dead-letter"
    /\ used'.crashes = 0 =>
        /\ used.crashes = 0
        /\ \A j \in Jobs : WorksOn(w, j) =>
            /\ rows'[j].status \in {"pending", "cancelled", "completed", "failed"}
            /\ Minds(w) => \/ rows'[j].status \in {"pending", "cancelled"}
                           \/ deliveries'[payload[j]] = "dead-letter"
            /\ rows'[j].status = "failed" => deliveries'[payload[j]] # "pending"

LEMMA LeavingKeeps ==
    ASSUME DeliveryInv, TimelyInv', NEW w \in Workers, Leaves(w)
    PROVE  DeliveryInv'
<1> USE DEF Leaves
<1>0. UNCHANGED <<payload, endpointOn, received>>
    BY DEF LeaveHandler
<1>1. /\ step'[w] = "none" /\ copy'[w] = "absent"
      /\ \A v \in Workers : v # w => step'[v] = step[v] /\ copy'[v] = copy[v]
    BY DeliveryParts DEF LeaveHandler
<1>2. \A v \in Workers : step'[v] # "none" => v # w /\ step[v] # "none" /\ Target(v)' = Target(v)
    BY <1>0, <1>1 DEF Target
<1>3. DeliveryTypeOK'
    BY DeliveryParts DEF DeliveryTypeOK, LeaveHandler, Steps, DeliveryStatus
<1>4. StepShapes' /\ CopiesRunning'
    BY <1>1 DEF DeliveryInv, StepShapes, CopiesRunning
<1>5. \A j \in Jobs : WorksOn(w, j) => rows[j].status = "running"
    BY DEF DeliveryInv, TimelyInv, HeldIsLive
<1>6. PayloadsKnown' /\ CompletedWasReceived'
    BY <1>0, <1>5 DEF DeliveryInv, PayloadsKnown, CompletedWasReceived
<1>7. AnswersKnown'
    BY <1>0, <1>1, <1>2 DEF DeliveryInv, AnswersKnown
<1>8. DeliveredRests'
    BY <1>0, <1>1, <1>2 DEF DeliveryInv, DeliveredRests, Alone, JobsFor
<1>9. ASSUME used'.crashes = 0 PROVE RunningHeld' /\ FailedMinded' /\ PendingFresh'
    <2>1. RunningHeld /\ FailedMinded /\ PendingFresh
        BY <1>9 DEF DeliveryInv
    <2>2. \A v \in Workers, j \in Jobs :
            v # w => (WorksOn(v, j)' <=> WorksOn(v, j)) /\ (Minds(v)' <=> Minds(v))
        BY <1>1 DEF WorksOn, Minds
    <2>3. RunningHeld'
        BY <1>9, <2>1, <2>2 DEF RunningHeld
    <2>4. \A v \in Workers, j \in Jobs : WorksOn(w, j) /\ WorksOn(v, j) => v = w
        BY DEF DeliveryInv, TimelyInv, ExclusiveRun
    <2>5. FailedMinded'
        <3> SUFFICES ASSUME NEW d \in Deliveries, deliveries'[d] = "failed"
                     PROVE  \E j \in Jobs :
                                /\ payload[j] = d
                                /\ \/ rows'[j].status \in {"pending", "cancelled"}
                                   \/ \E v \in Workers : WorksOn(v, j)' /\ Minds(v)'
            BY <1>0 DEF FailedMinded
        <3>1. deliveries[d] = "failed"
            OBVIOUS
        <3>2. PICK j \in Jobs :
                /\ payload[j] = d
                /\ \/ rows[j].status \in {"pending", "cancelled"}
                   \/ \E v \in Workers : WorksOn(v, j) /\ Minds(v)
            BY <2>1, <3>1 DEF FailedMinded
        <3>3. CASE WorksOn(w, j)
            BY <1>5, <1>9, <2>4, <3>2, <3>3
        <3>4. CASE ~WorksOn(w, j)
            BY <2>2, <3>2, <3>4
        <3> QED
            BY <3>3, <3>4
    <2>6. PendingFresh'
        <3> SUFFICES ASSUME NEW d \in Deliveries, deliveries'[d] = "pending"
                     PROVE  /\ \A j \in Jobs : payload[j] = d => rows'[j].status # "failed"
                            /\ \A v \in Workers :
                                step'[v] # "none" /\ Target(v)' = d => copy'[v] # "dead-letter"
            BY <1>0 DEF PendingFresh
        <3>1. deliveries[d] = "pending"
            OBVIOUS
        <3>2. ASSUME NEW j \in Jobs, payload[j] = d PROVE rows'[j].status # "failed"
            BY <1>9, <2>1, <3>1, <3>2 DEF PendingFresh
        <3> QED
            BY <1>1, <1>2, <2>1, <3>1, <3>2 DEF PendingFresh
    <2> QED
        BY <2>3, <2>5, <2>6
<1> QED
    BY <1>3, <1>4, <1>6, <1>7, <1>8, <1>9 DEF DeliveryInv

\* The commits of execute_job over the row of a worker whose copy is running.
LEMMA LeftRows ==
    ASSUME NEW row \in Row, NEW loaded \in Row,
           row.status = "running", loaded.status = "running"
    PROVE  /\ CancelledRow(row, loaded).status = "cancelled"
           /\ FinishedRow(row, loaded).status \in {"cancelled", "completed"}
           /\ FailedRow(row, loaded).status \in {"pending", "cancelled", "failed"}
           /\ FailedRow(row, loaded).status = "failed" => FinalFailure(loaded) /\ ~loaded.cancel
<1>1. \A s \in STRING : [row EXCEPT !.status = s].status = s
    BY DEF Row
<1>2. CancelledRow(row, loaded) = [row EXCEPT !.status = "cancelled"]
    BY DEF CancelledRow, Written
<1>3. PICK s \in {"cancelled", "completed"} : FinishedRow(row, loaded) = [row EXCEPT !.status = s]
    BY DEF FinishedRow, Written
<1>4. CASE FinalFailure(loaded)
    <2>1. PICK st \in {"cancelled", "failed"} :
            /\ FailedRow(row, loaded) = [row EXCEPT !.status = st]
            /\ st = "failed" => ~loaded.cancel
        BY <1>4 DEF FailedRow, Written
    <2> QED
        BY <1>1, <1>2, <1>3, <1>4, <2>1
<1>5. CASE ~FinalFailure(loaded)
    <2> DEFINE first == [row EXCEPT !.status = "pending"]
               k == Written(row.claim, loaded.claim, "none")
    <2>1. Written(row.status, loaded.status, "pending") = "pending"
        BY DEF Written
    <2>2. FailedRow(row, loaded) = [first EXCEPT !.due = FALSE, !.claim = k]
        BY <1>5, <2>1 DEF FailedRow
    <2>3. first.status = "pending" /\ DOMAIN first = DOMAIN row
        BY DEF Row
    <2> HIDE DEF first, k
    <2>4. FailedRow(row, loaded).status = "pending"
        BY <2>2, <2>3 DEF Row
    <2> QED
        BY <1>1, <1>2, <1>3, <2>4
<1> QED
    BY <1>4, <1>5

\* A worker that commits the end of its job has a running row and a running copy.
LEMMA CommitsRunning ==
    ASSUME DeliveryInv, NEW w \in Workers, pc[w] \in {"cancelling", "finishing", "failing"}
    PROVE  /\ held[w] \in Jobs /\ rows[held[w]] \in Row /\ snap[w] \in Row
           /\ rows[held[w]].status = "running" /\ snap[w].status = "running"
           /\ WorksOn(w, held[w])
<1>1. TypeOK /\ HeldIsLive
    BY DEF DeliveryInv, TimelyInv
<1>2. held[w] \in Jobs /\ rows[held[w]] \in Row /\ snap[w] \in Row
    BY <1>1, WorkerRows
<1>3. WorksOn(w, held[w])
    BY DEF WorksOn, Working
<1> QED
    BY <1>1, <1>2, <1>3 DEF HeldIsLive, DeliveryInv, CopiesRunning

LEMMA WorkerLeaves ==
    ASSUME DeliveryInv, TimelyInv', NEW w \in Workers, DeliveryFails(w) \/ DeliveryEnds(w)
    PROVE  DeliveryInv'
<1>0. /\ rows \in [Jobs -> Row] /\ pc \in [Workers -> Places]
      /\ held \in [Workers -> Jobs \cup {0}] /\ snap \in [Workers -> Row]
      /\ used \in [requests : 0..MaxRequests, crashes : 0..MaxCrashes]
    BY DEF DeliveryInv, TimelyInv, TypeOK
<1>1. deliveries \in [Deliveries -> DeliveryStatus]
    BY DeliveryParts
<1>2. ASSUME NEW new, Commit(w, new), pc[w] \in {"cancelling", "finishing", "failing"}
      PROVE  /\ pc'[w] = "polling" /\ used' = used
             /\ \A v \in Workers : v # w => pc'[v] = pc[v] /\ held'[v] = held[v] /\ snap'[v] = snap[v]
             /\ \A j \in Jobs : IF WorksOn(w, j) THEN j = held[w] /\ rows'[j] = new
                                                 ELSE rows'[j] = rows[j]
    BY <1>0, <1>2, CommitsRunning DEF Commit, EndSession, WorksOn
<1>3. CASE DeliveryFails(w)
    <2>1. pc[w] = "failing" /\ CommitFailed(w) /\ LeaveHandler(w)
        BY <1>3 DEF DeliveryFails, CommitFailed
    <2>2. PICK new, j, t : /\ new = FailedRow(rows[held[w]], snap[w]) /\ j = held[w]
                           /\ t = Target(w) /\ Commit(w, new)
        BY <2>1 DEF CommitFailed
    <2>3. /\ new.status \in {"pending", "cancelled", "failed"}
          /\ new.status = "failed" => FinalFailure(snap[w]) /\ ~snap[w].cancel
          /\ j \in Jobs /\ rows[j].status = "running" /\ t = payload[j]
        BY <2>1, <2>2, CommitsRunning, LeftRows DEF Target
    <2>4. t \in Deliveries /\ deliveries[t] # "absent"
        BY <2>3 DEF DeliveryInv, PayloadsKnown
    <2>5. IF FinalFailure(snap[w]) /\ ~snap[w].cancel
          THEN deliveries' = [deliveries EXCEPT ![t] =
                                    Written(deliveries[t], copy[w], "dead-letter")]
          ELSE UNCHANGED deliveries
        BY <1>3, <2>2 DEF DeliveryFails, mark_delivery_dead_letter
    <2>6. Written(deliveries[t], copy[w], "dead-letter") \in {deliveries[t], "dead-letter"}
          /\ (copy[w] # "dead-letter" => Written(deliveries[t], copy[w], "dead-letter") = "dead-letter")
        BY DEF Written
    <2>7. PICK m \in DeliveryStatus :
            /\ deliveries' = [deliveries EXCEPT ![t] = m]
            /\ m \in {deliveries[t], "dead-letter"}
            /\ new.status = "failed" /\ copy[w] # "dead-letter" => m = "dead-letter"
        <3>1. "dead-letter" \in DeliveryStatus /\ deliveries[t] \in DeliveryStatus
            BY <1>1, <2>4 DEF DeliveryStatus
        <3>2. CASE FinalFailure(snap[w]) /\ ~snap[w].cancel
            BY <2>5, <2>6, <3>1, <3>2
        <3>3. CASE ~(FinalFailure(snap[w]) /\ ~snap[w].cancel)
            BY <1>1, <2>3, <2>5, <3>1, <3>3
        <3> QED
            BY <3>2, <3>3
    <2>8. /\ deliveries'[t] = m /\ deliveries' \in [Deliveries -> DeliveryStatus]
          /\ \A d \in Deliveries : d # t => deliveries'[d] = deliveries[d]
        BY <1>1, <2>4, <2>7
    <2>9. Minds(w) => copy[w] # "dead-letter"
        BY <2>1 DEF Minds, DeliveryInv, StepShapes
    <2>10. used.crashes = 0 /\ new.status = "failed" => m # "pending"
        <3>1. step[w] # "none"
            BY <2>1 DEF DeliveryInv, StepShapes
        <3> QED
            BY <2>2, <2>4, <2>7, <3>1 DEF DeliveryInv, PendingFresh
    <2>11. /\ pc'[w] = "polling" /\ used' = used
           /\ \A v \in Workers : v # w => pc'[v] = pc[v] /\ held'[v] = held[v] /\ snap'[v] = snap[v]
           /\ \A i \in Jobs : IF WorksOn(w, i) THEN i = j /\ rows'[i] = new
                                               ELSE rows'[i] = rows[i]
        BY <1>2, <2>1, <2>2
    <2>12. Leaves(w)
        BY <2>1, <2>3, <2>4, <2>7, <2>8, <2>9, <2>10, <2>11 DEF Leaves
    <2> QED
        BY <2>12, LeavingKeeps
<1>4. CASE (CommitFinished(w) \/ CommitCancelled(w)) /\ LeaveHandler(w) /\ UNCHANGED deliveries
    <2>1. pc[w] \in {"finishing", "cancelling"}
        BY <1>4 DEF CommitFinished, CommitCancelled
    <2>2. PICK new :
            /\ Commit(w, new)
            /\ \/ new.status = "cancelled"
               \/ pc[w] = "finishing" /\ new.status = "completed"
        BY <1>4, <2>1, CommitsRunning, LeftRows DEF CommitFinished, CommitCancelled
    <2>3. /\ pc'[w] = "polling" /\ used' = used
          /\ \A v \in Workers : v # w => pc'[v] = pc[v] /\ held'[v] = held[v] /\ snap'[v] = snap[v]
          /\ \A i \in Jobs : IF WorksOn(w, i) THEN i = held[w] /\ rows'[i] = new
                                              ELSE rows'[i] = rows[i]
        BY <1>2, <2>1, <2>2
    <2>4. pc[w] = "finishing" => payload[held[w]] \in received /\ ~Minds(w)
        BY DEF DeliveryInv, StepShapes, AnswersKnown, Minds, Target
    <2>5. Leaves(w)
        BY <1>1, <1>4, <2>2, <2>3, <2>4 DEF Leaves
    <2> QED
        BY <2>5, LeavingKeeps
<1>5. CASE WorkerDown(w) /\ LeaveHandler(w) /\ UNCHANGED deliveries
    <2>1. used'.crashes = used.crashes + 1 /\ used.crashes \in Nat
        BY <1>0, <1>5, BoundsAssumption DEF WorkerDown
    <2>2. used'.crashes # 0
        BY <2>1
    <2>3. /\ pc'[w] = "down" /\ rows' = rows
          /\ \A v \in Workers : v # w => pc'[v] = pc[v] /\ held'[v] = held[v] /\ snap'[v] = snap[v]
        BY <1>0, <1>5 DEF WorkerDown, EndSession
    <2>4. Leaves(w)
        BY <1>1, <1>5, <2>2, <2>3 DEF Leaves
    <2> QED
        BY <2>4, LeavingKeeps
<1> QED
    BY <1>3, <1>4, <1>5 DEF DeliveryEnds

\* A job of a delivery that is not done yet.
LEMMA EnqueueKeeps ==
    ASSUME DeliveryInv, TimelyInv', NEW d \in Deliveries, NEW j \in Jobs, EnqueueDeliver(d, j)
    PROVE  DeliveryInv'
<1>1. /\ deliveries[d] \notin {"absent", "delivered"} /\ rows[j].status = "absent"
      /\ payload' = [payload EXCEPT ![j] = d]
      /\ UNCHANGED <<pc, held, snap, used, deliveries, endpointOn, step, copy, received>>
    BY DEF EnqueueDeliver, enqueue_job
<1>2. PICK new : rows' = [rows EXCEPT ![j] = new] /\ new.status = "pending"
    BY EnqueuedFacts DEF EnqueueDeliver, enqueue_job
<1>3. rows'[j].status = "pending" /\ \A i \in Jobs : i # j => rows'[i] = rows[i]
    BY <1>2 DEF DeliveryInv, TimelyInv, TypeOK
<1>4. /\ payload[j] = 0 /\ payload'[j] = d /\ payload' \in [Jobs -> Deliveries \cup {0}]
      /\ \A i \in Jobs : i # j => payload'[i] = payload[i]
    BY <1>1, DeliveryParts DEF DeliveryInv, PayloadsKnown
<1>5. 0 \notin Deliveries
    BY DEF Deliveries
<1>6. \A v \in Workers, i \in Jobs : WorksOn(v, i) => i # j
    BY <1>1 DEF DeliveryInv, TimelyInv, HeldIsLive
<1>7. \A v \in Workers : step[v] # "none" => Target(v)' = Target(v)
    BY <1>1, <1>4, <1>6, HandlersWork DEF Target
<1>8. DeliveryTypeOK' /\ StepShapes' /\ CopiesRunning'
    BY <1>1, <1>4 DEF DeliveryInv, DeliveryTypeOK, StepShapes, CopiesRunning
<1>9. PayloadsKnown' /\ CompletedWasReceived'
    BY <1>1, <1>3, <1>4 DEF DeliveryInv, PayloadsKnown, CompletedWasReceived
<1>10. AnswersKnown'
    BY <1>1, <1>7 DEF DeliveryInv, AnswersKnown
<1>11. DeliveredRests'
    <2>1. \A e \in Deliveries : e # d => JobsFor(e)' = JobsFor(e)
        BY <1>4, <1>5 DEF JobsFor, Jobs
    <2> QED
        BY <1>1, <1>7, <2>1 DEF DeliveryInv, DeliveredRests, Alone, Jobs
<1>12. ASSUME used'.crashes = 0 PROVE RunningHeld' /\ FailedMinded' /\ PendingFresh'
    <2>1. RunningHeld /\ FailedMinded /\ PendingFresh
        BY <1>1, <1>12 DEF DeliveryInv
    <2>2. \A v \in Workers, i \in Jobs : (WorksOn(v, i)' <=> WorksOn(v, i)) /\ (Minds(v)' <=> Minds(v))
        BY <1>1 DEF WorksOn, Minds
    <2>3. RunningHeld'
        BY <1>3, <2>1, <2>2 DEF RunningHeld, Jobs
    <2>4. FailedMinded'
        <3> SUFFICES ASSUME NEW e \in Deliveries, deliveries[e] = "failed"
                     PROVE  \E i \in Jobs :
                                /\ payload'[i] = e
                                /\ \/ rows'[i].status \in {"pending", "cancelled"}
                                   \/ \E v \in Workers : WorksOn(v, i) /\ Minds(v)
            BY <1>1, <2>2 DEF FailedMinded, Jobs
        <3>1. PICK i \in Jobs :
                /\ payload[i] = e
                /\ \/ rows[i].status \in {"pending", "cancelled"}
                   \/ \E v \in Workers : WorksOn(v, i) /\ Minds(v)
            BY <2>1 DEF FailedMinded
        <3> QED
            BY <1>3, <1>4, <1>5, <3>1
    <2>5. PendingFresh'
        BY <1>1, <1>3, <1>4, <1>7, <2>1 DEF PendingFresh, Jobs
    <2> QED
        BY <2>3, <2>4, <2>5
<1> QED
    BY <1>8, <1>9, <1>10, <1>11, <1>12 DEF DeliveryInv

\* Nothing has happened yet.
LEMMA InitDelivery == DeliveryInit => DeliveryInv
<1> SUFFICES ASSUME DeliveryInit PROVE DeliveryInv
    OBVIOUS
<1>1. TimelyInv
    BY InitTimely DEF DeliveryInit
<1>2. /\ \A w \in Workers : pc[w] = "down" /\ step[w] = "none" /\ copy[w] = "absent"
      /\ \A j \in Jobs : rows[j].status = "absent" /\ payload[j] = 0
      /\ \A d \in Deliveries : deliveries[d] = "absent"
    BY DEF DeliveryInit, Init, AbsentRow
<1>3. DeliveryTypeOK
    BY DEF DeliveryInit, DeliveryTypeOK, Steps, DeliveryStatus
<1>4. /\ StepShapes /\ CopiesRunning /\ PayloadsKnown /\ AnswersKnown
      /\ CompletedWasReceived /\ DeliveredRests
    BY <1>2 DEF StepShapes, CopiesRunning, PayloadsKnown, AnswersKnown,
                CompletedWasReceived, DeliveredRests
<1>5. RunningHeld /\ FailedMinded /\ PendingFresh
    BY <1>2 DEF RunningHeld, FailedMinded, PendingFresh
<1> QED
    BY <1>1, <1>3, <1>4, <1>5 DEF DeliveryInv

\* Every timely step of jobs and deliveries keeps the invariant.
LEMMA NextDelivery == DeliveryInv /\ [TimelyDeliveryNext]_allVars => DeliveryInv'
<1> SUFFICES ASSUME DeliveryInv, [TimelyDeliveryNext]_allVars PROVE DeliveryInv'
    OBVIOUS
<1>0. TimelyInv'
    BY DeliveryIsTimely, StepTimely DEF DeliveryInv
<1>1. ASSUME NEW d \in Deliveries,
             \/ queue_integration_event(d)
             \/ \E original \in Deliveries : replay_delivery(original, d)
      PROVE  DeliveryInv'
    BY <1>0, <1>1, CreatesDelivery DEF queue_integration_event, replay_delivery
<1>2. ASSUME NEW d \in Deliveries, NEW j \in Jobs, EnqueueDeliver(d, j) PROVE DeliveryInv'
    BY <1>0, <1>2, EnqueueKeeps
<1>s. CASE UNCHANGED allVars
    <2>1. /\ UNCHANGED <<rows, pc, held, snap, used>>
          /\ UNCHANGED <<deliveries, payload, endpointOn, step, copy, received>>
        BY <1>s DEF allVars, vars, deliveryVars
    <2>2. QueueMoves
        BY <2>1 DEF QueueMoves, deliveryVars
    <2> QED
        BY <1>0, <2>2, QueueKeeps
<1>3. CASE queue_integration_event(1)
    <2>1. CASE 1 \in Deliveries
        BY <1>1, <1>3, <2>1
    <2>2. CASE 1 \notin Deliveries
        <3>1. deliveries' = deliveries
            BY <1>3, <2>2, DeliveryParts DEF queue_integration_event
        <3>2. UNCHANGED allVars
            BY <1>3, <3>1 DEF queue_integration_event, allVars, deliveryVars
        <3> QED
            BY <1>s, <3>2
    <2> QED
        BY <2>1, <2>2
<1>4. CASE disable_integration_endpoint
    <2>1. /\ endpointOn' = FALSE
          /\ UNCHANGED <<rows, pc, held, snap, used, deliveries, payload, step, copy, received>>
        BY <1>4 DEF disable_integration_endpoint, vars
    <2>2. DeliveryTypeOK' /\ StepShapes' /\ CopiesRunning' /\ PayloadsKnown'
        BY <2>1 DEF DeliveryInv, DeliveryTypeOK, StepShapes, CopiesRunning, PayloadsKnown
    <2>3. AnswersKnown' /\ CompletedWasReceived' /\ DeliveredRests'
        BY <2>1 DEF DeliveryInv, AnswersKnown, Target, CompletedWasReceived, DeliveredRests,
                    Alone, JobsFor
    <2>4. /\ RunningHeld' <=> RunningHeld
          /\ FailedMinded' <=> FailedMinded
          /\ PendingFresh' <=> PendingFresh
        BY <2>1 DEF RunningHeld, FailedMinded, PendingFresh, WorksOn, Minds, Target
    <2> QED
        BY <1>0, <2>1, <2>2, <2>3, <2>4 DEF DeliveryInv
<1>5. ASSUME NEW j \in Jobs, BackoffElapses(j) \/ ClaimExpires(j), UNCHANGED deliveryVars
      PROVE  DeliveryInv'
    BY <1>0, <1>5, ClockQueues
<1>6. ASSUME NEW w \in Workers, DeliverySteps(w) PROVE DeliveryInv'
    BY <1>0, <1>6, WorkerLoops, LooksDeliveryUp, AttemptKeeps, AnswerKeeps, WorkerLeaves,
       WorkerQueues DEF DeliverySteps
<1>7. ASSUME NEW c \in Clients, req[c].op # "idle" => req[c].snap = rows[req[c].job],
             Requested(c)
      PROVE  DeliveryInv'
    BY <1>0, <1>7, RequestQueues
<1> QED
    BY <1>1, <1>2, <1>3, <1>4, <1>5, <1>6, <1>7, <1>s DEF TimelyDeliveryNext, Produce

\* Outbound deliveries on timely schedules, for any number of workers, jobs and
\* deliveries: what execute_job and deliver_integration know of each other at each
\* of their commits.
THEOREM DeliveryInvariant == TimelyDeliverySpec => []DeliveryInv
    BY InitDelivery, NextDelivery, PTL DEF TimelyDeliverySpec

\* With deliveries on top, a job is still executed by at most one worker.
THEOREM DeliveriesExclusive == TimelyDeliverySpec => []ExclusiveRun
    BY DeliveryTimely, JobsExclusive, PTL

\* With deliveries on top, jobs.py still implements the queue of its users.
THEOREM DeliveriesImplementQueue == TimelyDeliverySpec => ImplementsJobQueue
    BY DeliveryTimely, JobsImplementQueue, PTL

\* A completed job and a delivered delivery were received, and as long as no worker
\* dies, a failed job leaves a dead letter: _mark_job_failure commits the two together.
THEOREM DeliveriesTold == TimelyDeliverySpec => []JobTellsDelivery
<1>1. DeliveryInv => JobTellsDelivery
    <2> SUFFICES ASSUME DeliveryInv, used.crashes = 0, NEW j \in Jobs, rows[j].status = "failed",
                        deliveries[payload[j]] \notin {"dead-letter", "delivered"}
                 PROVE  \E i \in Jobs :
                            /\ payload[i] = payload[j]
                            /\ rows[i].status \in {"pending", "running", "cancelled"}
        BY DEF DeliveryInv, JobTellsDelivery, DeadLetterUnlessCrash, FailedIsDeadLetter
    <2>1. /\ payload[j] \in Deliveries
          /\ deliveries[payload[j]] \in {"pending", "failed"}
        BY DeliveryParts DEF DeliveryInv, PayloadsKnown, DeliveryStatus
    <2>2. deliveries[payload[j]] = "failed"
        BY <2>1 DEF DeliveryInv, PendingFresh
    <2>3. PICK i \in Jobs :
            /\ payload[i] = payload[j]
            /\ \/ rows[i].status \in {"pending", "cancelled"}
               \/ \E w \in Workers : WorksOn(w, i)
        BY <2>1, <2>2 DEF DeliveryInv, FailedMinded
    <2>4. (\E w \in Workers : WorksOn(w, i)) => rows[i].status = "running"
        BY DEF DeliveryInv, TimelyInv, HeldIsLive
    <2> QED
        BY <2>3, <2>4
<1> QED
    BY <1>1, DeliveryInvariant, PTL

\* A set with one element is a singleton.
LEMMA OnlyJob ==
    ASSUME NEW d, Cardinality({j \in Jobs : payload[j] = d}) = 1
    PROVE  Alone(d)
<1>1. IsFiniteSet(Jobs)
    BY BoundsAssumption, FS_Interval DEF Jobs
<1>2. IsFiniteSet({j \in Jobs : payload[j] = d})
    BY <1>1, FS_Subset
<1>3. PICK j : {i \in Jobs : payload[i] = d} = {j}
    BY <1>2, FS_Singleton
<1> QED
    BY <1>3 DEF Alone, JobsFor

\* deliver_integration does not send a delivered delivery again, and the dead letter of
\* another failure does not reach it: with one job, delivered is final.
THEOREM DeliveriesStay == TimelyDeliverySpec => DeliveredStays
<1> DEFINE Stays == \A d \in Deliveries :
                        /\ deliveries[d] = "delivered"
                        /\ Cardinality({j \in Jobs : payload[j] = d}) = 1
                        => deliveries'[d] = "delivered"
<1>1. DeliveryInv /\ [TimelyDeliveryNext]_allVars => [Stays]_allVars
    <2> SUFFICES ASSUME DeliveryInv, TimelyDeliveryNext,
                        NEW d \in Deliveries, deliveries[d] = "delivered", Alone(d)
                 PROVE  deliveries'[d] = "delivered"
        BY OnlyJob
    <2>1. ASSUME NEW w \in Workers, step[w] \in {"refused", "raised", "raised-early"}
          PROVE  Target(w) # d
        BY <2>1 DEF DeliveryInv, DeliveredRests
    <2>2. ASSUME NEW w \in Workers, CommitAnswer(w) PROVE deliveries'[d] = "delivered"
        BY <2>1, <2>2, DeliveryParts DEF CommitAnswer, AtStep
    <2>3. ASSUME NEW w \in Workers, DeliveryFails(w) PROVE deliveries'[d] = "delivered"
        <3>1. step[w] \in {"raised", "raised-early"}
            BY <2>3 DEF DeliveryFails, CommitFailed, DeliveryInv, StepShapes
        <3> QED
            BY <2>1, <2>3, <3>1, DeliveryParts DEF DeliveryFails, mark_delivery_dead_letter
    <2>4. ASSUME NEW w \in Workers, DeliverySteps(w), ~CommitAnswer(w), ~DeliveryFails(w)
          PROVE  deliveries' = deliveries
        BY <2>4 DEF DeliverySteps, StartDelivery, LookupDelivery, CommitAttempt, Send,
                    DeliveryReturns, DeliveryRaises, DeliveryEnds, QueueOnly, deliveryVars
    <2>5. ASSUME NEW e, deliveries[e] = "absent", deliveries' = [deliveries EXCEPT ![e] = "pending"]
          PROVE  deliveries'[d] = "delivered"
        BY <2>5, DeliveryParts
    <2>6. CASE Produce
        BY <2>5, <2>6 DEF Produce, queue_integration_event, replay_delivery, Fresh, EnqueueDeliver,
                          disable_integration_endpoint
    <2>7. CASE UNCHANGED deliveryVars
        BY <2>7 DEF deliveryVars
    <2> QED
        BY <2>2, <2>3, <2>4, <2>6, <2>7 DEF TimelyDeliveryNext, Requested
<1> QED
    BY <1>1, DeliveryInvariant, PTL DEF TimelyDeliverySpec, DeliveredStays
=============================================================================
