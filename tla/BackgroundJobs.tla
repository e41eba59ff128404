--------------------------- MODULE BackgroundJobs ---------------------------
(***************************************************************************)
(* The durable job queue: app/services/jobs.py, the claim loop of          *)
(* app/worker.py and the job control endpoints of app/main.py.             *)
(*                                                                         *)
(* Every step is one database statement or one commit, because that is     *)
(* where workers and API requests interleave.  A session that has loaded a *)
(* row keeps that copy (snap) until it commits, and a commit writes only   *)
(* the columns whose new value differs from the copy: see Written.         *)
(*                                                                         *)
(* Time is abstracted to what the code compares: available_at to "due or   *)
(* not yet", claimed_at to "none, live, older than the claim timeout".     *)
(***************************************************************************)
EXTENDS Integers, FiniteSets

CONSTANTS
    Workers,        \* worker processes (python -m app.worker)
    Clients,        \* API requests that may be in flight together
    MaxJobs,        \* bound: rows of background_jobs
    MaxAttempts,    \* max_attempts of every job
    MaxRequests,    \* bound: cancel and retry requests in a behaviour
    MaxCrashes      \* bound: crashes and stops of workers in a behaviour

ASSUME BoundsAssumption ==
    /\ MaxJobs \in Nat
    /\ MaxAttempts \in Nat \ {0}
    /\ MaxRequests \in Nat
    /\ MaxCrashes \in Nat

VARIABLES
    rows,       \* background_jobs, by order of created_at
    pc,         \* where each worker is in its loop
    held,       \* the job a worker selected or claimed
    snap,       \* the worker session's copy of that row
    req,        \* the API request each client has in flight
    used,       \* requests and crashes spent, for the bounds
    turn,       \* history: how often each row has become pending
    ticket      \* history: the turn a worker's claim consumed

vars == <<rows, pc, held, snap, req, used, turn, ticket>>

Jobs == 1..MaxJobs
Statuses == {"absent", "pending", "running", "completed", "failed", "cancelled"}
Claims == {"none", "live", "stale"}

Row == [status : Statuses, attempts : Nat, cancel : BOOLEAN,
        due : BOOLEAN, claim : Claims]

AbsentRow == [status |-> "absent", attempts |-> 0, cancel |-> FALSE,
              due |-> FALSE, claim |-> "none"]

Places == {"down", "polling", "selected", "claimed", "cancelling",
           "handling", "finishing", "failing"}

\* The places between a successful claim and the commit that ends it.
Working == {"claimed", "cancelling", "handling", "finishing", "failing"}

IdleRequest == [op |-> "idle", job |-> 0, snap |-> AbsentRow]
Requests == [op : {"idle", "cancel", "retry"}, job : Nat, snap : Row]

Init ==
    /\ rows = [j \in Jobs |-> AbsentRow]
    /\ pc = [w \in Workers |-> "down"]
    /\ held = [w \in Workers |-> 0]
    /\ snap = [w \in Workers |-> AbsentRow]
    /\ req = [c \in Clients |-> IdleRequest]
    /\ used = [requests |-> 0, crashes |-> 0]
    /\ turn = [j \in Jobs |-> 0]
    /\ ticket = [w \in Workers |-> 0]

(***************************************************************************)
(* A unit of work flushes a column only when the assigned value differs    *)
(* from the value the session loaded.                                      *)
(***************************************************************************)
Written(current, loaded, assigned) ==
    IF assigned = loaded THEN current ELSE assigned

\* A row that becomes pending starts a new turn.
TurnsAfter(before, after) ==
    [j \in Jobs |->
        IF after[j].status = "pending" /\ before[j].status # "pending"
        THEN turn[j] + 1 ELSE turn[j]]

-----------------------------------------------------------------------------
(***************************************************************************)
(* Submission and the passing of time.                                     *)
(***************************************************************************)
enqueue_job(j) ==
    /\ rows[j].status = "absent"
    /\ \A i \in Jobs : i < j => rows[i].status # "absent"
    /\ rows' = [rows EXCEPT ![j] = [AbsentRow EXCEPT !.status = "pending",
                                                     !.due = TRUE]]
    /\ turn' = TurnsAfter(rows, rows')
    /\ UNCHANGED <<pc, held, snap, req, used, ticket>>

BackoffElapses(j) ==
    /\ rows[j].status = "pending"
    /\ ~rows[j].due
    /\ rows' = [rows EXCEPT ![j].due = TRUE]
    /\ UNCHANGED <<pc, held, snap, req, used, turn, ticket>>

ClaimExpires(j) ==
    /\ rows[j].status = "running"
    /\ rows[j].claim = "live"
    /\ rows' = [rows EXCEPT ![j].claim = "stale"]
    /\ UNCHANGED <<pc, held, snap, req, used, turn, ticket>>

-----------------------------------------------------------------------------
(***************************************************************************)
(* A worker process.                                                       *)
(***************************************************************************)
\* Mutant: recovery takes every running job, not only the expired claims.
RecoveredLive(row) ==
    IF row.status = "running"
    THEN IF row.attempts >= MaxAttempts
         THEN [row EXCEPT !.status = "failed"]
         ELSE [row EXCEPT !.status = "pending", !.claim = "none", !.due = TRUE]
    ELSE row

Recovered(row) ==
    IF row.status = "running" /\ row.claim = "stale"
    THEN IF row.attempts >= MaxAttempts
         THEN [row EXCEPT !.status = "failed"]
         ELSE [row EXCEPT !.status = "pending", !.claim = "none", !.due = TRUE]
    ELSE row

recover_stale_jobs == rows' = [j \in Jobs |-> Recovered(rows[j])]

WorkerStart(w) ==
    /\ pc[w] = "down"
    /\ recover_stale_jobs
    /\ turn' = TurnsAfter(rows, rows')
    /\ pc' = [pc EXCEPT ![w] = "polling"]
    /\ UNCHANGED <<held, snap, req, used, ticket>>

\* The session and what it loaded are gone.
EndSession(w, place) ==
    /\ pc' = [pc EXCEPT ![w] = place]
    /\ held' = [held EXCEPT ![w] = 0]
    /\ snap' = [snap EXCEPT ![w] = AbsentRow]
    /\ ticket' = [ticket EXCEPT ![w] = 0]

\* Mutant: only jobs that were never tried are due.
ClaimableOnce(j) ==
    /\ rows[j].status = "pending"
    /\ rows[j].due
    /\ ~rows[j].cancel
    /\ rows[j].attempts = 0

Claimable(j) ==
    /\ rows[j].status = "pending"
    /\ rows[j].due
    /\ ~rows[j].cancel

\* claim_next_job, first statement: the oldest due job.
SelectCandidate(w) ==
    /\ pc[w] = "polling"
    /\ \E j \in Jobs :
        /\ Claimable(j)
        /\ \A i \in Jobs : Claimable(i) => j <= i
        /\ held' = [held EXCEPT ![w] = j]
    /\ pc' = [pc EXCEPT ![w] = "selected"]
    /\ UNCHANGED <<rows, snap, req, used, turn, ticket>>

\* Mutant: the update matches the id only.
ClaimGuardDropped(j) == rows[j].status # "absent"

\* claim_next_job, second statement: the compare-and-update on status.
ClaimGuard(j) == rows[j].status = "pending"

ClaimedRow(row) ==
    [row EXCEPT !.status = "running", !.claim = "live", !.attempts = @ + 1]

ClaimUpdate(w) ==
    /\ pc[w] = "selected"
    /\ LET j == held[w] IN
        \/ /\ ClaimGuard(j)
           /\ rows' = [rows EXCEPT ![j] = ClaimedRow(rows[j])]
           /\ pc' = [pc EXCEPT ![w] = "claimed"]
           /\ ticket' = [ticket EXCEPT ![w] = turn[j]]
           /\ UNCHANGED <<held, snap>>
        \/ /\ ~ClaimGuard(j)
           /\ EndSession(w, "polling")
           /\ UNCHANGED rows
    /\ UNCHANGED <<req, used, turn>>

\* db.get after the claim's commit, and the test execute_job begins with.
LoadJob(w) ==
    /\ pc[w] = "claimed"
    /\ snap' = [snap EXCEPT ![w] = rows[held[w]]]
    /\ pc' = [pc EXCEPT ![w] = IF rows[held[w]].cancel THEN "cancelling"
                                                       ELSE "handling"]
    /\ UNCHANGED <<rows, held, req, used, turn, ticket>>

\* What the three commits of execute_job write over the current row.
CancelledRow(row, copy) ==
    [row EXCEPT !.status = Written(@, copy.status, "cancelled")]

FinishedRow(row, copy) ==
    [row EXCEPT !.status = Written(@, copy.status,
                               IF copy.cancel THEN "cancelled" ELSE "completed")]

\* Mutant: off by one.
FinalFailureLate(copy) == copy.attempts > MaxAttempts \/ copy.cancel

FinalFailure(copy) == copy.attempts >= MaxAttempts \/ copy.cancel

FailedRow(row, copy) ==
    IF FinalFailure(copy)
    THEN [row EXCEPT !.status = Written(@, copy.status,
                               IF copy.cancel THEN "cancelled" ELSE "failed")]
    ELSE [row EXCEPT !.status = Written(@, copy.status, "pending"),
                     !.due = FALSE,
                     !.claim = Written(@, copy.claim, "none")]

Commit(w, new) ==
    /\ rows' = [rows EXCEPT ![held[w]] = new]
    /\ turn' = TurnsAfter(rows, rows')
    /\ EndSession(w, "polling")
    /\ UNCHANGED <<req, used>>

CommitCancelled(w) ==
    /\ pc[w] = "cancelling"
    /\ Commit(w, CancelledRow(rows[held[w]], snap[w]))

\* The handler returned; db.refresh(job) reloads the row.
HandlerReturns(w) ==
    /\ pc[w] = "handling"
    /\ snap' = [snap EXCEPT ![w] = rows[held[w]]]
    /\ pc' = [pc EXCEPT ![w] = "finishing"]
    /\ UNCHANGED <<rows, held, req, used, turn, ticket>>

CommitFinished(w) ==
    /\ pc[w] = "finishing"
    /\ Commit(w, FinishedRow(rows[held[w]], snap[w]))

(***************************************************************************)
(* The handler raised.  The except branch reads the session's copy: the    *)
(* one LoadJob took if the handler made no commit in this session, the     *)
(* current row if it did, since a commit expires the copy.                 *)
(***************************************************************************)
HandlerRaises(w) ==
    /\ pc[w] = "handling"
    /\ \E copy \in {snap[w], rows[held[w]]} :
        snap' = [snap EXCEPT ![w] = copy]
    /\ pc' = [pc EXCEPT ![w] = "failing"]
    /\ UNCHANGED <<rows, held, req, used, turn, ticket>>

CommitFailed(w) ==
    /\ pc[w] = "failing"
    /\ Commit(w, FailedRow(rows[held[w]], snap[w]))

\* The process dies, or stops between two jobs after SIGTERM.
WorkerDown(w) ==
    /\ pc[w] # "down"
    /\ used.crashes < MaxCrashes
    /\ used' = [used EXCEPT !.crashes = @ + 1]
    /\ EndSession(w, "down")
    /\ UNCHANGED <<rows, req, turn>>

-----------------------------------------------------------------------------
(***************************************************************************)
(* API requests: the endpoint loads the row, then the service commits.     *)
(***************************************************************************)
RequestAccepted(op, row) ==
    IF op = "retry" THEN row.status \in {"failed", "cancelled"}
                    ELSE row.status # "absent"

BeginRequest(c, op, j) ==
    /\ req[c].op = "idle"
    /\ used.requests < MaxRequests
    /\ RequestAccepted(op, rows[j])
    /\ req' = [req EXCEPT ![c] = [op |-> op, job |-> j, snap |-> rows[j]]]
    /\ used' = [used EXCEPT !.requests = @ + 1]
    /\ UNCHANGED <<rows, pc, held, snap, turn, ticket>>

cancel_job(row, copy) ==
    [row EXCEPT !.cancel = Written(@, copy.cancel, TRUE),
                !.status = IF copy.status = "pending"
                           THEN Written(@, copy.status, "cancelled") ELSE @]

retry_job(row, copy) ==
    [row EXCEPT !.status = Written(@, copy.status, "pending"),
                !.cancel = Written(@, copy.cancel, FALSE),
                !.due = TRUE,
                !.claim = Written(@, copy.claim, "none"),
                !.attempts = Written(@, copy.attempts, 0)]

CommitRequest(c) ==
    /\ req[c].op # "idle"
    /\ LET j == req[c].job IN
        rows' = [rows EXCEPT ![j] = IF req[c].op = "cancel"
                                    THEN cancel_job(@, req[c].snap)
                                    ELSE retry_job(@, req[c].snap)]
    /\ turn' = TurnsAfter(rows, rows')
    /\ req' = [req EXCEPT ![c] = IdleRequest]
    /\ UNCHANGED <<pc, held, snap, used, ticket>>

-----------------------------------------------------------------------------
WorkerStep(w) ==
    \/ WorkerStart(w)
    \/ SelectCandidate(w)
    \/ ClaimUpdate(w)
    \/ LoadJob(w)
    \/ CommitCancelled(w)
    \/ HandlerReturns(w)
    \/ CommitFinished(w)
    \/ HandlerRaises(w)
    \/ CommitFailed(w)

Next ==
    \/ \E j \in Jobs : enqueue_job(j) \/ BackoffElapses(j) \/ ClaimExpires(j)
    \/ \E w \in Workers : WorkerStep(w) \/ WorkerDown(w)
    \/ \E c \in Clients :
        \/ \E op \in {"cancel", "retry"}, j \in Jobs : BeginRequest(c, op, j)
        \/ CommitRequest(c)

Spec == Init /\ [][Next]_vars

(***************************************************************************)
(* Fairness: a started worker keeps running its loop, handlers terminate   *)
(* (their I/O has timeouts), a dead worker is restarted by its supervisor, *)
(* and clocks advance.  Nothing forces a healthy worker to restart, so     *)
(* recover_stale_jobs need not run again after the last crash.             *)
(***************************************************************************)
Fairness ==
    /\ \A w \in Workers : WF_vars(WorkerStep(w))
    /\ \A j \in Jobs : WF_vars(BackoffElapses(j)) /\ WF_vars(ClaimExpires(j))
    /\ \A c \in Clients : WF_vars(CommitRequest(c))

FairSpec == Spec /\ Fairness

-----------------------------------------------------------------------------
(***************************************************************************)
(* Timely schedules: no claim outlives the claim timeout while its worker  *)
(* is still on the job, and no request commits over a row that changed     *)
(* since it was loaded.  The code enforces neither; what the queue         *)
(* guarantees under them is what it was designed to guarantee.             *)
(***************************************************************************)
WorksOn(w, j) == pc[w] \in Working /\ held[w] = j

TimelyNext ==
    \/ \E j \in Jobs :
        \/ enqueue_job(j)
        \/ BackoffElapses(j)
        \/ (\A w \in Workers : ~WorksOn(w, j)) /\ ClaimExpires(j)
    \/ \E w \in Workers : WorkerStep(w) \/ WorkerDown(w)
    \/ \E c \in Clients :
        \/ \E op \in {"cancel", "retry"}, j \in Jobs : BeginRequest(c, op, j)
        \/ req[c].op # "idle" /\ req[c].snap = rows[req[c].job] /\ CommitRequest(c)

TimelySpec == Init /\ [][TimelyNext]_vars

-----------------------------------------------------------------------------
(***************************************************************************)
(* Properties.                                                             *)
(***************************************************************************)

\* Types of the rows, of the workers' and requests' copies and of the bounds.
TypeOK ==
    /\ rows \in [Jobs -> Row]
    /\ pc \in [Workers -> Places]
    /\ held \in [Workers -> Jobs \cup {0}]
    /\ snap \in [Workers -> Row]
    /\ req \in [Clients -> Requests]
    /\ used \in [requests : 0..MaxRequests, crashes : 0..MaxCrashes]
    /\ turn \in [Jobs -> Nat]
    /\ ticket \in [Workers -> Nat]
    /\ \A w \in Workers : pc[w] \notin {"down", "polling"} => held[w] \in Jobs
    /\ \A c \in Clients : req[c].op # "idle" => req[c].job \in Jobs

\* The compare-and-update of claim_next_job: however workers, recovery and
\* retries interleave, one return to pending is claimed by at most one worker.
\* Two workers on one job hold different turns, no turn is claimed before it
\* came, and a pending row's turn is still unclaimed.
OneClaimPerTurn ==
    /\ \A w1, w2 \in Workers : \A j \in Jobs :
        WorksOn(w1, j) /\ WorksOn(w2, j) /\ w1 # w2 => ticket[w1] # ticket[w2]
    /\ \A w \in Workers : \A j \in Jobs :
        WorksOn(w, j) => /\ ticket[w] <= turn[j]
                         /\ rows[j].status = "pending" => ticket[w] < turn[j]

\* At most one worker is between the claim and the commit of a job.
ExclusiveRun ==
    \A w1, w2 \in Workers : \A j \in Jobs :
        WorksOn(w1, j) /\ WorksOn(w2, j) => w1 = w2

\* A job is never claimed more often than max_attempts since its last retry.
AttemptsBounded == \A j \in Jobs : rows[j].attempts <= MaxAttempts

\* On timely schedules a held job is running under a live claim, ...
HeldIsLive ==
    \A w \in Workers : \A j \in Jobs :
        WorksOn(w, j) => rows[j].status = "running" /\ rows[j].claim = "live"

\* ... the copy that decides a failure knows the attempts, ...
CopiesCount ==
    \A w \in Workers :
        pc[w] \in {"cancelling", "handling", "finishing", "failing"}
        => snap[w].attempts = rows[held[w]].attempts

\* ... a retry in flight was accepted for a finished job, ...
RetriesFinished ==
    \A c \in Clients :
        req[c].op = "retry" => req[c].snap.status \in {"failed", "cancelled"}

\* ... and what is pending has an attempt left.
PendingHasAttempts ==
    \A j \in Jobs : rows[j].status = "pending" => rows[j].attempts < MaxAttempts

\* The inductive invariant of the timely schedules: exclusive execution and
\* the bound on attempts follow from what a claim, a copy and a request in
\* flight know of their row.
TimelyInv ==
    /\ TypeOK
    /\ HeldIsLive
    /\ ExclusiveRun
    /\ CopiesCount
    /\ RetriesFinished
    /\ PendingHasAttempts
    /\ AttemptsBounded

\* A completed job never goes back to the queue: retry_job refuses it.
CompletedStaysDone ==
    [][\A j \in Jobs :
        rows[j].status = "completed" => rows'[j].status # "pending"]_vars

\* What the users of the queue see of its rows.
Seen(row) == [status |-> row.status, attempts |-> row.attempts]

SeenQueue == [j \in Jobs |-> Seen(rows[j])]

Abstract == INSTANCE JobQueue WITH queue <- SeenQueue

\* On timely schedules jobs.py is the queue its users rely on: whatever the
\* commits of workers, recovery and requests do to a row, it looks like one
\* operation of JobQueue on one job, or like one recovery.
ImplementsJobQueue == Abstract!QueueSpec

\* Cancellation reaches every job: a pending one at once, a running one when
\* its handler ends, so that none waits in the queue with a cancellation.
NoCancelledPending ==
    \A j \in Jobs : ~(rows[j].status = "pending" /\ rows[j].cancel)

\* Left behind by a worker that died, until some worker starts again.
Stranded(j) ==
    rows[j].status = "running" /\ \A w \in Workers : ~WorksOn(w, j)

Settled(j) == rows[j].status \in {"absent", "completed", "failed", "cancelled"}

\* Once crashes and requests are over, every job is settled for good, or
\* stranded by a dead worker, or pending with its cancellation requested
\* (the claim query skips it); no other way to hang exists.
SettledOrStranded ==
    \A j \in Jobs :
        <>[](Settled(j) \/ Stranded(j)
             \/ (rows[j].status = "pending" /\ rows[j].cancel))
=============================================================================
