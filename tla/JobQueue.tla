------------------------------ MODULE JobQueue ------------------------------
(***************************************************************************)
(* What the durable queue of app/services/jobs.py promises the producers   *)
(* and the handlers of jobs, on timely schedules: a job is run by one      *)
(* worker at a time and at most MaxAttempts times per retry.               *)
(* BackgroundJobs implements it; the modules whose work is done by jobs    *)
(* are composed with it.                                                   *)
(***************************************************************************)
EXTENDS Naturals

CONSTANTS
    Jobs,           \* rows of background_jobs
    MaxAttempts     \* max_attempts of every job

VARIABLE
    queue           \* status and attempts of every row

JobStatuses == {"absent", "pending", "running", "completed", "failed", "cancelled"}

AbsentJob == [status |-> "absent", attempts |-> 0]

QueueTypeOK ==
    queue \in [Jobs -> [status : JobStatuses, attempts : 0..MaxAttempts]]

QueueInit == queue = [j \in Jobs |-> AbsentJob]

\* enqueue_job
Enqueue(j) ==
    /\ queue[j].status = "absent"
    /\ queue' = [queue EXCEPT ![j] = [status |-> "pending", attempts |-> 0]]

\* claim_next_job
Claim(j) ==
    /\ queue[j].status = "pending"
    /\ queue' = [queue EXCEPT ![j] = [status |-> "running",
                                      attempts |-> @.attempts + 1]]

AfterFailure(row) ==
    [row EXCEPT !.status = IF row.attempts >= MaxAttempts THEN "failed"
                                                          ELSE "pending"]

\* execute_job: the handler returned, or raised, or the job was cancelled.
Complete(j) ==
    /\ queue[j].status = "running"
    /\ queue' = [queue EXCEPT ![j].status = "completed"]

Fail(j) ==
    /\ queue[j].status = "running"
    /\ queue' = [queue EXCEPT ![j] = AfterFailure(@)]

\* recover_stale_jobs: the workers of these jobs died.
Recover(lost) ==
    /\ \A j \in lost : queue[j].status = "running"
    /\ queue' = [j \in Jobs |-> IF j \in lost THEN AfterFailure(queue[j])
                                              ELSE queue[j]]

\* cancel_job, also when it takes effect at the end of a running handler.
Cancel(j) ==
    /\ queue[j].status \in {"pending", "running"}
    /\ queue' = [queue EXCEPT ![j].status = "cancelled"]

\* retry_job
Retry(j) ==
    /\ queue[j].status \in {"failed", "cancelled"}
    /\ queue' = [queue EXCEPT ![j] = [status |-> "pending", attempts |-> 0]]

QueueNext ==
    \/ \E j \in Jobs : \/ Enqueue(j) \/ Claim(j) \/ Complete(j) \/ Fail(j)
                       \/ Cancel(j) \/ Retry(j)
    \/ \E lost \in SUBSET Jobs : Recover(lost)

QueueSpec == QueueInit /\ [][QueueNext]_queue
=============================================================================
