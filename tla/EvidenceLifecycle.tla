-------------------------- MODULE EvidenceLifecycle --------------------------
(***************************************************************************)
(* Evidence retention, legal holds and two-person disposition:             *)
(* app/services/evidence.py, the evidence endpoints of app/v13.py and      *)
(* app/v14.py and their review tasks, composed with the job queue.         *)
(*                                                                         *)
(* A request is a sequence of steps between its load, its commits and the  *)
(* calls that follow them; a job is the steps of its handler.  The object  *)
(* store is not part of a transaction: an object is deleted before the     *)
(* commit that records it.  Contents, digests and the error texts are left *)
(* out.                                                                    *)
(***************************************************************************)
EXTENDS JobQueue, FiniteSets

CONSTANTS
    Evidence,       \* rows of evidence_records, and their objects
    Dispositions,   \* rows of evidence_dispositions
    Tasks,          \* rows of governance_review_tasks
    Requests,       \* numbered slots of API requests in flight together
    Identities,     \* authenticated subjects
    Development,    \* the subject exempt from the two-person rule
    MaxRequests,    \* bound: API requests in a behaviour
    MaxCrashes      \* bound: deaths of a worker or of an API process

\* NULL columns and the retention job name no row and no identity.
ASSUME EvidenceAssumption ==
    /\ MaxAttempts \in Nat \ {0} /\ MaxRequests \in Nat /\ MaxCrashes \in Nat
    /\ Dispositions # {} /\ Identities # {}
    /\ {"none", "retention"} \cap Dispositions = {}
    /\ "none" \notin Identities

VARIABLES
    conf,       \* settings: evidence_backend, evidence_disposition_approval_required
    records,    \* evidence_records
    object,     \* the store: which objects exist, which are locked by it
    disp,       \* evidence_dispositions
    tasks,      \* governance_review_tasks
    payload,    \* the disposition of a job, or "retention"
    cancels,    \* jobs whose cancel_requested is set
    exec,       \* the handler of a running job
    req,        \* the API request in each slot
    hist        \* history, and what the bounds count

vars == <<queue, conf, records, object, disp, tasks, payload, cancels, exec, req, hist>>

INSTANCE GovernanceReviews WITH Subjects <- Dispositions

Record == [hold : BOOLEAN, expired : BOOLEAN, deleted : BOOLEAN]
Object == [exists : BOOLEAN, locked : BOOLEAN]

DispositionStatuses == {"absent", "pending", "approved", "rejected", "executed"}
ACTIVE == {"pending", "approved"}
NoOne == "none"
Disposition ==
    [status : DispositionStatuses, evidence : Evidence \cup {"none"},
     by : Identities \cup {NoOne, "retention"}, approver : Identities \cup {NoOne}]
AbsentDisposition ==
    [status |-> "absent", evidence |-> "none", by |-> NoOne, approver |-> NoOne]

\* Steps of a handler.  batch is what it still has to delete or to request a
\* disposition for, gone what it has deleted since its last commit.
Places == {"idle", "begin", "verify", "delete", "commit", "request", "return",
           "raise", "dead"}
Idle == [place |-> "idle", batch |-> {}, gone |-> {}]
Handler == [place : Places, batch : SUBSET Evidence, gone : SUBSET Evidence]

Kinds == {"idle", "request", "approve", "reject", "govern", "delete", "assign"}
NoRequest == [kind |-> "idle", place |-> "idle", about |-> "none", on |-> "none",
              by |-> NoOne, task |-> "none", copy |-> "none", set |-> "none"]

TypeOK ==
    /\ QueueTypeOK
    /\ conf \in [backend : {"local", "s3"}, approval : BOOLEAN]
    /\ records \in [Evidence -> Record]
    /\ object \in [Evidence -> Object]
    /\ disp \in [Dispositions -> Disposition]
    /\ tasks \in [Tasks -> Task]
    /\ payload \in [Jobs -> Dispositions \cup {"none", "retention"}]
    /\ cancels \subseteq Jobs
    /\ exec \in [Jobs -> Handler]
    /\ \A r \in Requests :
        /\ req[r].kind \in Kinds
        /\ req[r].about \in Dispositions \cup {"none"}
        /\ req[r].on \in Evidence \cup {"none"}
    /\ hist \in [requests : 0..MaxRequests, crashes : 0..MaxCrashes,
                 late : SUBSET Evidence, met : SUBSET Dispositions,
                 rejected : SUBSET Dispositions, torn : SUBSET Evidence]

\* An empty system, or one with a disposition waiting for its review.
Init ==
    /\ conf \in [backend : {"local", "s3"}, approval : BOOLEAN]
    /\ records = [e \in Evidence |-> [hold |-> FALSE, expired |-> FALSE,
                                      deleted |-> FALSE]]
    /\ \E locked \in BOOLEAN :
        /\ locked => conf.backend = "s3"
        /\ object = [e \in Evidence |-> [exists |-> TRUE, locked |-> locked]]
    /\ \/ /\ disp = [d \in Dispositions |-> AbsentDisposition]
          /\ ReviewsInit
       \/ \E t \in Tasks, e \in Evidence :
          LET d == CHOOSE c \in Dispositions : TRUE
              i == CHOOSE c \in Identities : TRUE
          IN
          /\ disp = [x \in Dispositions |->
                        IF x = d THEN [AbsentDisposition EXCEPT !.status = "pending",
                                                    !.evidence = e, !.by = i]
                                 ELSE AbsentDisposition]
          /\ tasks = [x \in Tasks |->
                        IF x = t THEN [subject |-> d, status |-> "open"]
                                 ELSE NoTask]
    /\ QueueInit
    /\ payload = [j \in Jobs |-> "none"]
    /\ cancels = {}
    /\ exec = [j \in Jobs |-> Idle]
    /\ req = [r \in Requests |-> NoRequest]
    /\ hist = [requests |-> 0, crashes |-> 0, late |-> {}, met |-> {},
               rejected |-> {}, torn |-> {}]

HasActive(e) == \E d \in Dispositions : disp[d].evidence = e /\ disp[d].status \in ACTIVE
\* Which unused row an insert takes makes no difference.
FreeDisposition(d) ==
    /\ disp[d].status = "absent"
    /\ d = CHOOSE c \in Dispositions : disp[c].status = "absent"

-----------------------------------------------------------------------------
(***************************************************************************)
(* API requests.  Begin loads the rows the endpoint tests; the tests of    *)
(* the endpoint and of the service are made on that copy.                  *)
(***************************************************************************)
\* Another request on the same disposition is in flight (history).
Meets(r, d) == \E q \in Requests \ {r} : req[q].about = d /\ d # "none"

Begin(r, new) ==
    /\ req[r].kind = "idle"
    /\ \A q \in Requests : q < r => req[q].kind # "idle"
    /\ hist.requests < MaxRequests
    /\ req' = [req EXCEPT ![r] = new]
    /\ hist' = [hist EXCEPT !.requests = @ + 1,
                            !.met = IF Meets(r, new.about) THEN @ \cup {new.about}
                                                           ELSE @]
    /\ UNCHANGED <<queue, conf, records, object, disp, tasks, payload, cancels, exec>>

\* create_disposition, up to the insert
BeginDisposition(r, e, i) ==
    /\ ~records[e].deleted
    /\ ~HasActive(e)
    /\ Begin(r, [NoRequest EXCEPT !.kind = "request", !.place = "commit",
                                  !.on = e, !.by = i])

\* Mutant: anyone may approve.
ApprovableAlone(d, i) == disp[d].status = "pending"

\* approve_disposition, the tests
Approvable(d, i) ==
    /\ disp[d].status = "pending"
    /\ disp[d].by # i \/ i = Development

BeginApprove(r, d, i) ==
    /\ Approvable(d, i)
    /\ Begin(r, [NoRequest EXCEPT !.kind = "approve", !.place = "commit",
                                  !.about = d, !.by = i])

BeginReject(r, d, i) ==
    /\ disp[d].status = "pending"
    /\ Begin(r, [NoRequest EXCEPT !.kind = "reject", !.place = "commit",
                                  !.about = d, !.by = i])

\* update_evidence_governance
\* (a value equal to the loaded one is not written)
BeginGovern(r, e, set) ==
    /\ ~records[e].deleted
    /\ CASE set = "hold" -> ~records[e].hold
         [] set = "release" -> records[e].hold
         [] set = "extend" -> records[e].expired
    /\ Begin(r, [NoRequest EXCEPT !.kind = "govern", !.place = "commit", !.on = e,
                                  !.set = set])

\* delete_evidence_record, before the object is deleted
BeginDelete(r, e) ==
    /\ ~records[e].deleted
    /\ ~conf.approval
    /\ ~records[e].hold
    /\ Begin(r, [NoRequest EXCEPT !.kind = "delete", !.place = "delete", !.on = e])

\* assign_governance_review
BeginAssign(r, t) ==
    /\ tasks[t].subject # "none"
    /\ tasks[t].status \in OPEN_STATUSES
    /\ Begin(r, [NoRequest EXCEPT !.kind = "assign", !.place = "commit", !.task = t,
                                  !.about = tasks[t].subject,
                                  !.copy = tasks[t].status])

Continue(r, place) == req' = [req EXCEPT ![r].place = place]
Done(r) == req' = [req EXCEPT ![r] = NoRequest]

\* Between the test of the hold and the deletion of the object.
Deleting(e) ==
    \/ \E j \in Jobs : /\ exec[j].place \in {"verify", "delete"}
                       /\ e \in exec[j].batch
    \/ \E r \in Requests : req[r].place = "delete" /\ req[r].on = e

\* The commit of each kind of request.
create_disposition(r) ==
    /\ req[r].kind = "request" /\ req[r].place = "commit"
    /\ \E d \in Dispositions :
        /\ FreeDisposition(d)
        /\ disp' = [disp EXCEPT ![d] = [AbsentDisposition EXCEPT
                        !.status = "pending", !.evidence = req[r].on, !.by = req[r].by]]
        /\ req' = [req EXCEPT ![r].place = "review", ![r].about = d]
    /\ UNCHANGED <<queue, conf, records, object, tasks, payload, cancels, exec, hist>>

approve_disposition(r) ==
    /\ req[r].kind = "approve" /\ req[r].place = "commit"
    /\ disp' = [disp EXCEPT ![req[r].about].status = "approved",
                            ![req[r].about].approver = req[r].by]
    /\ Continue(r, "review")
    /\ UNCHANGED <<queue, conf, records, object, tasks, payload, cancels, exec, hist>>

reject_disposition(r) ==
    /\ req[r].kind = "reject" /\ req[r].place = "commit"
    /\ disp' = [disp EXCEPT ![req[r].about].status = "rejected"]
    /\ hist' = [hist EXCEPT !.rejected = @ \cup {req[r].about}]
    /\ Continue(r, "review")
    /\ UNCHANGED <<queue, conf, records, object, tasks, payload, cancels, exec>>

\* A hold, a release or a later date.
Governed(record, set) ==
    CASE set = "hold" -> [record EXCEPT !.hold = TRUE]
      [] set = "release" -> [record EXCEPT !.hold = FALSE]
      [] set = "extend" -> [record EXCEPT !.expired = FALSE]

update_evidence_governance(r) ==
    /\ req[r].kind = "govern" /\ req[r].place = "commit"
    /\ LET e == req[r].on IN
        /\ records' = [records EXCEPT ![e] = Governed(@, req[r].set)]
        /\ hist' = IF Deleting(e) /\ records'[e] # records[e]
                   THEN [hist EXCEPT !.late = @ \cup {e}] ELSE hist
    /\ Done(r)
    /\ UNCHANGED <<queue, conf, object, disp, tasks, payload, cancels, exec>>

AssignTask(r) ==
    /\ req[r].kind = "assign" /\ req[r].place = "commit"
    /\ assign_review_task(req[r].task, req[r].copy)
    /\ Done(r)
    /\ UNCHANGED <<queue, conf, records, object, disp, payload, cancels, exec, hist>>

\* delete_evidence_record: the object, which may fail, then the record.
DeleteNow(r) ==
    /\ req[r].kind = "delete" /\ req[r].place = "delete"
    /\ \/ /\ object' = [object EXCEPT ![req[r].on].exists = FALSE]
          /\ Continue(r, "commit")
       \/ Done(r) /\ UNCHANGED object
    /\ UNCHANGED <<queue, conf, records, disp, tasks, payload, cancels, exec, hist>>

delete_evidence_record(r) ==
    /\ req[r].kind = "delete" /\ req[r].place = "commit"
    /\ records' = [records EXCEPT ![req[r].on].deleted = TRUE]
    /\ Done(r)
    /\ UNCHANGED <<queue, conf, object, disp, tasks, payload, cancels, exec, hist>>

\* The review task, after the commit: opened by a request, completed by a
\* decision.  An approval then enqueues the job.
Review(r) ==
    /\ req[r].place = "review"
    /\ IF req[r].kind = "request" THEN create_review_task(req[r].about)
                                  ELSE complete_review_task(req[r].about)
    /\ IF req[r].kind = "approve" THEN Continue(r, "enqueue") ELSE Done(r)
    /\ UNCHANGED <<queue, conf, records, object, disp, payload, cancels, exec, hist>>

EnqueueDisposition(r) ==
    /\ req[r].place = "enqueue"
    /\ \E j \in Jobs :
        /\ \A i \in Jobs : i < j => queue[i].status # "absent"
        /\ Enqueue(j)
        /\ payload' = [payload EXCEPT ![j] = req[r].about]
    /\ Done(r)
    /\ UNCHANGED <<conf, records, object, disp, tasks, cancels, exec, hist>>

\* A direct deletion that dies before its commit (history).
Torn(r) == IF req[r].kind = "delete" /\ req[r].place = "commit" THEN {req[r].on} ELSE {}

\* The API process dies between two steps of a request.
RequestDies(r) ==
    /\ req[r].kind # "idle"
    /\ hist.crashes < MaxCrashes
    /\ hist' = [hist EXCEPT !.crashes = @ + 1,
                            !.torn = @ \cup Torn(r)]
    /\ Done(r)
    /\ UNCHANGED <<queue, conf, records, object, disp, tasks, payload, cancels, exec>>

enqueue_evidence_retention ==
    /\ hist.requests < MaxRequests
    /\ hist' = [hist EXCEPT !.requests = @ + 1]
    /\ \E j \in Jobs :
        /\ \A i \in Jobs : i < j => queue[i].status # "absent"
        /\ Enqueue(j)
        /\ payload' = [payload EXCEPT ![j] = "retention"]
    /\ UNCHANGED <<conf, records, object, disp, tasks, cancels, exec, req>>

\* The operator's cancel_job: a pending job is cancelled at once, a running one
\* when its handler ends ...
cancel_job(j) ==
    /\ hist.requests < MaxRequests
    /\ hist' = [hist EXCEPT !.requests = @ + 1]
    /\ cancels' = cancels \cup {j}
    /\ \/ queue[j].status = "pending" /\ Cancel(j)
       \/ queue[j].status = "running" /\ UNCHANGED queue
    /\ UNCHANGED <<conf, records, object, disp, tasks, payload, exec, req>>

\* ... and retry_job.
retry_job(j) ==
    /\ hist.requests < MaxRequests
    /\ hist' = [hist EXCEPT !.requests = @ + 1]
    /\ Retry(j)
    /\ cancels' = cancels \ {j}
    /\ UNCHANGED <<conf, records, object, disp, tasks, payload, exec, req>>

-----------------------------------------------------------------------------
(***************************************************************************)
(* The clock: retention periods end.                                       *)
(***************************************************************************)
RetentionEnds(e) ==
    /\ ~records[e].expired
    /\ ~records[e].deleted
    /\ records' = [records EXCEPT ![e].expired = TRUE]
    /\ UNCHANGED <<queue, conf, object, disp, tasks, payload, cancels, exec, req, hist>>

-----------------------------------------------------------------------------
(***************************************************************************)
(* The handlers of evidence.disposition and evidence.retention.            *)
(***************************************************************************)
Go(j, place) == exec' = [exec EXCEPT ![j].place = place]

\* A job that was recovered with its cancellation requested is not claimed.
StartJob(j) ==
    /\ j \notin cancels
    /\ Claim(j)
    /\ exec' = [exec EXCEPT ![j] = [Idle EXCEPT !.place = "begin"]]
    /\ UNCHANGED <<conf, records, object, disp, tasks, payload, cancels, req, hist>>

\* execute_disposition, up to the object lock
LoadDisposition(j) ==
    /\ exec[j].place = "begin" /\ payload[j] # "retention"
    /\ LET d == payload[j]
           e == disp[d].evidence
       IN  exec' = [exec EXCEPT ![j] =
            CASE disp[d].status = "executed" -> [@ EXCEPT !.place = "return"]
              [] disp[d].status = "approved" /\ ~records[e].hold ->
                    [@ EXCEPT !.batch = {e},
                              !.place = IF conf.backend = "s3" THEN "verify"
                                                               ELSE "delete"]
              [] OTHER -> [@ EXCEPT !.place = "raise"]]
    /\ UNCHANGED <<queue, conf, records, object, disp, tasks, payload, cancels, req, hist>>

\* The head of a deleted object fails: its lock is "unavailable".
LockVerified(o) == o.exists /\ ~o.locked

verify_object_lock(j) ==
    /\ exec[j].place = "verify"
    /\ \/ (\A e \in exec[j].batch : LockVerified(object[e])) /\ Go(j, "delete")
       \/ Go(j, "raise")
    /\ UNCHANGED <<queue, conf, records, object, disp, tasks, payload, cancels, req, hist>>

\* delete_evidence on one record of the batch; a failure ends a disposition
\* and skips one record of a purge.
delete_evidence(j) ==
    /\ exec[j].place = "delete"
    /\ \E e \in exec[j].batch :
        \/ /\ object' = [object EXCEPT ![e].exists = FALSE]
           /\ exec' = [exec EXCEPT ![j].batch = @ \ {e}, ![j].gone = @ \cup {e},
                                   ![j].place = IF exec[j].batch = {e} THEN "commit"
                                                                       ELSE @]
        \/ /\ exec' = [exec EXCEPT ![j] =
                IF payload[j] # "retention" THEN [@ EXCEPT !.place = "raise"]
                ELSE [exec[j] EXCEPT !.batch = @ \ {e},
                                    !.place = IF exec[j].batch = {e} THEN "commit" ELSE @]]
           /\ UNCHANGED object
    /\ UNCHANGED <<queue, conf, records, disp, tasks, payload, cancels, req, hist>>

\* Mutant: the records are left as they were.
DeletedNothing(j) == records

Deleted(j) ==
    [e \in Evidence |-> IF e \in exec[j].gone
                        THEN [records[e] EXCEPT !.deleted = TRUE] ELSE records[e]]

\* The commit that records the deletions.
execute_disposition(j) ==
    /\ exec[j].place = "commit"
    /\ records' = Deleted(j)
    /\ disp' = IF payload[j] = "retention" THEN disp
               ELSE [disp EXCEPT ![payload[j]].status = "executed"]
    /\ Go(j, "return")
    /\ UNCHANGED <<queue, conf, object, tasks, payload, cancels, req, hist>>

\* Mutant: a hold does not exclude a record from the purge.
PurgeableHeld(e) == records[e].expired /\ ~records[e].deleted

Purgeable(e) == records[e].expired /\ ~records[e].deleted /\ ~records[e].hold

\* purge_expired_evidence: the selection and, with approval required, the
\* lookup of active dispositions.
SelectExpired(j) ==
    /\ exec[j].place = "begin" /\ payload[j] = "retention"
    /\ LET due == {e \in Evidence : Purgeable(e)}
           batch == IF conf.approval THEN {e \in due : ~HasActive(e)} ELSE due
       IN  exec' = [exec EXCEPT ![j] =
            IF batch = {} THEN [@ EXCEPT !.place = "return"]
            ELSE [@ EXCEPT !.batch = batch,
                           !.place = IF conf.approval THEN "request" ELSE "delete"]]
    /\ UNCHANGED <<queue, conf, records, object, disp, tasks, payload, cancels, req, hist>>

\* One commit inserts a disposition for each record; no review task is opened.
purge_expired_evidence(j) ==
    /\ exec[j].place = "request"
    /\ \E rows \in [exec[j].batch -> Dispositions] :
        /\ \A e \in exec[j].batch : disp[rows[e]].status = "absent"
        /\ \A e, f \in exec[j].batch : rows[e] = rows[f] => e = f
        /\ disp' = [d \in Dispositions |->
            IF \E e \in exec[j].batch : rows[e] = d
            THEN [AbsentDisposition EXCEPT !.status = "pending", !.by = "retention",
                    !.evidence = CHOOSE e \in exec[j].batch : rows[e] = d]
            ELSE disp[d]]
    /\ exec' = [exec EXCEPT ![j].place = "return", ![j].batch = {}]
    /\ UNCHANGED <<queue, conf, records, object, tasks, payload, cancels, req, hist>>

\* execute_job after the handler: the job ends or is tried again.
JobReturns(j) ==
    /\ exec[j].place = "return"
    /\ j \notin cancels
    /\ Complete(j)
    /\ exec' = [exec EXCEPT ![j] = Idle]
    /\ UNCHANGED <<conf, records, object, disp, tasks, payload, cancels, req, hist>>

\* A request to cancel is seen before the handler and after its return, and by
\* an except branch whose copy of the job is recent enough.
JobCancelled(j) ==
    /\ exec[j].place \in {"begin", "return", "raise"}
    /\ j \in cancels
    /\ Cancel(j)
    /\ exec' = [exec EXCEPT ![j] = Idle]
    /\ UNCHANGED <<conf, records, object, disp, tasks, payload, cancels, req, hist>>

\* mark_disposition_error only stores the text of the error.
JobRaises(j) ==
    /\ exec[j].place = "raise"
    /\ Fail(j)
    /\ exec' = [exec EXCEPT ![j] = Idle]
    /\ UNCHANGED <<conf, records, object, disp, tasks, payload, cancels, req, hist>>

\* The worker dies; some worker started later recovers the job.
WorkerDies(j) ==
    /\ exec[j].place \notin {"idle", "dead"}
    /\ hist.crashes < MaxCrashes
    /\ hist' = [hist EXCEPT !.crashes = @ + 1,
                            !.torn = IF payload[j] = "retention" THEN @ \cup exec[j].gone
                                                                 ELSE @]
    /\ exec' = [exec EXCEPT ![j] = [Idle EXCEPT !.place = "dead"]]
    /\ UNCHANGED <<queue, conf, records, object, disp, tasks, payload, cancels, req>>

RecoverJob(j) ==
    /\ exec[j].place = "dead"
    /\ Recover({j})
    /\ exec' = [exec EXCEPT ![j] = Idle]
    /\ UNCHANGED <<conf, records, object, disp, tasks, payload, cancels, req, hist>>

-----------------------------------------------------------------------------
RequestStep(r) ==
    \/ create_disposition(r) \/ approve_disposition(r) \/ reject_disposition(r)
    \/ update_evidence_governance(r) \/ AssignTask(r)
    \/ DeleteNow(r) \/ delete_evidence_record(r)
    \/ Review(r) \/ EnqueueDisposition(r)

JobStep(j) ==
    \/ StartJob(j) \/ LoadDisposition(j) \/ verify_object_lock(j)
    \/ delete_evidence(j) \/ execute_disposition(j)
    \/ SelectExpired(j) \/ purge_expired_evidence(j)
    \/ JobReturns(j) \/ JobRaises(j) \/ JobCancelled(j)

Next ==
    \/ \E r \in Requests :
        \/ \E e \in Evidence, i \in Identities : BeginDisposition(r, e, i)
        \/ \E d \in Dispositions, i \in Identities :
            BeginApprove(r, d, i) \/ BeginReject(r, d, i)
        \/ \E e \in Evidence :
            \/ \E set \in {"hold", "release", "extend"} : BeginGovern(r, e, set)
            \/ BeginDelete(r, e)
        \/ \E t \in Tasks : BeginAssign(r, t)
        \/ RequestStep(r)
        \/ RequestDies(r)
    \/ enqueue_evidence_retention
    \/ \E e \in Evidence : RetentionEnds(e)
    \/ \E j \in Jobs : JobStep(j) \/ WorkerDies(j) \/ RecoverJob(j) \/ cancel_job(j) \/ retry_job(j)

Spec == Init /\ [][Next]_vars

\* Requests run to their end unless their process dies, workers run their
\* jobs; recovery is not fair, for it waits for the start of some worker.
FairSpec ==
    /\ Spec
    /\ \A r \in Requests : WF_vars(RequestStep(r))
    /\ \A j \in Jobs : WF_vars(JobStep(j))

-----------------------------------------------------------------------------
(***************************************************************************)
(* Properties.                                                             *)
(***************************************************************************)

\* No object is deleted while its record is under legal hold, whatever order
\* holds, approvals, purges and direct deletions take, unless the hold was
\* placed between the test of that deletion and the deletion itself.
HoldRespected ==
    [][\A e \in Evidence :
        object[e].exists /\ ~object'[e].exists =>
            ~records[e].hold \/ e \in hist.late]_vars

\* With approval required, an object is gone only by a disposition that a
\* second identity approved; a rejected disposition deletes nothing, unless
\* requests on it overlapped.
DisposedWasApproved ==
    conf.approval =>
        \A e \in Evidence : ~object[e].exists =>
            \E d \in Dispositions :
                /\ disp[d].evidence = e
                /\ disp[d].approver # NoOne
                /\ disp[d].approver # disp[d].by \/ disp[d].by = Development
                /\ d \in hist.rejected => d \in hist.met

\* No worker will repeat the job unless one is started to recover it or an
\* operator retries it.
Stopped(j) ==
    \/ exec[j].place = "dead"
    \/ queue[j].status \in {"failed", "cancelled"}
    \/ queue[j].status = "pending" /\ j \in cancels

\* A deleted object is finally recorded as deleted, also when the worker died in
\* between and the job is recovered.  What the code leaves unrecorded: the object
\* of a direct deletion or a purge whose process died in between, for nothing
\* repeats the one and the other's next selection may find a hold; and the
\* object of a disposition whose job, after a crash, waits for its recovery,
\* failed again (on S3 the lock of an object that is gone cannot be verified) or
\* was cancelled.
DeletionRecorded ==
    \A e \in Evidence :
        []<>(\/ object[e].exists
             \/ records[e].deleted
             \/ e \in hist.torn
             \/ /\ hist.crashes > 0
                /\ \E j \in Jobs :
                    /\ Stopped(j)
                    /\ payload[j] \in Dispositions
                    /\ disp[payload[j]].evidence = e)

\* A review task still open has a subject still pending, or the request that
\* will complete it is on its way; otherwise requests on the subject overlapped
\* or the process of one died.
ReviewsClose ==
    \A t \in Tasks : \A d \in Dispositions :
        IsOpen(t, d) =>
            \/ disp[d].status = "pending"
            \/ \E r \in Requests : req[r].about = d /\ req[r].place = "review"
            \/ d \in hist.met
            \/ hist.crashes > 0

\* Approval by a second identity is what a disposition takes, and all it takes:
\* approve_disposition and reject_disposition also close its review.
ApprovalDecides == DisposedWasApproved /\ ReviewsClose
=============================================================================
