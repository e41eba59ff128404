-------------------------- MODULE IdentityLifecycle --------------------------
(***************************************************************************)
(* A SCIM user, a group and the deprovisioning workflow:                   *)
(* app/services/identity.py, its endpoints in app/v13.py and app/v14.py,   *)
(* and the job identity.deprovision, composed with the job queue.          *)
(*                                                                         *)
(* A request writes what it computed from the row it loaded; a column is   *)
(* written only when its value differs from the loaded one.  The JSON of a *)
(* resource is one column: for the user, active in that JSON is kept apart *)
(* from the column active.  Other attributes are left out.                 *)
(***************************************************************************)
EXTENDS JobQueue, FiniteSets

CONSTANTS
    Workflows,      \* rows of identity_deprovision_workflows
    Clients         \* numbered slots of SCIM requests in flight together

ASSUME IdentityAssumption == Workflows \subseteq Nat \ {0} /\ MaxAttempts \in Nat \ {0}

VARIABLES
    user,       \* the columns active and data_json.active of the user
    member,     \* whether the group lists the user
    workflow,   \* status of the workflows
    payload,    \* the workflow of a job
    cancels,    \* jobs whose cancel_requested is set
    handler,    \* the handler of a running job
    scim,       \* the SCIM request in each slot
    hist        \* history: what clients asked for, crashes and cancellations

ivars == <<queue, user, member, workflow, payload, cancels, handler, scim, hist>>

WorkflowStatuses == {"absent", "pending", "completed", "failed"}
NoHandler == [place |-> "idle", active |-> FALSE, member |-> FALSE]
NoClient == [kind |-> "idle", place |-> "idle", to |-> FALSE, put |-> FALSE,
             copy |-> FALSE, data |-> FALSE, workflow |-> 0]

IdentityTypeOK ==
    /\ QueueTypeOK
    /\ user \in [active : BOOLEAN, data : BOOLEAN]
    /\ member \in BOOLEAN
    /\ workflow \in [Workflows -> WorkflowStatuses]
    /\ payload \in [Jobs -> Workflows \cup {0}]
    /\ cancels \subseteq Jobs

IdentityInit ==
    /\ QueueInit
    /\ user = [active |-> TRUE, data |-> TRUE]
    /\ member = TRUE
    /\ workflow = [w \in Workflows |-> "absent"]
    /\ payload = [j \in Jobs |-> 0]
    /\ cancels = {}
    /\ handler = [j \in Jobs |-> NoHandler]
    /\ scim = [c \in Clients |-> NoClient]
    /\ hist = [asked |-> FALSE, overlap |-> FALSE, crashed |-> FALSE,
               cancelled |-> FALSE]

Written(current, loaded, assigned) == IF assigned = loaded THEN current ELSE assigned

Handling == \E j \in Jobs : handler[j].place = "commit"

-----------------------------------------------------------------------------
(***************************************************************************)
(* SCIM requests.  PUT says what the resource is to be, PATCH changes some *)
(* attribute of the loaded JSON and writes it back, DELETE asks for a      *)
(* deprovisioning.                                                         *)
(***************************************************************************)
\* A request in flight together with another one, or with the handler, may
\* write an old copy (history).
BeginScim(c, new) ==
    /\ scim[c].kind = "idle"
    /\ \A d \in Clients : d < c => scim[d].kind # "idle"
    /\ scim' = [scim EXCEPT ![c] = new]
    /\ hist' = [hist EXCEPT !.overlap = @ \/ Handling
                                          \/ \E d \in Clients : scim[d].kind # "idle"]
    /\ UNCHANGED <<queue, user, member, workflow, payload, cancels, handler>>

BeginPutUser(c, to) ==
    BeginScim(c, [NoClient EXCEPT !.kind = "user", !.place = "write", !.to = to,
                !.put = TRUE, !.copy = user.active, !.data = user.data])

BeginPatchUser(c) ==
    BeginScim(c, [NoClient EXCEPT !.kind = "user", !.place = "write", !.to = user.data,
                !.copy = user.active, !.data = user.data])

BeginDeleteUser(c) ==
    BeginScim(c, [NoClient EXCEPT !.kind = "user", !.place = "lookup",
                !.copy = user.active, !.data = user.data])

BeginPutGroup(c, to) ==
    BeginScim(c, [NoClient EXCEPT !.kind = "group", !.place = "write", !.to = to,
                !.put = TRUE])

BeginPatchGroup(c) ==
    BeginScim(c, [NoClient EXCEPT !.kind = "group", !.place = "write", !.to = member])

\* The client wants the user active, or in the group, after a deprovisioning
\* was requested (history).
Asked(c) == scim[c].put /\ scim[c].to /\ \E w \in Workflows : workflow[w] # "absent"

\* replace_resource on a user, also at the end of patch_resource; the JSON
\* changes in some attribute and is written as a whole.  A deprovisioning
\* follows when the user was active and is not any more.
replace_resource(c) ==
    /\ scim[c].place = "write" /\ scim[c].kind = "user"
    /\ user' = [active |-> Written(user.active, scim[c].copy, scim[c].to),
                data |-> scim[c].to]
    /\ scim' = [scim EXCEPT ![c] =
                    IF scim[c].copy /\ ~user'.active
                    THEN [@ EXCEPT !.place = "lookup", !.copy = user'.active,
                                   !.data = user'.data]
                    ELSE NoClient]
    /\ hist' = [hist EXCEPT !.asked = @ \/ Asked(c)]
    /\ UNCHANGED <<queue, member, workflow, payload, cancels, handler>>

\* The members are part of the JSON of the group.
replace_group(c) ==
    /\ scim[c].place = "write" /\ scim[c].kind = "group"
    /\ member' = scim[c].to
    /\ hist' = [hist EXCEPT !.asked = @ \/ Asked(c)]
    /\ scim' = [scim EXCEPT ![c] = NoClient]
    /\ UNCHANGED <<queue, user, workflow, payload, cancels, handler>>

\* request_deprovision: a workflow in progress is the answer.
LookupWorkflow(c) ==
    /\ scim[c].place = "lookup"
    /\ scim' = [scim EXCEPT ![c] =
                    IF \E w \in Workflows : workflow[w] = "pending" THEN NoClient
                    ELSE [@ EXCEPT !.place = "request"]]
    /\ UNCHANGED <<queue, user, member, workflow, payload, cancels, handler, hist>>

request_deprovision(c) ==
    /\ scim[c].place = "request"
    /\ user' = [active |-> Written(user.active, scim[c].copy, FALSE),
                data |-> Written(user.data, scim[c].data, FALSE)]
    /\ \E w \in Workflows :
        /\ workflow[w] = "absent"
        /\ \A v \in Workflows : v < w => workflow[v] # "absent"
        /\ workflow' = [workflow EXCEPT ![w] = "pending"]
        /\ scim' = [scim EXCEPT ![c].place = "enqueue", ![c].workflow = w]
    /\ UNCHANGED <<queue, member, payload, cancels, handler, hist>>

EnqueueDeprovision(c) ==
    /\ scim[c].place = "enqueue"
    /\ \E j \in Jobs :
        /\ \A i \in Jobs : i < j => queue[i].status # "absent"
        /\ Enqueue(j)
        /\ payload' = [payload EXCEPT ![j] = scim[c].workflow]
    /\ scim' = [scim EXCEPT ![c] = NoClient]
    /\ UNCHANGED <<user, member, workflow, cancels, handler, hist>>

ClientDies(c) ==
    /\ scim[c].kind # "idle"
    /\ scim' = [scim EXCEPT ![c] = NoClient]
    /\ hist' = [hist EXCEPT !.crashed = TRUE]
    /\ UNCHANGED <<queue, user, member, workflow, payload, cancels, handler>>

-----------------------------------------------------------------------------
(***************************************************************************)
(* The job.                                                                *)
(***************************************************************************)
\* A completed workflow is not repeated.
LoadDeprovision(j) ==
    /\ j \notin cancels
    /\ Claim(j)
    /\ handler' = [handler EXCEPT ![j] =
            [place |-> IF workflow[payload[j]] = "completed" THEN "return" ELSE "commit",
             active |-> user.active, member |-> member]]
    /\ hist' = [hist EXCEPT !.overlap = @ \/ \E c \in Clients : scim[c].kind # "idle"]
    /\ UNCHANGED <<user, member, workflow, payload, cancels, scim>>

\* Mutant: the memberships stay.
RetainedAll(loaded) == loaded

\* The user is removed from the loaded members.
Retained(loaded) == FALSE

\* One commit for the groups, the user and the workflow; then the event.
execute_deprovision(j) ==
    /\ handler[j].place = "commit"
    /\ user' = [user EXCEPT !.active = Written(@, handler[j].active, FALSE)]
    /\ member' = Written(member, handler[j].member, Retained(handler[j].member))
    /\ workflow' = [workflow EXCEPT ![payload[j]] = "completed"]
    /\ handler' = [handler EXCEPT ![j].place = "return"]
    /\ UNCHANGED <<queue, payload, cancels, scim, hist>>

\* Mutant: the workflow of a failed job stays pending.
ErrorPending(final) == "pending"

\* mark_deprovision_error, also when only the event failed.  A cancelled job does
\* not fail its workflow; the except branch sees the request to cancel when its
\* copy of the job is recent enough.
ErrorStatus(final) == IF final THEN "failed" ELSE "pending"

JobRaises(j) ==
    /\ handler[j].place \in {"commit", "return"}
    /\ \/ Fail(j)
       \/ j \in cancels /\ Cancel(j)
    /\ workflow' = [workflow EXCEPT ![payload[j]] =
                        ErrorStatus(queue'[j].status = "failed")]
    /\ handler' = [handler EXCEPT ![j] = NoHandler]
    /\ UNCHANGED <<user, member, payload, cancels, scim, hist>>

JobReturns(j) ==
    /\ handler[j].place = "return"
    /\ j \notin cancels
    /\ Complete(j)
    /\ handler' = [handler EXCEPT ![j] = NoHandler]
    /\ UNCHANGED <<user, member, workflow, payload, cancels, scim, hist>>

\* A request to cancel is seen before the handler and after its return; the
\* workflow is not told.
JobCancelled(j) ==
    /\ handler[j].place \in {"commit", "return"}
    /\ j \in cancels
    /\ Cancel(j)
    /\ handler' = [handler EXCEPT ![j] = NoHandler]
    /\ UNCHANGED <<user, member, workflow, payload, cancels, scim, hist>>

\* An operator cancels a job, at once while it waits for a worker ...
CancelDeprovision(j) ==
    /\ cancels' = cancels \cup {j}
    /\ \/ queue[j].status = "pending" /\ Cancel(j)
       \/ queue[j].status = "running" /\ UNCHANGED queue
    /\ hist' = [hist EXCEPT !.cancelled = TRUE]
    /\ UNCHANGED <<user, member, workflow, payload, handler, scim>>

\* ... or has a failed or cancelled one repeated.
RetryDeprovision(j) ==
    /\ Retry(j)
    /\ cancels' = cancels \ {j}
    /\ UNCHANGED <<user, member, workflow, payload, handler, scim, hist>>

HandlerDies(j) ==
    /\ handler[j].place \in {"commit", "return"}
    /\ handler' = [handler EXCEPT ![j] = [NoHandler EXCEPT !.place = "dead"]]
    /\ hist' = [hist EXCEPT !.crashed = TRUE]
    /\ UNCHANGED <<queue, user, member, workflow, payload, cancels, scim>>

\* recover_stale_jobs does not touch the workflow either.
RecoverDeprovision(j) ==
    /\ handler[j].place = "dead"
    /\ Recover({j})
    /\ handler' = [handler EXCEPT ![j] = NoHandler]
    /\ UNCHANGED <<user, member, workflow, payload, cancels, scim, hist>>

-----------------------------------------------------------------------------
\* What arrives from outside: requests, errors, crashes and cancellations.
IdentityArrives ==
    \/ \E c \in Clients :
        \/ \E to \in BOOLEAN : BeginPutUser(c, to) \/ BeginPutGroup(c, to)
        \/ BeginPatchUser(c) \/ BeginPatchGroup(c) \/ BeginDeleteUser(c)
        \/ ClientDies(c)
    \/ \E j \in Jobs : \/ JobRaises(j) \/ HandlerDies(j)
                       \/ CancelDeprovision(j) \/ RetryDeprovision(j)

ClientStep(c) ==
    \/ replace_resource(c) \/ replace_group(c) \/ LookupWorkflow(c)
    \/ request_deprovision(c) \/ EnqueueDeprovision(c)

JobStep(j) ==
    LoadDeprovision(j) \/ execute_deprovision(j) \/ JobReturns(j) \/ JobCancelled(j)

IdentityStep ==
    \/ \E c \in Clients : ClientStep(c)
    \/ \E j \in Jobs : JobStep(j) \/ RecoverDeprovision(j)

-----------------------------------------------------------------------------
\* After a completed workflow the user is inactive and in no group, unless a
\* client asked for the opposite, or wrote an old copy over it.
DeprovisionSticks ==
    (\E w \in Workflows : workflow[w] = "completed") =>
        \/ ~user.active /\ ~member
        \/ hist.asked
        \/ hist.overlap

\* A pending workflow is finished or fails in the end.  As long as one is
\* pending a further request does nothing, so one without a job blocks the
\* deprovisioning of its user for good: after a crash between the commit of the
\* workflow and that of its job or in a last attempt, or a cancelled job.
DeprovisionEnds ==
    \A w \in Workflows :
        workflow[w] = "pending" ~>
            workflow[w] # "pending" \/ hist.crashed \/ hist.cancelled
=============================================================================
