------------------------- MODULE IntegrationDelivery -------------------------
(***************************************************************************)
(* Outbound webhook delivery on top of the job queue: deliver_integration, *)
(* replay_delivery, mark_delivery_dead_letter and the job each delivery    *)
(* gets (app/services/integrations.py), executed by the workers of         *)
(* BackgroundJobs.  Every job of this model is an integration.deliver job; *)
(* every step of it is a step of BackgroundJobs or leaves the queue alone. *)
(***************************************************************************)
EXTENDS BackgroundJobs

CONSTANT MaxDeliveries  \* bound: rows of integration_deliveries

ASSUME DeliveriesAssumption == MaxDeliveries \in Nat

VARIABLES
    deliveries, \* integration_deliveries: status by delivery id
    payload,    \* the delivery_id in each job's payload, 0 before enqueueing
    endpointOn, \* whether the endpoint is enabled
    step,       \* where deliver_integration is, for a worker that handles a job
    copy,       \* the delivery status the worker's session has loaded
    received    \* the deliveries of which a request reached the receiver

deliveryVars == <<deliveries, payload, endpointOn, step, copy, received>>
allVars == <<vars, deliveryVars>>

Deliveries == 1..MaxDeliveries
DeliveryStatus == {"absent", "pending", "failed", "delivered", "dead-letter"}
Steps == {"none", "lookup", "prepared", "sending", "accepted", "refused",
          "returned", "raised", "raised-early"}

DeliveryInit ==
    /\ Init
    /\ deliveries = [d \in Deliveries |-> "absent"]
    /\ payload = [j \in Jobs |-> 0]
    /\ endpointOn \in BOOLEAN
    /\ step = [w \in Workers |-> "none"]
    /\ copy = [w \in Workers |-> "absent"]
    /\ received = {}

-----------------------------------------------------------------------------
(***************************************************************************)
(* Creation.  The delivery is committed before its job is enqueued.        *)
(***************************************************************************)
Fresh(d) ==
    /\ deliveries[d] = "absent"
    /\ \A i \in Deliveries : i < d => deliveries[i] # "absent"

queue_integration_event(d) ==
    /\ endpointOn
    /\ Fresh(d)
    /\ deliveries' = [deliveries EXCEPT ![d] = "pending"]
    /\ UNCHANGED <<vars, payload, endpointOn, step, copy, received>>

HasActiveJob(d) ==
    \E j \in Jobs : payload[j] = d /\ rows[j].status \in {"pending", "running"}

\* A replay is a new delivery; the original keeps its state.
replay_delivery(original, d) ==
    /\ deliveries[original] \in {"failed", "dead-letter"}
    /\ ~HasActiveJob(original)
    /\ endpointOn
    /\ Fresh(d)
    /\ deliveries' = [deliveries EXCEPT ![d] = "pending"]
    /\ UNCHANGED <<vars, payload, endpointOn, step, copy, received>>

\* The job of a delivery; a repeated dispatch of its event, which finds the
\* delivery by its idempotency key, enqueues another one.
EnqueueDeliver(d, j) ==
    /\ deliveries[d] \notin {"absent", "delivered"}
    /\ enqueue_job(j)
    /\ payload' = [payload EXCEPT ![j] = d]
    /\ UNCHANGED <<deliveries, endpointOn, step, copy, received>>

disable_integration_endpoint ==
    /\ endpointOn
    /\ endpointOn' = FALSE
    /\ UNCHANGED <<vars, deliveries, payload, step, copy, received>>

-----------------------------------------------------------------------------
(***************************************************************************)
(* deliver_integration, in the session of worker w.                        *)
(***************************************************************************)
Target(w) == payload[held[w]]

AtStep(w, s) == pc[w] = "handling" /\ step[w] = s

\* execute_job calls the handler unless the job was cancelled.
StartDelivery(w) ==
    /\ LoadJob(w)
    /\ step' = [step EXCEPT ![w] = IF pc'[w] = "handling" THEN "lookup" ELSE "none"]
    /\ UNCHANGED <<deliveries, payload, endpointOn, copy, received>>

\* Mutant: a delivered delivery is sent again.
LookupOutcomeAgain(status) == IF endpointOn THEN "prepared" ELSE "raised-early"

LookupOutcome(status) ==
    IF status = "delivered" THEN "returned"
    ELSE IF endpointOn THEN "prepared" ELSE "raised-early"

LookupDelivery(w) ==
    /\ AtStep(w, "lookup")
    /\ copy' = [copy EXCEPT ![w] = deliveries[Target(w)]]
    /\ step' = [step EXCEPT ![w] = LookupOutcome(deliveries[Target(w)])]
    /\ UNCHANGED <<vars, deliveries, payload, endpointOn, received>>

\* The attempt is committed before the request is sent.
CommitAttempt(w) ==
    /\ AtStep(w, "prepared")
    /\ step' = [step EXCEPT ![w] = "sending"]
    /\ UNCHANGED <<vars, deliveries, payload, endpointOn, copy, received>>

\* httpx.post and raise_for_status: the request may be lost, or reach the
\* receiver and be answered with a success, an error or nothing in time.
Send(w) ==
    /\ AtStep(w, "sending")
    /\ \/ /\ received' = received \cup {Target(w)}
          /\ \E answer \in {"accepted", "refused"} :
                step' = [step EXCEPT ![w] = answer]
       \/ /\ step' = [step EXCEPT ![w] = "refused"]
          /\ UNCHANGED received
    /\ UNCHANGED <<vars, deliveries, payload, endpointOn, copy>>

CommitAnswer(w) ==
    \/ /\ AtStep(w, "accepted")
       /\ deliveries' = [deliveries EXCEPT ![Target(w)] = "delivered"]
       /\ step' = [step EXCEPT ![w] = "returned"]
       /\ UNCHANGED <<vars, payload, endpointOn, copy, received>>
    \/ /\ AtStep(w, "refused")
       /\ deliveries' = [deliveries EXCEPT ![Target(w)] = "failed"]
       /\ step' = [step EXCEPT ![w] = "raised"]
       /\ UNCHANGED <<vars, payload, endpointOn, copy, received>>

-----------------------------------------------------------------------------
(***************************************************************************)
(* The rest of execute_job.                                                *)
(***************************************************************************)
DeliveryReturns(w) ==
    /\ step[w] = "returned"
    /\ HandlerReturns(w)
    /\ UNCHANGED deliveryVars

\* Raised before any commit of the handler, the copies of the job and of the
\* delivery are the ones loaded at the start; raised after one, they are
\* reloaded.
DeliveryRaises(w) ==
    /\ HandlerRaises(w)
    /\ \/ step[w] = "raised-early" /\ snap'[w] = snap[w] /\ copy' = copy
       \/ /\ step[w] = "raised"
          /\ snap'[w] = rows[held[w]]
          /\ copy' = [copy EXCEPT ![w] = deliveries[Target(w)]]
    /\ UNCHANGED <<deliveries, payload, endpointOn, step, received>>

\* Mutant: no dead letter.
mark_delivery_nothing(w) == deliveries' = deliveries

mark_delivery_dead_letter(w) ==
    deliveries' = [deliveries EXCEPT ![Target(w)] =
                                        Written(@, copy[w], "dead-letter")]

LeaveHandler(w) ==
    /\ step' = [step EXCEPT ![w] = "none"]
    /\ copy' = [copy EXCEPT ![w] = "absent"]
    /\ UNCHANGED <<payload, endpointOn, received>>

\* The job's failure and the dead letter are one commit.
DeliveryFails(w) ==
    /\ CommitFailed(w)
    /\ IF FinalFailure(snap[w]) /\ ~snap[w].cancel
       THEN mark_delivery_dead_letter(w)
       ELSE UNCHANGED deliveries
    /\ LeaveHandler(w)

DeliveryEnds(w) ==
    /\ CommitFinished(w) \/ CommitCancelled(w) \/ WorkerDown(w)
    /\ LeaveHandler(w)
    /\ UNCHANGED deliveries

QueueOnly(w) ==
    /\ WorkerStart(w) \/ SelectCandidate(w) \/ ClaimUpdate(w)
    /\ UNCHANGED deliveryVars

DeliverySteps(w) ==
    \/ StartDelivery(w)
    \/ LookupDelivery(w)
    \/ CommitAttempt(w)
    \/ Send(w)
    \/ CommitAnswer(w)
    \/ DeliveryReturns(w)
    \/ DeliveryRaises(w)
    \/ DeliveryFails(w)
    \/ DeliveryEnds(w)
    \/ QueueOnly(w)

Requested(c) ==
    /\ \/ \E op \in {"cancel", "retry"}, j \in Jobs : BeginRequest(c, op, j)
       \/ CommitRequest(c)
    /\ UNCHANGED deliveryVars

\* One event for the one endpoint; its replays are deliveries of their own.
Produce ==
    \/ queue_integration_event(1)
    \/ \E d \in Deliveries :
        \/ \E original \in Deliveries : replay_delivery(original, d)
        \/ \E j \in Jobs : EnqueueDeliver(d, j)
    \/ disable_integration_endpoint

DeliveryNext ==
    \/ Produce
    \/ \E j \in Jobs : (BackoffElapses(j) \/ ClaimExpires(j)) /\ UNCHANGED deliveryVars
    \/ \E w \in Workers : DeliverySteps(w)
    \/ \E c \in Clients : Requested(c)

DeliverySpec == DeliveryInit /\ [][DeliveryNext]_allVars

\* Schedules on which no worker outlives its claim: see BackgroundJobs.
TimelyDeliveryNext ==
    \/ Produce
    \/ \E j \in Jobs :
        /\ BackoffElapses(j) \/ ((\A w \in Workers : ~WorksOn(w, j)) /\ ClaimExpires(j))
        /\ UNCHANGED deliveryVars
    \/ \E w \in Workers : DeliverySteps(w)
    \/ \E c \in Clients :
        /\ req[c].op # "idle" => req[c].snap = rows[req[c].job]
        /\ Requested(c)

TimelyDeliverySpec == DeliveryInit /\ [][TimelyDeliveryNext]_allVars

-----------------------------------------------------------------------------
\* Types of the delivery rows and of the handler's local state.
DeliveryTypeOK ==
    /\ deliveries \in [Deliveries -> DeliveryStatus]
    /\ payload \in [Jobs -> Deliveries \cup {0}]
    /\ endpointOn \in BOOLEAN
    /\ step \in [Workers -> Steps]
    /\ copy \in [Workers -> DeliveryStatus]
    /\ received \subseteq Deliveries

\* What the job table says can be trusted: a completed delivery job, and a
\* delivery in state delivered, reached the receiver at least once, on every
\* interleaving of duplicate jobs, recovered claims, retries and crashes.
CompletedWasReceived ==
    /\ \A j \in Jobs : rows[j].status = "completed" => payload[j] \in received
    /\ \A d \in Deliveries : deliveries[d] = "delivered" => d \in received

\* After the final job attempt the delivery is a dead letter: a failed job
\* leaves its delivery dead-lettered, unless another job of it is still to
\* run, delivered it, or was cancelled.
FailedIsDeadLetter ==
    \A j \in Jobs : rows[j].status = "failed" =>
        \/ deliveries[payload[j]] \in {"dead-letter", "delivered"}
        \/ \E i \in Jobs :
            /\ payload[i] = payload[j]
            /\ rows[i].status \in {"pending", "running", "cancelled"}

\* As long as no worker dies, every final failure is committed together with
\* its dead letter.
DeadLetterUnlessCrash == used.crashes = 0 => FailedIsDeadLetter

\* The end of deliver_integration and that of its job tell the same story.
JobTellsDelivery == CompletedWasReceived /\ DeadLetterUnlessCrash

\* A delivered delivery is never reported failed or dead again, as long as
\* only one job was enqueued for it.
DeliveredStays ==
    [][\A d \in Deliveries :
        /\ deliveries[d] = "delivered"
        /\ Cardinality({j \in Jobs : payload[j] = d}) = 1
        => deliveries'[d] = "delivered"]_allVars
=============================================================================
