------------------------- MODULE OwnershipEscalations -------------------------
(***************************************************************************)
(* Escalation of overdue ownership campaigns: the pass of                  *)
(* enqueue_due_ownership_escalations and _queue_escalation_stage of        *)
(* app/services/ownership.py, composed with the campaigns.                 *)
(*                                                                         *)
(* The operator's campaign has a policy with one stage and one subscribed  *)
(* endpoint: campaigns and stages have an event each, but share the batch  *)
(* of a pass, which takes the active campaigns in the order of their due   *)
(* dates.  Of the campaigns that are due before the operator's only the    *)
(* status is modelled; the scheduled ones come due after the last          *)
(* occurrence.  An event is claimed for a time; whoever finds the time     *)
(* over takes it.  The delivery has an idempotency key.                    *)
(***************************************************************************)
EXTENDS OwnershipCampaigns

CONSTANTS
    Earlier,    \* other campaigns with a policy, due before the operator's
    Limit       \* campaigns in the batch of a pass (worker_schedule_batch_size)

ASSUME EscalationsAssumption == IsFiniteSet(Earlier) /\ Limit \in Nat \ {0}

VARIABLES
    others,     \* status of the campaigns that are due earlier
    overdue,    \* due_at plus the offset of the stage has passed
    event,      \* the row of ownership_escalation_events
    delivery,   \* whether the integration delivery of the stage exists
    jobsent,    \* whether a job for the delivery was enqueued
    taken       \* history: a claim was taken over

evars == <<others, overdue, event, delivery, jobsent, taken>>
vars == <<cvars, evars>>

EventStatuses == {"absent", "pending", "running", "failed", "queued"}
NoEvent == [status |-> "absent", ready |-> TRUE]

TypeOK ==
    /\ CampaignsTypeOK
    /\ others \in [Earlier -> {"draft", "active", "completed"}]
    /\ overdue \in BOOLEAN
    /\ event \in [status : EventStatuses, ready : BOOLEAN]
    /\ delivery \in BOOLEAN
    /\ jobsent \in BOOLEAN
    /\ taken \in BOOLEAN

\* A fresh system with a schedule, or one without whose campaign is launched.
Init ==
    /\ \/ CampaignsInit
       \/ CampaignsInitLaunched
    /\ others = [c \in Earlier |-> "draft"]
    /\ overdue = FALSE
    /\ event = NoEvent
    /\ delivery = FALSE
    /\ jobsent = FALSE
    /\ taken = FALSE

\* The steps of campaigns do not touch escalations.
CampaignStep == CampaignsNext /\ UNCHANGED evars

-----------------------------------------------------------------------------
\* The clock: the stage comes due (within the horizon only when nothing is
\* left to launch), a claim or a backoff ends.
StageDue ==
    /\ sched.state = "deleted" /\ clock = 0
    /\ ~overdue
    /\ overdue' = TRUE
    /\ UNCHANGED <<cvars, others, event, delivery, jobsent, taken>>

AttemptDue ==
    /\ event.status \in {"running", "failed"}
    /\ ~event.ready
    /\ event' = [event EXCEPT !.ready = TRUE]
    /\ UNCHANGED <<cvars, others, overdue, delivery, jobsent, taken>>

-----------------------------------------------------------------------------
(***************************************************************************)
(* One stage of one campaign of the pass.                                  *)
(***************************************************************************)
StepFrom(w, from, to) ==
    /\ worker[w].place = from
    /\ IF to = "idle" THEN Rest(w) ELSE Go(w, to)
    /\ UNCHANGED <<queue, matched, clock, sched, policy, campaign, expired,
                   assignment, payload, req, hist>>

Due == campaign[Manual] = "active" /\ policy /\ Outstanding(Manual) # {} /\ overdue

\* The active campaigns that are due earlier fill the batch, also those with
\* nothing left to queue or with a disabled policy.
Crowded == Cardinality({c \in Earlier : others[c] = "active"}) >= Limit

\* Another campaign is launched, or completed (where it matters, while the
\* stage waits for a pass).
EarlierChanges(c) ==
    /\ Counted
    /\ Due /\ event.status # "queued"
    /\ hist' = Count
    /\ \/ others[c] = "draft" /\ others' = [others EXCEPT ![c] = "active"]
       \/ others[c] = "active" /\ others' = [others EXCEPT ![c] = "completed"]
    /\ UNCHANGED <<queue, matched, clock, sched, policy, campaign, expired,
                   assignment, payload, worker, req, overdue, event, delivery,
                   jobsent, taken>>

\* (a pass over an event that is queued or not ready changes nothing)
enqueue_due_ownership_escalations(w) ==
    /\ ~Crowded
    /\ Due
    /\ event.status # "queued" /\ event.ready
    /\ StepFrom(w, "idle", "expire")
    /\ UNCHANGED evars

\* Mutant: a claim lasts for ever.
ExpiredNever(e) == e

\* The claim of a worker that did not finish in time has failed.
Expired(e) == IF e.status = "running" /\ e.ready THEN [e EXCEPT !.status = "failed"] ELSE e

ExpireClaim(w) ==
    /\ StepFrom(w, "expire", "lookup")
    /\ event' = Expired(event)
    /\ taken' = (taken \/ event' # event)
    /\ UNCHANGED <<others, overdue, delivery, jobsent>>

LookupEvent(w) ==
    /\ StepFrom(w, "lookup", IF event.status = "absent" THEN "insert"
                             ELSE IF event.status = "queued" \/ ~event.ready THEN "idle"
                             ELSE "take")
    /\ UNCHANGED evars

\* Whoever inserts second meets the unique key.
InsertEvent(w) ==
    /\ IF event.status = "absent"
       THEN /\ StepFrom(w, "insert", "take")
            /\ event' = [event EXCEPT !.status = "pending"]
       ELSE /\ StepFrom(w, "insert", "idle")
            /\ UNCHANGED event
    /\ UNCHANGED <<others, overdue, delivery, jobsent, taken>>

\* Mutant: the claim does not test the status.
ClaimableAny(e) == TRUE

Claimable(e) == e.status \in {"pending", "failed"} /\ e.ready

ClaimEvent(w) ==
    /\ IF Claimable(event)
       THEN /\ StepFrom(w, "take", "deliver")
            /\ event' = [status |-> "running", ready |-> FALSE]
       ELSE /\ StepFrom(w, "take", "idle")
            /\ UNCHANGED event
    /\ UNCHANGED <<others, overdue, delivery, jobsent, taken>>

\* Mutant: a delivery found by its key is taken as enqueued.
AfterDeliveryFound == IF delivery THEN "mark" ELSE "send"

\* queue_integration_event enqueues a delivery it finds by its key, too.
AfterDelivery == "send"

InsertDelivery(w) ==
    /\ StepFrom(w, "deliver", AfterDelivery)
    /\ delivery' = TRUE
    /\ UNCHANGED <<others, overdue, event, jobsent, taken>>

EnqueueDelivery(w) ==
    /\ StepFrom(w, "send", "mark")
    /\ jobsent' = TRUE
    /\ UNCHANGED <<others, overdue, event, delivery, taken>>

MarkQueued(w) ==
    /\ StepFrom(w, "mark", "idle")
    /\ event' = [event EXCEPT !.status = "queued"]
    /\ UNCHANGED <<others, overdue, delivery, jobsent, taken>>

\* The event is loaded again and set back, whatever it has become.
QueueingFails(w) ==
    /\ worker[w].place \in {"deliver", "send"}
    /\ Counted
    /\ hist' = Count
    /\ Rest(w)
    /\ event' = [status |-> "failed", ready |-> FALSE]
    /\ UNCHANGED <<queue, matched, clock, sched, policy, campaign, expired,
                   assignment, payload, req, others, overdue, delivery, jobsent, taken>>

-----------------------------------------------------------------------------
EscalationStep(w) ==
    \/ enqueue_due_ownership_escalations(w)
    \/ ExpireClaim(w) \/ LookupEvent(w) \/ InsertEvent(w)
    \/ ClaimEvent(w) \/ InsertDelivery(w) \/ EnqueueDelivery(w) \/ MarkQueued(w)
    \/ QueueingFails(w)

Next ==
    \/ CampaignStep
    \/ \E c \in Earlier : EarlierChanges(c)
    \/ StageDue
    \/ AttemptDue
    \/ \E w \in Workers : EscalationStep(w)

Spec == Init /\ [][Next]_vars

\* Workers run their passes and are started again by their supervisor, and
\* time passes.
FairSpec ==
    /\ Spec
    /\ \A w \in Workers :
        /\ WF_vars(EscalationStep(w))
        /\ WF_vars(WorkerStarts(w) /\ UNCHANGED evars)
    /\ WF_vars(AttemptDue)

-----------------------------------------------------------------------------
(***************************************************************************)
(* Properties.                                                             *)
(***************************************************************************)

\* An event recorded as queued has a delivery and a job to send it, through
\* crashes and failures between the three commits of _queue_escalation_stage;
\* and it is not queued again, unless a claim was taken over from a worker that
\* was only slow and that set the event back.
QueuedIsSent ==
    [][/\ event'.status = "queued" => delivery' /\ jobsent'
       /\ event.status = "queued" => event'.status = "queued" \/ taken]_vars

\* A stage that has come due is eventually queued, unless the campaign is
\* decided, the policy disabled or the batch filled by campaigns that are due
\* earlier: no crash, failure or lost claim stops it.
EscalationArrives == Due /\ ~Crowded ~> (event.status = "queued" \/ ~Due \/ Crowded)

\* docs/BACKGROUND_JOBS.md:26: "Workers also claim ... due ownership escalation
\* stages before selecting the next pending job."  As many campaigns as fit the
\* batch that are due earlier and stay active, escalated long ago or not, keep
\* a due stage from ever being claimed.
DueStageIsClaimed == Due ~> (event.status \in {"running", "queued"} \/ ~Due)
=============================================================================
