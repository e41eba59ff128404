-------------------------- MODULE GovernanceOutbox --------------------------
(***************************************************************************)
(* The transactional governance outbox: app/services/outbox.py and the     *)
(* fan-out it calls, queue_integration_event of                            *)
(* app/services/integrations.py.                                           *)
(*                                                                         *)
(* A dispatcher is one call of dispatch_outbox_events: the outbox phase of *)
(* a worker's loop, or an administrator's request to the dispatch          *)
(* endpoint.  Each database statement or commit is one step.  The delivery *)
(* of event e to endpoint p is identified by <<e, p>> because the event id *)
(* is the delivery's idempotency key, unique per endpoint.                 *)
(***************************************************************************)
EXTENDS Integers, FiniteSets

CONSTANTS
    Dispatchers,    \* dispatch_outbox_events calls that may overlap
    Endpoints,      \* integration endpoints subscribed to the events
    MaxEvents,      \* bound: rows of governance_outbox_events
    MaxAttempts,    \* settings.governance_outbox_max_attempts
    MaxCrashes      \* bound: dispatchers lost in a behaviour

ASSUME OutboxAssumption ==
    /\ MaxEvents \in Nat
    /\ MaxAttempts \in Nat \ {0}
    /\ MaxCrashes \in Nat

VARIABLES
    events,     \* governance_outbox_events, by order of created_at
    enabled,    \* the endpoints that are enabled
    deliveries, \* integration_deliveries: <<e, p>> |-> status
    jobs,       \* integration.deliver jobs enqueued for <<e, p>>
    disp,       \* the dispatchers
    crashes     \* dispatchers lost, for the bound

vars == <<events, enabled, deliveries, jobs, disp, crashes>>

Events == 1..MaxEvents
Pairs == Events \X Endpoints

Event == [status : {"absent", "pending", "dispatching", "dispatched", "failed"},
          attempts : Nat, due : BOOLEAN, claim : {"none", "live", "stale"}]

AbsentEvent == [status |-> "absent", attempts |-> 0, due |-> FALSE, claim |-> "none"]

\* "open" stands for the statuses pending, failed and dead-letter.
DeliveryStatus == {"absent", "open", "delivered"}

Places == {"idle", "selecting", "claiming", "loading", "listing", "fanout",
           "creating", "enqueueing", "raised"}

Dispatcher == [at : Places, batch : SUBSET Events, event : Events \cup {0},
               todo : SUBSET Endpoints, target : SUBSET Endpoints, copy : Event,
               expired : BOOLEAN]

IdleDispatcher == [at |-> "idle", batch |-> {}, event |-> 0, todo |-> {},
                   target |-> {}, copy |-> AbsentEvent, expired |-> FALSE]

Init ==
    /\ events = [e \in Events |-> AbsentEvent]
    /\ enabled \in SUBSET Endpoints
    /\ deliveries = [d \in Pairs |-> "absent"]
    /\ jobs = [d \in Pairs |-> 0]
    /\ disp = [x \in Dispatchers |-> IdleDispatcher]
    /\ crashes = 0

-----------------------------------------------------------------------------
(***************************************************************************)
(* The environment: authoritative records commit their event, endpoints    *)
(* are disabled, deliveries succeed, clocks advance.                       *)
(***************************************************************************)
queue_outbox_event(e) ==
    /\ events[e].status = "absent"
    /\ \A i \in Events : i < e => events[i].status # "absent"
    /\ events' = [events EXCEPT ![e] = [AbsentEvent EXCEPT !.status = "pending",
                                                           !.due = TRUE]]
    /\ UNCHANGED <<enabled, deliveries, jobs, disp, crashes>>

disable_integration_endpoint(p) ==
    /\ p \in enabled
    /\ enabled' = enabled \ {p}
    /\ UNCHANGED <<events, deliveries, jobs, disp, crashes>>

deliver_integration(d) ==
    /\ jobs[d] > 0
    /\ deliveries[d] = "open"
    /\ deliveries' = [deliveries EXCEPT ![d] = "delivered"]
    /\ UNCHANGED <<events, enabled, jobs, disp, crashes>>

BackoffElapses(e) ==
    /\ events[e].status = "pending"
    /\ ~events[e].due
    /\ events' = [events EXCEPT ![e].due = TRUE]
    /\ UNCHANGED <<enabled, deliveries, jobs, disp, crashes>>

ClaimExpires(e) ==
    /\ events[e].status = "dispatching"
    /\ events[e].claim = "live"
    /\ events' = [events EXCEPT ![e].claim = "stale"]
    /\ UNCHANGED <<enabled, deliveries, jobs, disp, crashes>>

-----------------------------------------------------------------------------
(***************************************************************************)
(* dispatch_outbox_events.                                                 *)
(***************************************************************************)
\* Mutant: one attempt too few is recovered.
StaleEventEarlier(row) ==
    /\ row.status = "dispatching"
    /\ row.claim = "stale"
    /\ row.attempts + 1 < MaxAttempts

StaleEvent(row) ==
    /\ row.status = "dispatching"
    /\ row.claim = "stale"
    /\ row.attempts < MaxAttempts

RecoveredEvent(row) ==
    IF StaleEvent(row)
    THEN [row EXCEPT !.status = "pending", !.claim = "none", !.due = TRUE]
    ELSE row

\* First transaction: stale claims go back to pending.
RecoverStale(x) ==
    /\ disp[x].at = "idle"
    /\ events' = [e \in Events |-> RecoveredEvent(events[e])]
    /\ disp' = [disp EXCEPT ![x] = [IdleDispatcher EXCEPT !.at = "selecting"]]
    /\ UNCHANGED <<enabled, deliveries, jobs, crashes>>

\* The candidate ids, read before any of them is claimed.
SelectBatch(x) ==
    /\ disp[x].at = "selecting"
    /\ LET batch == {e \in Events : events[e].status = "pending" /\ events[e].due} IN
        disp' = [disp EXCEPT ![x] =
                    IF batch = {} THEN IdleDispatcher
                    ELSE [@ EXCEPT !.at = "claiming", !.batch = batch]]
    /\ UNCHANGED <<events, enabled, deliveries, jobs, crashes>>

NextCandidate(x, e) ==
    /\ e \in disp[x].batch
    /\ \A i \in disp[x].batch : e <= i

\* The loop of one call continues with the rest of its batch, or ends.
AfterEvent(x) ==
    IF disp[x].batch = {} THEN IdleDispatcher
    ELSE [IdleDispatcher EXCEPT !.at = "claiming", !.batch = disp[x].batch]

\* Compare-and-update of one candidate.
ClaimEvent(x, e) ==
    /\ disp[x].at = "claiming"
    /\ NextCandidate(x, e)
    /\ \/ /\ events[e].status = "pending"
          /\ events' = [events EXCEPT ![e].status = "dispatching",
                                      ![e].claim = "live",
                                      ![e].attempts = @ + 1]
          /\ disp' = [disp EXCEPT ![x].at = "loading",
                                  ![x].batch = @ \ {e},
                                  ![x].event = e]
       \/ /\ events[e].status # "pending"
          /\ disp' = [disp EXCEPT ![x] =
                        IF disp[x].batch = {e} THEN IdleDispatcher
                        ELSE [disp[x] EXCEPT !.batch = @ \ {e}]]
          /\ UNCHANGED events
    /\ UNCHANGED <<enabled, deliveries, jobs, crashes>>

\* db.get after the claim's commit.
LoadEvent(x) ==
    /\ disp[x].at = "loading"
    /\ disp' = [disp EXCEPT ![x].at = "listing",
                            ![x].copy = events[disp[x].event]]
    /\ UNCHANGED <<events, enabled, deliveries, jobs, crashes>>

-----------------------------------------------------------------------------
(***************************************************************************)
(* queue_integration_event, with the event id as idempotency key.          *)
(***************************************************************************)
ListEndpoints(x) ==
    /\ disp[x].at = "listing"
    /\ disp' = [disp EXCEPT ![x].at = "fanout", ![x].todo = enabled]
    /\ UNCHANGED <<events, enabled, deliveries, jobs, crashes>>

\* Mutant: an existing delivery is taken to have its job.
AfterLookupTrusting(status) == IF status = "absent" THEN "creating" ELSE "fanout"

\* Look the delivery up; a delivered one needs no job.
AfterLookup(status) ==
    CASE status = "absent"    -> "creating"
      [] status = "open"      -> "enqueueing"
      [] status = "delivered" -> "fanout"

LookupDelivery(x, p) ==
    /\ disp[x].at = "fanout"
    /\ p \in disp[x].todo
    /\ LET next == AfterLookup(deliveries[<<disp[x].event, p>>]) IN
        disp' = [disp EXCEPT ![x].at = next,
                             ![x].todo = @ \ {p},
                             ![x].target = IF next = "fanout" THEN {} ELSE {p}]
    /\ UNCHANGED <<events, enabled, deliveries, jobs, crashes>>

\* Insert and commit; a concurrent insert of the same key makes the commit
\* fail, and the error handling on the broken session ends the call.
CreateDelivery(x, p) ==
    /\ disp[x].at = "creating"
    /\ p \in disp[x].target
    /\ LET d == <<disp[x].event, p>> IN
        \/ /\ deliveries[d] = "absent"
           /\ deliveries' = [deliveries EXCEPT ![d] = "open"]
           /\ disp' = [disp EXCEPT ![x].at = "enqueueing", ![x].expired = TRUE]
        \/ /\ deliveries[d] # "absent"
           /\ disp' = [disp EXCEPT ![x] = IdleDispatcher]
           /\ UNCHANGED deliveries
    /\ UNCHANGED <<events, enabled, jobs, crashes>>

EnqueueDelivery(x, p) ==
    /\ disp[x].at = "enqueueing"
    /\ p \in disp[x].target
    /\ jobs' = [jobs EXCEPT ![<<disp[x].event, p>>] = @ + 1]
    /\ disp' = [disp EXCEPT ![x].at = "fanout", ![x].target = {}, ![x].expired = TRUE]
    /\ UNCHANGED <<events, enabled, deliveries, crashes>>

-----------------------------------------------------------------------------
\* A column is written unless the session's copy is still valid and already
\* has the assigned value.
Written(x, current, loaded, assigned) ==
    IF ~disp[x].expired /\ assigned = loaded THEN current ELSE assigned

\* Every endpoint of the list is done: the event is dispatched, whatever its
\* row says by now.  A commit of the fan-out expired the copy, and the columns
\* are then assigned without being read.
MarkDispatched(x) ==
    /\ disp[x].at = "fanout"
    /\ disp[x].todo = {}
    /\ events' = [events EXCEPT
            ![disp[x].event].status = Written(x, @, disp[x].copy.status, "dispatched"),
            ![disp[x].event].claim = Written(x, @, disp[x].copy.claim, "none")]
    /\ disp' = [disp EXCEPT ![x] = AfterEvent(x)]
    /\ UNCHANGED <<enabled, deliveries, jobs, crashes>>

\* The fan-out raised.  If a commit of the fan-out expired the copy, the
\* except branch assigns claimed_at before event.attempts reloads the row: the
\* other columns are then compared with the row of that moment, claimed_at is
\* written in any case.
DispatchRaises(x) ==
    /\ disp[x].at \in {"listing", "fanout", "creating", "enqueueing"}
    /\ disp' = [disp EXCEPT ![x].at = "raised", ![x].todo = {}, ![x].target = {},
                            ![x].copy = IF disp[x].expired
                                        THEN events[disp[x].event] ELSE @]
    /\ UNCHANGED <<events, enabled, deliveries, jobs, crashes>>

CommitRaised(x) ==
    /\ disp[x].at = "raised"
    /\ LET e == disp[x].event
           next == IF disp[x].copy.attempts >= MaxAttempts THEN "failed"
                                                           ELSE "pending" IN
        events' = [events EXCEPT
            ![e].status = IF disp[x].copy.status = next THEN @ ELSE next,
            ![e].claim = Written(x, @, disp[x].copy.claim, "none"),
            ![e].due = IF next = "pending" THEN FALSE ELSE @]
    /\ disp' = [disp EXCEPT ![x] = AfterEvent(x)]
    /\ UNCHANGED <<enabled, deliveries, jobs, crashes>>

\* The process dies; claimed events stay dispatching.
DispatcherCrashes(x) ==
    /\ disp[x].at # "idle"
    /\ crashes < MaxCrashes
    /\ disp' = [disp EXCEPT ![x] = IdleDispatcher]
    /\ crashes' = crashes + 1
    /\ UNCHANGED <<events, enabled, deliveries, jobs>>

DispatchStep(x) ==
    \/ SelectBatch(x)
    \/ \E e \in Events : ClaimEvent(x, e)
    \/ LoadEvent(x)
    \/ ListEndpoints(x)
    \/ \E p \in Endpoints :
        LookupDelivery(x, p) \/ CreateDelivery(x, p) \/ EnqueueDelivery(x, p)
    \/ MarkDispatched(x)
    \/ DispatchRaises(x)
    \/ CommitRaised(x)

Next ==
    \/ \E e \in Events : queue_outbox_event(e) \/ BackoffElapses(e) \/ ClaimExpires(e)
    \/ \E p \in Endpoints : disable_integration_endpoint(p)
    \/ \E d \in Pairs : deliver_integration(d)
    \/ \E x \in Dispatchers : RecoverStale(x) \/ DispatchStep(x) \/ DispatcherCrashes(x)

Spec == Init /\ [][Next]_vars

(***************************************************************************)
(* Fairness: workers keep polling the outbox (every loop iteration calls   *)
(* dispatch_outbox_events) and a started call runs to its end; clocks      *)
(* advance.                                                                *)
(***************************************************************************)
FairSpec ==
    /\ Spec
    /\ \A x \in Dispatchers : WF_vars(RecoverStale(x)) /\ WF_vars(DispatchStep(x))
    /\ \A e \in Events : WF_vars(BackoffElapses(e)) /\ WF_vars(ClaimExpires(e))

-----------------------------------------------------------------------------
\* Types of the rows and of the dispatchers' local state.
TypeOK ==
    /\ events \in [Events -> Event]
    /\ enabled \in SUBSET Endpoints
    /\ deliveries \in [Pairs -> DeliveryStatus]
    /\ jobs \in [Pairs -> Nat]
    /\ disp \in [Dispatchers -> Dispatcher]
    /\ crashes \in 0..MaxCrashes
    /\ \A x \in Dispatchers :
        disp[x].at \notin {"idle", "selecting", "claiming"} => disp[x].event \in Events

\* A dispatched event reached every endpoint that is still enabled: its
\* delivery exists and a deliver job was enqueued for it, even when an
\* earlier dispatch died between creating the delivery and its job.
DispatchedIsQueued ==
    \A e \in Events : events[e].status = "dispatched" =>
        \A p \in enabled : deliveries[<<e, p>>] # "absent" /\ jobs[<<e, p>>] > 0

\* Redelivery is bounded by the claims of the event: overlapping, repeated
\* and recovered dispatches enqueue at most one job per claim and endpoint.
JobsBoundedByClaims ==
    \A e \in Events : \A p \in Endpoints : jobs[<<e, p>>] <= events[e].attempts

\* dispatch_outbox_events fans an event out to every enabled endpoint, and at
\* most once per claim, however dispatchers overlap, die and are recovered.
FannedOut == DispatchedIsQueued /\ JobsBoundedByClaims

Abandoned(e) ==
    /\ events[e].status = "dispatching"
    /\ \A x \in Dispatchers : disp[x].event # e

\* Every event ends dispatched or failed, however dispatchers overlap, die and
\* are recovered.  The code has two exceptions: a claim that died in the last
\* allowed attempt, and one whose claimed_at an earlier dispatcher's failing
\* fan-out had erased before its own dispatcher died.
EventSettles ==
    \A e \in Events :
        <>[](\/ events[e].status \in {"absent", "dispatched", "failed"}
             \/ Abandoned(e) /\ (events[e].attempts >= MaxAttempts \/ events[e].claim = "none"))

\* "Workers atomically claim pending events, recover stale claims"
\* (docs/INTEGRATIONS.md): an event left dispatching by a dispatcher that died
\* with attempts remaining keeps the claim by whose age it is recovered.
AbandonedKeepsClaim ==
    \A e \in Events :
        Abandoned(e) /\ events[e].attempts < MaxAttempts => events[e].claim # "none"
=============================================================================
