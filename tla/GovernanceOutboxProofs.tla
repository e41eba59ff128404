----------------------- MODULE GovernanceOutboxProofs -----------------------
(***************************************************************************)
(* The outbox fans every event out, for any number of events, endpoints,   *)
(* dispatchers and crashes: OutboxInv is inductive and implies FannedOut.  *)
(***************************************************************************)
EXTENDS GovernanceOutbox, FiniteSetTheorems, TLAPS

FanningOut == {"fanout", "creating", "enqueueing"}

Queued(e, p) == deliveries[<<e, p>>] # "absent" /\ jobs[<<e, p>>] > 0

\* A delivered delivery had a job, so LookupDelivery may skip it.
DeliveredHadJob ==
    \A d \in Pairs : deliveries[d] = "delivered" => jobs[d] > 0

\* queue_integration_event works on one endpoint of its list at a time, and
\* enqueues the job of a delivery that exists.
OneTarget ==
    \A x \in Dispatchers :
        /\ disp[x].at \notin {"creating", "enqueueing"} => disp[x].target = {}
        /\ \A p \in disp[x].target :
            /\ disp[x].target = {p}
            /\ p \notin disp[x].todo
            /\ disp[x].at = "enqueueing" => deliveries[<<disp[x].event, p>>] # "absent"

\* The endpoints a fan-out has behind it have a delivery and a job.
BehindIsQueued ==
    \A x \in Dispatchers : disp[x].at \in FanningOut =>
        \A p \in enabled \ (disp[x].todo \cup disp[x].target) :
            Queued(disp[x].event, p)

\* The dispatcher's claim of e may still enqueue a job for p.
MayEnqueue(x, e, p) ==
    /\ disp[x].event = e
    /\ \/ disp[x].at \in {"loading", "listing"}
       \/ disp[x].at \in FanningOut /\ p \in disp[x].todo \cup disp[x].target

Outstanding(e, p) == {x \in Dispatchers : MayEnqueue(x, e, p)}

\* Each claim of an event accounts for one job per endpoint: enqueued, still
\* to come, or never to come.
ClaimsCoverJobs ==
    \A e \in Events : \A p \in Endpoints :
        /\ IsFiniteSet(Outstanding(e, p))
        /\ jobs[<<e, p>>] + Cardinality(Outstanding(e, p)) <= events[e].attempts

\* An event that is not written yet has never been claimed.
AbsentIsUnclaimed ==
    \A e \in Events : events[e].status = "absent" => events[e].attempts = 0

OutboxInv ==
    /\ TypeOK
    /\ DeliveredHadJob
    /\ OneTarget
    /\ BehindIsQueued
    /\ DispatchedIsQueued
    /\ ClaimsCoverJobs
    /\ AbsentIsUnclaimed

-----------------------------------------------------------------------------
LEMMA RowTypes ==
    /\ AbsentEvent \in Event
    /\ IdleDispatcher \in Dispatcher
BY OutboxAssumption DEF AbsentEvent, Event, IdleDispatcher, Dispatcher, Places, Events

\* The account of one pair holds after a step that enqueues nothing for it
\* and lets no further dispatcher enqueue.
LEMMA AccountKept ==
    ASSUME NEW e \in Events, NEW p \in Endpoints, TypeOK, TypeOK', ClaimsCoverJobs,
           jobs'[<<e, p>>] = jobs[<<e, p>>],
           events'[e].attempts >= events[e].attempts,
           Outstanding(e, p)' \subseteq Outstanding(e, p)
    PROVE  /\ IsFiniteSet(Outstanding(e, p)')
           /\ jobs'[<<e, p>>] + Cardinality(Outstanding(e, p)') <= events'[e].attempts
<1> DEFINE old == Outstanding(e, p)
           new == Outstanding(e, p)'
<1>1. IsFiniteSet(old) /\ jobs[<<e, p>>] + Cardinality(old) <= events[e].attempts
    BY DEF ClaimsCoverJobs
<1>2. new \subseteq old
    OBVIOUS
<1> HIDE DEF old, new
<1>3. IsFiniteSet(new) /\ Cardinality(new) <= Cardinality(old)
    BY <1>1, <1>2, FS_Subset
<1>4. Cardinality(new) \in Nat /\ Cardinality(old) \in Nat
    BY <1>1, <1>3, FS_CardinalityType
<1>5. jobs[<<e, p>>] \in Nat /\ events[e].attempts \in Nat /\ events'[e].attempts \in Nat
    BY DEF TypeOK, Pairs, Event
<1>6. IsFiniteSet(new) /\ jobs'[<<e, p>>] + Cardinality(new) <= events'[e].attempts
    BY <1>1, <1>3, <1>4, <1>5
<1> QED
    BY <1>6 DEF new

\* Steps of the environment leave the dispatchers and the jobs alone.
EnvironmentStep ==
    /\ UNCHANGED <<disp, jobs>>
    /\ enabled' \subseteq enabled
    /\ \A d \in Pairs :
        /\ deliveries[d] # "absent" => deliveries'[d] # "absent"
        /\ deliveries'[d] = "delivered" => jobs[d] > 0
    /\ \A e \in Events :
        /\ \/ events'[e].attempts = events[e].attempts
           \/ events[e].status = "absent" /\ events'[e].attempts = 0
        /\ events'[e].status = "dispatched" => events[e].status = "dispatched"
        /\ events'[e].status = "absent" => events'[e].attempts = 0

LEMMA EnvironmentKeeps == OutboxInv /\ TypeOK' /\ EnvironmentStep => OutboxInv'
<1> SUFFICES ASSUME OutboxInv, TypeOK', EnvironmentStep PROVE OutboxInv'
    OBVIOUS
<1> USE DEF EnvironmentStep
<1>0. /\ TypeOK /\ DeliveredHadJob /\ OneTarget /\ BehindIsQueued
      /\ DispatchedIsQueued /\ ClaimsCoverJobs /\ AbsentIsUnclaimed
    BY DEF OutboxInv
<1>d. \A x \in Dispatchers, p \in Endpoints : disp[x].at \in FanningOut
            => <<disp[x].event, p>> \in Pairs
    BY <1>0 DEF TypeOK, Pairs, FanningOut
<1>1. DeliveredHadJob'
    BY DEF DeliveredHadJob
<1>2. OneTarget'
    BY <1>0, <1>d DEF OneTarget, TypeOK, Dispatcher, FanningOut
<1>3. BehindIsQueued'
    BY <1>0, <1>d DEF BehindIsQueued, Queued, TypeOK
<1>4. DispatchedIsQueued'
    BY <1>0 DEF DispatchedIsQueued, TypeOK, Pairs
<1>5. ClaimsCoverJobs'
    <2> SUFFICES ASSUME NEW e \in Events, NEW p \in Endpoints
                 PROVE  /\ IsFiniteSet(Outstanding(e, p)')
                        /\ jobs'[<<e, p>>] + Cardinality(Outstanding(e, p)')
                                <= events'[e].attempts
        BY DEF ClaimsCoverJobs
    <2>1. events'[e].attempts >= events[e].attempts
        BY <1>0 DEF AbsentIsUnclaimed, TypeOK, Event
    <2>2. Outstanding(e, p)' = Outstanding(e, p)
        BY DEF Outstanding, MayEnqueue
    <2> QED
        BY <1>0, <2>1, <2>2, AccountKept
<1>6. AbsentIsUnclaimed'
    BY DEF AbsentIsUnclaimed
<1> QED
    BY <1>1, <1>2, <1>3, <1>4, <1>5, <1>6 DEF OutboxInv

\* A step of one dispatcher that writes no delivery and enqueues no job: its
\* new place must know no more than the tables and its old place show.
DispatcherStep(x) ==
    /\ UNCHANGED <<jobs, deliveries, enabled>>
    /\ \A y \in Dispatchers \ {x} : disp'[y] = disp[y]
    /\ disp'[x].at \notin {"creating", "enqueueing"} => disp'[x].target = {}
    /\ \A p \in disp'[x].target :
        /\ disp'[x].target = {p}
        /\ p \notin disp'[x].todo
        /\ disp'[x].at = "enqueueing" => deliveries[<<disp'[x].event, p>>] # "absent"
    /\ disp'[x].at \in FanningOut =>
        \A p \in enabled \ (disp'[x].todo \cup disp'[x].target) :
            Queued(disp'[x].event, p)
    /\ \A e \in Events, p \in Endpoints : MayEnqueue(x, e, p)' => MayEnqueue(x, e, p)
    /\ \A e \in Events :
        /\ events'[e].attempts = events[e].attempts
        /\ events'[e].status = "dispatched" =>
            events[e].status = "dispatched" \/ \A p \in enabled : Queued(e, p)
        /\ events'[e].status = "absent" => events[e].status = "absent"

LEMMA DispatcherKeeps ==
    ASSUME NEW x \in Dispatchers, OutboxInv, TypeOK', DispatcherStep(x)
    PROVE  OutboxInv'
<1> USE DEF DispatcherStep
<1>0. /\ TypeOK /\ DeliveredHadJob /\ OneTarget /\ BehindIsQueued
      /\ DispatchedIsQueued /\ ClaimsCoverJobs /\ AbsentIsUnclaimed
    BY DEF OutboxInv
<1>1. DeliveredHadJob'
    BY <1>0 DEF DeliveredHadJob
<1>2. OneTarget'
    <2> SUFFICES ASSUME NEW y \in Dispatchers
                 PROVE  /\ disp'[y].at \notin {"creating", "enqueueing"} => disp'[y].target = {}
                        /\ \A p \in disp'[y].target :
                            /\ disp'[y].target = {p}
                            /\ p \notin disp'[y].todo
                            /\ disp'[y].at = "enqueueing"
                                => deliveries[<<disp'[y].event, p>>] # "absent"
        BY DEF OneTarget
    <2>1. CASE y = x
        BY <2>1
    <2>2. CASE y # x
        <3>1. disp'[y] = disp[y]
            BY <2>2
        <3> QED
            BY <1>0, <3>1 DEF OneTarget
    <2> QED
        BY <2>1, <2>2
<1>3. BehindIsQueued'
    <2> SUFFICES ASSUME NEW y \in Dispatchers, disp'[y].at \in FanningOut,
                        NEW p \in enabled \ (disp'[y].todo \cup disp'[y].target)
                 PROVE  Queued(disp'[y].event, p)
        BY DEF BehindIsQueued, Queued
    <2>1. CASE y = x
        BY <2>1
    <2>2. CASE y # x
        <3>1. disp'[y] = disp[y]
            BY <2>2
        <3> QED
            BY <1>0, <3>1 DEF BehindIsQueued
    <2> QED
        BY <2>1, <2>2
<1>4. DispatchedIsQueued'
    BY <1>0 DEF DispatchedIsQueued, Queued
<1>5. ClaimsCoverJobs'
    <2> SUFFICES ASSUME NEW e \in Events, NEW p \in Endpoints
                 PROVE  /\ IsFiniteSet(Outstanding(e, p)')
                        /\ jobs'[<<e, p>>] + Cardinality(Outstanding(e, p)')
                                <= events'[e].attempts
        BY DEF ClaimsCoverJobs
    <2>1. events'[e].attempts >= events[e].attempts
        BY <1>0 DEF TypeOK, Event
    <2>2. \A y \in Dispatchers : MayEnqueue(y, e, p)' => MayEnqueue(y, e, p)
        BY DEF MayEnqueue
    <2>3. Outstanding(e, p)' \subseteq Outstanding(e, p)
        BY <2>2 DEF Outstanding
    <2> QED
        BY <1>0, <2>1, <2>3, AccountKept
<1>6. AbsentIsUnclaimed'
    BY <1>0 DEF AbsentIsUnclaimed
<1> QED
    BY <1>1, <1>2, <1>3, <1>4, <1>5, <1>6 DEF OutboxInv

-----------------------------------------------------------------------------
LEMMA InitEstablishes == Init => OutboxInv
<1> SUFFICES ASSUME Init PROVE OutboxInv
    OBVIOUS
<1>1. TypeOK
    BY RowTypes, OutboxAssumption DEF Init, TypeOK, DeliveryStatus, IdleDispatcher
<1>2. DeliveredHadJob /\ OneTarget /\ BehindIsQueued
    BY DEF Init, DeliveredHadJob, OneTarget, BehindIsQueued, FanningOut, IdleDispatcher
<1>3. DispatchedIsQueued /\ AbsentIsUnclaimed
    BY DEF Init, DispatchedIsQueued, AbsentIsUnclaimed, AbsentEvent
<1>4. ClaimsCoverJobs
    <2> SUFFICES ASSUME NEW e \in Events, NEW p \in Endpoints
                 PROVE  /\ IsFiniteSet(Outstanding(e, p))
                        /\ jobs[<<e, p>>] + Cardinality(Outstanding(e, p))
                                <= events[e].attempts
        BY DEF ClaimsCoverJobs
    <2>1. Outstanding(e, p) = {}
        BY DEF Init, Outstanding, MayEnqueue, FanningOut, IdleDispatcher
    <2>2. IsFiniteSet(Outstanding(e, p)) /\ Cardinality(Outstanding(e, p)) = 0
        BY <2>1, FS_EmptySet
    <2>3. jobs[<<e, p>>] = 0 /\ events[e].attempts = 0
        BY DEF Init, AbsentEvent, Pairs
    <2> QED
        BY <2>2, <2>3
<1> QED
    BY <1>1, <1>2, <1>3, <1>4 DEF OutboxInv

\* The rows of events only change in their columns.
LEMMA EventTypes ==
    ASSUME NEW row \in Event, NEW s \in {"absent", "pending", "dispatching", "dispatched", "failed"},
           NEW n \in Nat, NEW b \in BOOLEAN, NEW c \in {"none", "live", "stale"}
    PROVE  /\ [row EXCEPT !.status = s] \in Event
           /\ [row EXCEPT !.due = b] \in Event
           /\ [row EXCEPT !.claim = c] \in Event
           /\ [row EXCEPT !.attempts = n] \in Event
BY DEF Event

LEMMA EnvironmentSteps ==
    ASSUME OutboxInv,
           \/ \E e \in Events : queue_outbox_event(e) \/ BackoffElapses(e) \/ ClaimExpires(e)
           \/ \E p \in Endpoints : disable_integration_endpoint(p)
           \/ \E d \in Pairs : deliver_integration(d)
    PROVE  OutboxInv'
<1>0. TypeOK /\ DeliveredHadJob /\ AbsentIsUnclaimed /\ (\A e \in Events : events[e] \in Event)
    BY DEF OutboxInv, TypeOK
<1>1. ASSUME NEW e \in Events, queue_outbox_event(e)
      PROVE  OutboxInv'
    <2>0. [AbsentEvent EXCEPT !.status = "pending", !.due = TRUE] \in Event
        BY RowTypes DEF Event
    <2>1. TypeOK'
        BY <1>0, <1>1, <2>0 DEF queue_outbox_event, TypeOK
    <2> QED
        <3>1. EnvironmentStep
            BY <1>0, <1>1 DEF EnvironmentStep, queue_outbox_event, TypeOK, DeliveredHadJob, AbsentIsUnclaimed, AbsentEvent
        <3> QED
            BY <2>1, <3>1, EnvironmentKeeps
<1>2. ASSUME NEW e \in Events, BackoffElapses(e)
      PROVE  OutboxInv'
    <2>1. TypeOK'
        BY <1>0, <1>2, EventTypes DEF BackoffElapses, TypeOK
    <2>2. \A i \in Events : /\ events'[i].status = events[i].status
                            /\ events'[i].attempts = events[i].attempts
        BY <1>0, <1>2 DEF BackoffElapses, TypeOK, Event
    <2> QED
        <3>1. EnvironmentStep
            BY <1>0, <1>2, <2>1, <2>2 DEF EnvironmentStep, BackoffElapses, DeliveredHadJob, AbsentIsUnclaimed
        <3> QED
            BY <2>1, <3>1, EnvironmentKeeps
<1>3. ASSUME NEW e \in Events, ClaimExpires(e)
      PROVE  OutboxInv'
    <2>1. TypeOK'
        BY <1>0, <1>3, EventTypes DEF ClaimExpires, TypeOK
    <2>2. \A i \in Events : /\ events'[i].status = events[i].status
                            /\ events'[i].attempts = events[i].attempts
        BY <1>0, <1>3 DEF ClaimExpires, TypeOK, Event
    <2> QED
        <3>1. EnvironmentStep
            BY <1>0, <1>3, <2>1, <2>2 DEF EnvironmentStep, ClaimExpires, DeliveredHadJob, AbsentIsUnclaimed
        <3> QED
            BY <2>1, <3>1, EnvironmentKeeps
<1>4. ASSUME NEW p \in Endpoints, disable_integration_endpoint(p)
      PROVE  OutboxInv'
    <2>1. TypeOK'
        BY <1>0, <1>4 DEF disable_integration_endpoint, TypeOK
    <2> QED
        <3>1. EnvironmentStep
            BY <1>0, <1>4, <2>1 DEF EnvironmentStep, disable_integration_endpoint, DeliveredHadJob, AbsentIsUnclaimed
        <3> QED
            BY <2>1, <3>1, EnvironmentKeeps
<1>5. ASSUME NEW d \in Pairs, deliver_integration(d)
      PROVE  OutboxInv'
    <2>1. TypeOK'
        BY <1>0, <1>5 DEF deliver_integration, TypeOK, DeliveryStatus
    <2> QED
        <3>1. EnvironmentStep
            BY <1>0, <1>5, <2>1 DEF EnvironmentStep, deliver_integration, DeliveredHadJob, AbsentIsUnclaimed, TypeOK
        <3> QED
            BY <2>1, <3>1, EnvironmentKeeps
<1> QED
    BY <1>1, <1>2, <1>3, <1>4, <1>5

\* The steps before the fan-out.
LEMMA ClaimingSteps ==
    ASSUME OutboxInv, NEW x \in Dispatchers,
           \/ RecoverStale(x) \/ SelectBatch(x) \/ LoadEvent(x) \/ ListEndpoints(x)
    PROVE  OutboxInv'
<1>0. /\ TypeOK /\ OneTarget /\ BehindIsQueued
      /\ disp[x] \in Dispatcher /\ (\A e \in Events : events[e] \in Event)
    BY DEF OutboxInv, TypeOK
<1>1. ASSUME RecoverStale(x) PROVE OutboxInv'
    <2>1. \A e \in Events : /\ RecoveredEvent(events[e]) \in Event
                            /\ RecoveredEvent(events[e]).attempts = events[e].attempts
                            /\ RecoveredEvent(events[e]).status \in {events[e].status, "pending"}
        BY <1>0 DEF RecoveredEvent, Event
    <2>2. [IdleDispatcher EXCEPT !.at = "selecting"] \in Dispatcher
        BY RowTypes DEF Dispatcher, Places
    <2>3. TypeOK'
        BY <1>0, <1>1, <2>1, <2>2 DEF RecoverStale, TypeOK, IdleDispatcher
    <2>4. DispatcherStep(x)
        BY <1>0, <1>1, <2>1 DEF RecoverStale, DispatcherStep, TypeOK, IdleDispatcher,
            FanningOut, MayEnqueue
    <2> QED
        BY <2>3, <2>4, DispatcherKeeps
<1>2. ASSUME SelectBatch(x) PROVE OutboxInv'
    <2>1. /\ disp' \in [Dispatchers -> Dispatcher]
          /\ disp'[x].at \in {"idle", "claiming"}
          /\ disp'[x].target = {}
          /\ \A y \in Dispatchers \ {x} : disp'[y] = disp[y]
        BY <1>0, <1>2, RowTypes DEF SelectBatch, TypeOK, OneTarget, Dispatcher, Places,
            IdleDispatcher
    <2>2. TypeOK'
        BY <1>0, <1>2, <2>1 DEF SelectBatch, TypeOK
    <2>3. DispatcherStep(x)
        BY <1>0, <1>2, <2>1 DEF SelectBatch, DispatcherStep, FanningOut, MayEnqueue
    <2> QED
        BY <2>2, <2>3, DispatcherKeeps
<1>3. ASSUME LoadEvent(x) PROVE OutboxInv'
    <2>1. /\ disp' \in [Dispatchers -> Dispatcher]
          /\ disp'[x].at = "listing"
          /\ disp'[x].target = {}
          /\ disp'[x].event = disp[x].event
          /\ \A y \in Dispatchers \ {x} : disp'[y] = disp[y]
        BY <1>0, <1>3 DEF LoadEvent, TypeOK, OneTarget, Dispatcher, Places
    <2>2. TypeOK'
        BY <1>0, <1>3, <2>1 DEF LoadEvent, TypeOK
    <2>3. DispatcherStep(x)
        BY <1>0, <1>3, <2>1 DEF LoadEvent, DispatcherStep, FanningOut, MayEnqueue
    <2> QED
        BY <2>2, <2>3, DispatcherKeeps
<1>4. ASSUME ListEndpoints(x) PROVE OutboxInv'
    <2>1. /\ disp' \in [Dispatchers -> Dispatcher]
          /\ disp'[x].at = "fanout"
          /\ disp'[x].target = {}
          /\ disp'[x].todo = enabled
          /\ disp'[x].event = disp[x].event
          /\ \A y \in Dispatchers \ {x} : disp'[y] = disp[y]
        BY <1>0, <1>4 DEF ListEndpoints, TypeOK, OneTarget, Dispatcher, Places
    <2>2. TypeOK'
        BY <1>0, <1>4, <2>1 DEF ListEndpoints, TypeOK
    <2>3. DispatcherStep(x)
        BY <1>0, <1>4, <2>1 DEF ListEndpoints, DispatcherStep, FanningOut, MayEnqueue
    <2> QED
        BY <2>2, <2>3, DispatcherKeeps
<1> QED
    BY <1>1, <1>2, <1>3, <1>4

\* The steps that end the work on an event.
LEMMA EndingSteps ==
    ASSUME OutboxInv, NEW x \in Dispatchers,
           \/ MarkDispatched(x) \/ DispatchRaises(x) \/ CommitRaised(x) \/ DispatcherCrashes(x)
    PROVE  OutboxInv'
<1>0. /\ TypeOK /\ OneTarget /\ BehindIsQueued
      /\ disp[x] \in Dispatcher /\ (\A e \in Events : events[e] \in Event)
    BY DEF OutboxInv, TypeOK
<1>a. /\ AfterEvent(x) \in Dispatcher
      /\ AfterEvent(x).at \in {"idle", "claiming"}
      /\ AfterEvent(x).target = {}
    BY <1>0, RowTypes DEF AfterEvent, IdleDispatcher, Dispatcher, Places
<1>1. ASSUME MarkDispatched(x) PROVE OutboxInv'
    <2> DEFINE e == disp[x].event
               s == Written(x, events[e].status, disp[x].copy.status, "dispatched")
               c == Written(x, events[e].claim, disp[x].copy.claim, "none")
    <2>1. /\ e \in Events
          /\ s \in {events[e].status, "dispatched"}
          /\ c \in {events[e].claim, "none"}
        BY <1>0, <1>1 DEF MarkDispatched, TypeOK, Written
    <2> DEFINE row == [events[e] EXCEPT !.status = s, !.claim = c]
    <2>2. /\ events' = [events EXCEPT ![e] = row]
          /\ disp' = [disp EXCEPT ![x] = AfterEvent(x)]
          /\ UNCHANGED <<enabled, deliveries, jobs, crashes>>
          /\ disp[x].at = "fanout" /\ disp[x].todo = {}
        BY <1>0, <1>1, <2>1 DEF MarkDispatched, TypeOK
    <2>3. \A p \in enabled : Queued(e, p)
        BY <1>0, <2>2 DEF OneTarget, BehindIsQueued, FanningOut
    <2> HIDE DEF e, s, c
    <2>r. row \in Event /\ row.attempts = events[e].attempts /\ row.status = s
        BY <1>0, <2>1 DEF Event
    <2> HIDE DEF row
    <2>4. /\ events' \in [Events -> Event]
          /\ \A i \in Events :
                /\ events'[i].attempts = events[i].attempts
                /\ \/ events'[i].status = events[i].status
                   \/ i = e /\ events'[i].status = "dispatched"
        BY <1>0, <2>1, <2>2, <2>r DEF TypeOK
    <2>5. TypeOK'
        BY <1>0, <1>a, <2>2, <2>4 DEF TypeOK
    <2>6. DispatcherStep(x)
        BY <1>0, <1>a, <2>2, <2>3, <2>4 DEF DispatcherStep, TypeOK, FanningOut, MayEnqueue
    <2> QED
        BY <2>5, <2>6, DispatcherKeeps
<1>2. ASSUME DispatchRaises(x) PROVE OutboxInv'
    <2>1. /\ disp' \in [Dispatchers -> Dispatcher]
          /\ disp'[x].at = "raised"
          /\ disp'[x].target = {}
          /\ disp'[x].event = disp[x].event
          /\ \A y \in Dispatchers \ {x} : disp'[y] = disp[y]
        BY <1>0, <1>2 DEF DispatchRaises, TypeOK, Dispatcher, Places
    <2>2. TypeOK'
        BY <1>0, <1>2, <2>1 DEF DispatchRaises, TypeOK
    <2>3. DispatcherStep(x)
        BY <1>0, <1>2, <2>1 DEF DispatchRaises, DispatcherStep, FanningOut, MayEnqueue
    <2> QED
        BY <2>2, <2>3, DispatcherKeeps
<1>3. ASSUME CommitRaised(x) PROVE OutboxInv'
    <2> DEFINE e == disp[x].event
               n == IF disp[x].copy.attempts >= MaxAttempts THEN "failed" ELSE "pending"
               s == IF disp[x].copy.status = n THEN events[e].status ELSE n
               c == Written(x, events[e].claim, disp[x].copy.claim, "none")
               b == IF n = "pending" THEN FALSE ELSE events[e].due
    <2>1. /\ e \in Events
          /\ s \in {events[e].status, "failed", "pending"}
          /\ c \in {events[e].claim, "none"}
          /\ b \in {events[e].due, FALSE}
        BY <1>0, <1>3 DEF CommitRaised, TypeOK, Written
    <2> DEFINE row == [events[e] EXCEPT !.status = s, !.claim = c, !.due = b]
    <2>2. /\ events' = [events EXCEPT ![e] = row]
          /\ disp' = [disp EXCEPT ![x] = AfterEvent(x)]
          /\ UNCHANGED <<enabled, deliveries, jobs, crashes>>
        BY <1>0, <1>3, <2>1 DEF CommitRaised, TypeOK
    <2> HIDE DEF e, s, c, b
    <2>r. row \in Event /\ row.attempts = events[e].attempts /\ row.status = s
        BY <1>0, <2>1 DEF Event
    <2> HIDE DEF row
    <2>4. /\ events' \in [Events -> Event]
          /\ \A i \in Events : /\ events'[i].attempts = events[i].attempts
                               /\ events'[i].status \in {events[i].status, "failed", "pending"}
        BY <1>0, <2>1, <2>2, <2>r DEF TypeOK
    <2>5. TypeOK'
        BY <1>0, <1>a, <2>2, <2>4 DEF TypeOK
    <2>6. DispatcherStep(x)
        BY <1>0, <1>a, <2>2, <2>4 DEF DispatcherStep, TypeOK, FanningOut, MayEnqueue
    <2> QED
        BY <2>5, <2>6, DispatcherKeeps
<1>4. ASSUME DispatcherCrashes(x) PROVE OutboxInv'
    <2>1. TypeOK'
        BY <1>0, <1>4, RowTypes, OutboxAssumption DEF DispatcherCrashes, TypeOK, IdleDispatcher
    <2>2. DispatcherStep(x)
        BY <1>0, <1>4 DEF DispatcherCrashes, DispatcherStep, TypeOK, IdleDispatcher,
            FanningOut, MayEnqueue
    <2> QED
        BY <2>1, <2>2, DispatcherKeeps
<1> QED
    BY <1>1, <1>2, <1>3, <1>4

\* A claim that matches counts an attempt and gives one dispatcher the event.
LEMMA ClaimStep ==
    ASSUME OutboxInv, NEW x \in Dispatchers, NEW c \in Events, ClaimEvent(x, c)
    PROVE  OutboxInv'
<1>0. /\ TypeOK /\ DeliveredHadJob /\ OneTarget /\ BehindIsQueued
      /\ DispatchedIsQueued /\ ClaimsCoverJobs /\ AbsentIsUnclaimed
      /\ disp[x] \in Dispatcher /\ (\A e \in Events : events[e] \in Event)
    BY DEF OutboxInv, TypeOK
<1>1. CASE events[c].status # "pending"
    <2>1. /\ disp' \in [Dispatchers -> Dispatcher]
          /\ disp'[x].at \in {"idle", "claiming"}
          /\ disp'[x].target = {}
          /\ \A y \in Dispatchers \ {x} : disp'[y] = disp[y]
          /\ UNCHANGED <<events, enabled, deliveries, jobs, crashes>>
        <3> DEFINE left == [disp[x] EXCEPT !.batch = @ \ {c}]
        <3>1. left \in Dispatcher /\ left.at = "claiming" /\ left.target = {}
            BY <1>0 DEF ClaimEvent, OneTarget, Dispatcher
        <3>2. /\ IdleDispatcher \in Dispatcher
              /\ IdleDispatcher.at = "idle" /\ IdleDispatcher.target = {}
            BY RowTypes DEF IdleDispatcher
        <3>3. /\ disp' = [disp EXCEPT ![x] = IF disp[x].batch = {c} THEN IdleDispatcher ELSE left]
              /\ UNCHANGED <<events, enabled, deliveries, jobs, crashes>>
            BY <1>0, <1>1 DEF ClaimEvent, TypeOK
        <3> HIDE DEF left
        <3> QED
            BY <1>0, <3>1, <3>2, <3>3 DEF TypeOK
    <2>2. TypeOK'
        BY <1>0, <2>1 DEF TypeOK
    <2>3. DispatcherStep(x)
        BY <2>1 DEF DispatcherStep, FanningOut, MayEnqueue
    <2> QED
        BY <2>2, <2>3, DispatcherKeeps
<1>2. CASE events[c].status = "pending"
    <2> DEFINE row == [events[c] EXCEPT !.status = "dispatching", !.claim = "live",
                                        !.attempts = @ + 1]
    <2>1. events' = [events EXCEPT ![c] = row] /\ UNCHANGED <<enabled, deliveries, jobs, crashes>>
        BY <1>0, <1>2 DEF ClaimEvent, TypeOK
    <2>2. /\ row \in Event
          /\ row.attempts = events[c].attempts + 1
          /\ row.status = "dispatching"
        <3> DEFINE n == events[c].attempts + 1
                   claimed == [events[c] EXCEPT !.status = "dispatching", !.claim = "live"]
        <3>1. n \in Nat
            BY <1>0 DEF Event
        <3> HIDE DEF n
        <3>2. claimed \in Event /\ claimed.status = "dispatching"
            BY <1>0 DEF Event
        <3> HIDE DEF claimed
        <3>3. row = [claimed EXCEPT !.attempts = n]
            BY DEF claimed, n
        <3>4. row \in Event /\ row.attempts = n /\ row.status = "dispatching"
            <4> HIDE DEF row
            <4> QED
                BY <3>1, <3>2, <3>3 DEF Event
        <3> QED
            BY <3>4 DEF n
    <2> HIDE DEF row
    <2>3. /\ disp' \in [Dispatchers -> Dispatcher]
          /\ disp'[x].at = "loading"
          /\ disp'[x].event = c
          /\ disp'[x].target = {}
          /\ \A y \in Dispatchers \ {x} : disp'[y] = disp[y]
        BY <1>0, <1>2 DEF ClaimEvent, TypeOK, OneTarget, Dispatcher, Places
    <2>4. /\ events' \in [Events -> Event]
          /\ events'[c].attempts = events[c].attempts + 1
          /\ events'[c].status = "dispatching"
          /\ \A e \in Events \ {c} : events'[e] = events[e]
        BY <1>0, <2>1, <2>2 DEF TypeOK
    <2>5. TypeOK'
        BY <1>0, <2>1, <2>3, <2>4 DEF TypeOK
    <2>6. DeliveredHadJob'
        BY <1>0, <2>1 DEF DeliveredHadJob
    <2>7. OneTarget'
        <3> SUFFICES ASSUME NEW y \in Dispatchers
                     PROVE  /\ disp'[y].at \notin {"creating", "enqueueing"} => disp'[y].target = {}
                            /\ \A p \in disp'[y].target :
                                /\ disp'[y].target = {p}
                                /\ p \notin disp'[y].todo
                                /\ disp'[y].at = "enqueueing"
                                    => deliveries'[<<disp'[y].event, p>>] # "absent"
            BY DEF OneTarget
        <3>1. CASE y = x
            BY <2>3, <3>1
        <3>2. CASE y # x
            <4>1. disp'[y] = disp[y] /\ deliveries' = deliveries
                BY <2>1, <2>3, <3>2
            <4> QED
                BY <1>0, <4>1 DEF OneTarget
        <3> QED
            BY <3>1, <3>2
    <2>8. BehindIsQueued'
        <3>1. \A y \in Dispatchers : disp'[y].at \in FanningOut => disp'[y] = disp[y]
            BY <2>3 DEF FanningOut
        <3> QED
            BY <1>0, <2>1, <3>1 DEF BehindIsQueued, Queued
    <2>9. DispatchedIsQueued' /\ AbsentIsUnclaimed'
        BY <1>0, <2>1, <2>4 DEF DispatchedIsQueued, AbsentIsUnclaimed
    <2>10. ClaimsCoverJobs'
        <3> SUFFICES ASSUME NEW e \in Events, NEW p \in Endpoints
                     PROVE  /\ IsFiniteSet(Outstanding(e, p)')
                            /\ jobs'[<<e, p>>] + Cardinality(Outstanding(e, p)')
                                    <= events'[e].attempts
            BY DEF ClaimsCoverJobs
        <3>1. \A y \in Dispatchers \ {x} : MayEnqueue(y, e, p)' <=> MayEnqueue(y, e, p)
            BY <2>3 DEF MayEnqueue
        <3>2. MayEnqueue(x, e, p)' <=> e = c
            BY <2>3 DEF MayEnqueue, FanningOut
        <3>3. ~MayEnqueue(x, e, p)
            BY DEF MayEnqueue, FanningOut, ClaimEvent
        <3>4. CASE e # c
            <4>1. Outstanding(e, p)' = Outstanding(e, p)
                BY <3>1, <3>2, <3>3, <3>4 DEF Outstanding
            <4> QED
                BY <1>0, <2>1, <2>4, <2>5, <3>4, <4>1, AccountKept DEF TypeOK, Event
        <3>5. CASE e = c
            <4> DEFINE old == Outstanding(e, p)
                       new == Outstanding(e, p)'
            <4>1. new = old \cup {x} /\ x \notin old
                BY <3>1, <3>2, <3>3, <3>5 DEF Outstanding
            <4>2. IsFiniteSet(old) /\ jobs[<<e, p>>] + Cardinality(old) <= events[e].attempts
                BY <1>0 DEF ClaimsCoverJobs
            <4> HIDE DEF old, new
            <4>3. IsFiniteSet(new) /\ Cardinality(new) = Cardinality(old) + 1
                BY <4>1, <4>2, FS_AddElement
            <4>4. Cardinality(old) \in Nat /\ jobs[<<e, p>>] \in Nat /\ events[e].attempts \in Nat
                BY <1>0, <4>2, FS_CardinalityType DEF TypeOK, Pairs, Event
            <4>5. jobs'[<<e, p>>] = jobs[<<e, p>>] /\ events'[e].attempts = events[e].attempts + 1
                BY <2>1, <2>4, <3>5
            <4>6. IsFiniteSet(new) /\ jobs'[<<e, p>>] + Cardinality(new) <= events'[e].attempts
                BY <4>2, <4>3, <4>4, <4>5
            <4> QED
                BY <4>6 DEF new
        <3> QED
            BY <3>4, <3>5
    <2> QED
        BY <2>5, <2>6, <2>7, <2>8, <2>9, <2>10 DEF OutboxInv
<1> QED
    BY <1>1, <1>2

LEMMA LookupStep ==
    ASSUME OutboxInv, NEW x \in Dispatchers, NEW p \in Endpoints, LookupDelivery(x, p)
    PROVE  OutboxInv'
<1>0. /\ TypeOK /\ DeliveredHadJob /\ OneTarget /\ BehindIsQueued
      /\ disp[x] \in Dispatcher
    BY DEF OutboxInv, TypeOK
<1> DEFINE d == <<disp[x].event, p>>
           next == AfterLookup(deliveries[d])
<1>1. /\ d \in Pairs
      /\ disp[x].at = "fanout" /\ disp[x].target = {} /\ p \in disp[x].todo
    BY <1>0 DEF LookupDelivery, TypeOK, Pairs, OneTarget
<1>2. deliveries[d] \in DeliveryStatus
    BY <1>0, <1>1 DEF TypeOK
<1>3. /\ next \in {"fanout", "creating", "enqueueing"}
      /\ next = "fanout" => deliveries[d] = "delivered"
      /\ next = "enqueueing" => deliveries[d] # "absent"
    BY <1>2 DEF AfterLookup, DeliveryStatus
<1>4. next = "fanout" => Queued(disp[x].event, p)
    BY <1>0, <1>1, <1>3 DEF DeliveredHadJob, Queued
<1>5. disp' = [disp EXCEPT ![x].at = next, ![x].todo = @ \ {p},
                           ![x].target = IF next = "fanout" THEN {} ELSE {p}]
      /\ UNCHANGED <<events, enabled, deliveries, jobs, crashes>>
    BY DEF LookupDelivery
<1> HIDE DEF next
<1>6. /\ disp' \in [Dispatchers -> Dispatcher]
      /\ disp'[x].at = next
      /\ disp'[x].event = disp[x].event
      /\ disp'[x].todo = disp[x].todo \ {p}
      /\ disp'[x].target = IF next = "fanout" THEN {} ELSE {p}
      /\ \A y \in Dispatchers \ {x} : disp'[y] = disp[y]
    <2> DEFINE target == IF next = "fanout" THEN {} ELSE {p}
               row == [disp[x] EXCEPT !.at = next, !.todo = @ \ {p}, !.target = target]
    <2>1. disp' = [disp EXCEPT ![x] = row] /\ disp \in [Dispatchers -> Dispatcher]
        BY <1>0, <1>5 DEF TypeOK
    <2>2. target \in SUBSET Endpoints /\ next \in Places
        BY <1>3 DEF Places
    <2> HIDE DEF target
    <2>3. /\ row \in Dispatcher /\ row.at = next /\ row.event = disp[x].event
          /\ row.todo = disp[x].todo \ {p} /\ row.target = target
        BY <1>0, <2>2 DEF Dispatcher
    <2> HIDE DEF row
    <2> QED
        BY <2>1, <2>3 DEF target
<1>7. TypeOK'
    BY <1>0, <1>1, <1>5, <1>6 DEF TypeOK
<1>8. \A q \in enabled \ (disp'[x].todo \cup disp'[x].target) : Queued(disp[x].event, q)
    BY <1>0, <1>1, <1>4, <1>6 DEF BehindIsQueued, FanningOut
<1>9. \A e \in Events, q \in Endpoints : MayEnqueue(x, e, q)' => MayEnqueue(x, e, q)
    BY <1>1, <1>3, <1>6 DEF MayEnqueue, FanningOut
<1>10. DispatcherStep(x)
    BY <1>1, <1>3, <1>5, <1>6, <1>8, <1>9 DEF DispatcherStep, Queued
<1> QED
    BY <1>7, <1>10, DispatcherKeeps

\* The delivery is inserted, or exists and the call of the dispatcher ends.
LEMMA CreateStep ==
    ASSUME OutboxInv, NEW x \in Dispatchers, NEW p \in Endpoints, CreateDelivery(x, p)
    PROVE  OutboxInv'
<1>0. /\ TypeOK /\ DeliveredHadJob /\ OneTarget /\ BehindIsQueued
      /\ DispatchedIsQueued /\ ClaimsCoverJobs /\ AbsentIsUnclaimed
      /\ disp[x] \in Dispatcher
    BY DEF OutboxInv, TypeOK
<1> DEFINE d == <<disp[x].event, p>>
<1>1. /\ d \in Pairs
      /\ disp[x].at = "creating" /\ disp[x].target = {p} /\ p \notin disp[x].todo
    BY <1>0 DEF CreateDelivery, TypeOK, Pairs, OneTarget
<1>2. CASE deliveries[d] # "absent"
    <2>1. /\ disp' = [disp EXCEPT ![x] = IdleDispatcher]
          /\ UNCHANGED <<events, enabled, deliveries, jobs, crashes>>
        BY <1>2 DEF CreateDelivery
    <2>2. TypeOK'
        BY <1>0, <2>1, RowTypes DEF TypeOK, IdleDispatcher
    <2>3. DispatcherStep(x)
        BY <1>0, <2>1 DEF DispatcherStep, TypeOK, IdleDispatcher, FanningOut, MayEnqueue
    <2> QED
        BY <2>2, <2>3, DispatcherKeeps
<1>3. CASE deliveries[d] = "absent"
    <2>1. /\ disp' = [disp EXCEPT ![x].at = "enqueueing", ![x].expired = TRUE]
          /\ deliveries' = [deliveries EXCEPT ![d] = "open"]
          /\ UNCHANGED <<events, enabled, jobs, crashes>>
        BY <1>3 DEF CreateDelivery
    <2>2. /\ disp' \in [Dispatchers -> Dispatcher]
          /\ disp'[x].at = "enqueueing"
          /\ disp'[x].event = disp[x].event
          /\ disp'[x].todo = disp[x].todo
          /\ disp'[x].target = disp[x].target
          /\ \A y \in Dispatchers \ {x} : disp'[y] = disp[y]
        BY <1>0, <2>1 DEF TypeOK, Dispatcher, Places
    <2>3. /\ deliveries' \in [Pairs -> DeliveryStatus]
          /\ deliveries'[d] = "open"
          /\ \A i \in Pairs \ {d} : deliveries'[i] = deliveries[i]
        BY <1>0, <1>1, <2>1 DEF TypeOK, DeliveryStatus
    <2>4. TypeOK'
        BY <1>0, <1>1, <2>1, <2>2, <2>3 DEF TypeOK
    <2>5. DeliveredHadJob'
        BY <1>0, <2>1, <2>3 DEF DeliveredHadJob
    <2>6. \A i : deliveries[i] # "absent" => deliveries'[i] # "absent"
        BY <1>0, <1>3, <2>1 DEF TypeOK
    <2>7. OneTarget'
        <3> SUFFICES ASSUME NEW y \in Dispatchers
                     PROVE  /\ disp'[y].at \notin {"creating", "enqueueing"} => disp'[y].target = {}
                            /\ \A q \in disp'[y].target :
                                /\ disp'[y].target = {q}
                                /\ q \notin disp'[y].todo
                                /\ disp'[y].at = "enqueueing"
                                    => deliveries'[<<disp'[y].event, q>>] # "absent"
            BY DEF OneTarget
        <3>1. CASE y = x
            BY <1>1, <2>2, <2>3, <3>1
        <3>2. CASE y # x
            <4>1. disp'[y] = disp[y]
                BY <2>2, <3>2
            <4> QED
                BY <1>0, <2>6, <4>1 DEF OneTarget
        <3> QED
            BY <3>1, <3>2
    <2>8. \A e, q : Queued(e, q) => Queued(e, q)'
        BY <2>1, <2>6 DEF Queued
    <2>9. BehindIsQueued'
        <3>1. \A y \in Dispatchers : /\ disp'[y].event = disp[y].event
                                     /\ disp'[y].todo = disp[y].todo
                                     /\ disp'[y].target = disp[y].target
                                     /\ disp'[y].at \in FanningOut <=> disp[y].at \in FanningOut
            BY <1>1, <2>2 DEF FanningOut
        <3> QED
            BY <1>0, <2>1, <2>8, <3>1 DEF BehindIsQueued
    <2>10. DispatchedIsQueued' /\ AbsentIsUnclaimed'
        BY <1>0, <2>1, <2>8 DEF DispatchedIsQueued, AbsentIsUnclaimed, Queued
    <2>11. ClaimsCoverJobs'
        <3> SUFFICES ASSUME NEW e \in Events, NEW q \in Endpoints
                     PROVE  /\ IsFiniteSet(Outstanding(e, q)')
                            /\ jobs'[<<e, q>>] + Cardinality(Outstanding(e, q)')
                                    <= events'[e].attempts
            BY DEF ClaimsCoverJobs
        <3>1. \A y \in Dispatchers : MayEnqueue(y, e, q)' <=> MayEnqueue(y, e, q)
            BY <1>1, <2>2 DEF MayEnqueue, FanningOut
        <3>2. Outstanding(e, q)' = Outstanding(e, q)
            BY <3>1 DEF Outstanding
        <3>3. events'[e].attempts >= events[e].attempts
            BY <1>0, <2>1 DEF TypeOK, Event
        <3> QED
            BY <1>0, <2>1, <2>4, <3>2, <3>3, AccountKept
    <2> QED
        BY <2>4, <2>5, <2>7, <2>9, <2>10, <2>11 DEF OutboxInv
<1> QED
    BY <1>2, <1>3

\* The job is enqueued by the one claim that had it outstanding.
LEMMA EnqueueStep ==
    ASSUME OutboxInv, NEW x \in Dispatchers, NEW p \in Endpoints, EnqueueDelivery(x, p)
    PROVE  OutboxInv'
<1>0. /\ TypeOK /\ DeliveredHadJob /\ OneTarget /\ BehindIsQueued
      /\ DispatchedIsQueued /\ ClaimsCoverJobs /\ AbsentIsUnclaimed
      /\ disp[x] \in Dispatcher
    BY DEF OutboxInv, TypeOK
<1> DEFINE v == disp[x].event
           d == <<v, p>>
<1>1. /\ v \in Events /\ d \in Pairs
      /\ disp[x].at = "enqueueing" /\ disp[x].target = {p} /\ p \notin disp[x].todo
      /\ deliveries[d] # "absent"
    BY <1>0 DEF EnqueueDelivery, TypeOK, Pairs, OneTarget
<1>2. /\ disp' = [disp EXCEPT ![x].at = "fanout", ![x].target = {}, ![x].expired = TRUE]
      /\ jobs' = [jobs EXCEPT ![d] = @ + 1]
      /\ UNCHANGED <<events, enabled, deliveries, crashes>>
    BY DEF EnqueueDelivery
<1>3. /\ disp' \in [Dispatchers -> Dispatcher]
      /\ disp'[x].at = "fanout"
      /\ disp'[x].event = disp[x].event
      /\ disp'[x].todo = disp[x].todo
      /\ disp'[x].target = {}
      /\ \A y \in Dispatchers \ {x} : disp'[y] = disp[y]
    BY <1>0, <1>2 DEF TypeOK, Dispatcher, Places
<1>4. /\ jobs' \in [Pairs -> Nat]
      /\ jobs'[d] = jobs[d] + 1
      /\ jobs'[d] > 0
      /\ \A i \in Pairs \ {d} : jobs'[i] = jobs[i]
    BY <1>0, <1>1, <1>2 DEF TypeOK
<1>5. TypeOK'
    BY <1>0, <1>1, <1>2, <1>3, <1>4 DEF TypeOK
<1>6. DeliveredHadJob'
    BY <1>0, <1>2, <1>4 DEF DeliveredHadJob
<1>7. OneTarget'
    <2> SUFFICES ASSUME NEW y \in Dispatchers
                 PROVE  /\ disp'[y].at \notin {"creating", "enqueueing"} => disp'[y].target = {}
                        /\ \A q \in disp'[y].target :
                            /\ disp'[y].target = {q}
                            /\ q \notin disp'[y].todo
                            /\ disp'[y].at = "enqueueing"
                                => deliveries'[<<disp'[y].event, q>>] # "absent"
        BY DEF OneTarget
    <2>1. CASE y = x
        BY <1>3, <2>1
    <2>2. CASE y # x
        <3>1. disp'[y] = disp[y] /\ deliveries' = deliveries
            BY <1>2, <1>3, <2>2
        <3> QED
            BY <1>0, <3>1 DEF OneTarget
    <2> QED
        BY <2>1, <2>2
<1> DEFINE QueuedNow(e, q) == deliveries'[<<e, q>>] # "absent" /\ jobs'[<<e, q>>] > 0
<1>8. \A e \in Events, q \in Endpoints : Queued(e, q) => QueuedNow(e, q)
    <2> SUFFICES ASSUME NEW e \in Events, NEW q \in Endpoints, Queued(e, q)
                 PROVE  QueuedNow(e, q)
        OBVIOUS
    <2>1. <<e, q>> \in Pairs
        BY DEF Pairs
    <2> QED
        BY <1>2, <1>4, <2>1 DEF Queued
<1>9. QueuedNow(v, p)
    BY <1>1, <1>2, <1>4
<1>10. BehindIsQueued'
    <2> SUFFICES ASSUME NEW y \in Dispatchers, disp'[y].at \in FanningOut,
                        NEW q \in enabled \ (disp'[y].todo \cup disp'[y].target)
                 PROVE  QueuedNow(disp'[y].event, q)
        BY <1>2 DEF BehindIsQueued, Queued
    <2> HIDE DEF QueuedNow
    <2>0. q \in Endpoints
        BY <1>0 DEF TypeOK
    <2>1. CASE y = x /\ q = p
        BY <1>3, <1>9, <2>1
    <2>2. CASE y = x /\ q # p
        <3>1. Queued(v, q)
            BY <1>0, <1>1, <1>3, <2>2 DEF BehindIsQueued, FanningOut
        <3> QED
            BY <1>1, <1>3, <1>8, <2>0, <2>2, <3>1
    <2>3. CASE y # x
        <3>1. disp'[y] = disp[y]
            BY <1>3, <2>3
        <3>2. disp[y].event \in Events /\ Queued(disp[y].event, q)
            BY <1>0, <3>1 DEF BehindIsQueued, FanningOut, TypeOK
        <3> QED
            BY <1>8, <2>0, <3>1, <3>2
    <2> QED
        BY <2>1, <2>2, <2>3
<1>11. DispatchedIsQueued' /\ AbsentIsUnclaimed'
    <2>1. \A e \in Events : events[e].status = "dispatched" => \A q \in enabled : QueuedNow(e, q)
        BY <1>0, <1>8 DEF DispatchedIsQueued, Queued, TypeOK
    <2> QED
        BY <1>0, <1>2, <2>1 DEF DispatchedIsQueued, AbsentIsUnclaimed, Queued
<1>12. ClaimsCoverJobs'
    <2> SUFFICES ASSUME NEW e \in Events, NEW q \in Endpoints
                 PROVE  /\ IsFiniteSet(Outstanding(e, q)')
                        /\ jobs'[<<e, q>>] + Cardinality(Outstanding(e, q)')
                                <= events'[e].attempts
        BY DEF ClaimsCoverJobs
    <2>1. \A y \in Dispatchers \ {x} : MayEnqueue(y, e, q)' <=> MayEnqueue(y, e, q)
        BY <1>3 DEF MayEnqueue
    <2>2. MayEnqueue(x, e, q)' <=> MayEnqueue(x, e, q) /\ <<e, q>> # d
        BY <1>1, <1>3 DEF MayEnqueue, FanningOut
    <2>3. MayEnqueue(x, v, p)
        BY <1>1 DEF MayEnqueue, FanningOut
    <2>4. CASE <<e, q>> # d
        <3>1. Outstanding(e, q)' = Outstanding(e, q)
            BY <2>1, <2>2, <2>4 DEF Outstanding
        <3>2. <<e, q>> \in Pairs
            BY DEF Pairs
        <3>3. /\ jobs'[<<e, q>>] = jobs[<<e, q>>]
              /\ events'[e].attempts >= events[e].attempts
            BY <1>0, <1>2, <1>4, <2>4, <3>2 DEF TypeOK, Event
        <3> QED
            BY <1>0, <1>5, <3>1, <3>3, AccountKept
    <2>5. CASE <<e, q>> = d
        <3>0. e = v /\ q = p
            BY <2>5
        <3> DEFINE old == Outstanding(e, q)
                   new == Outstanding(e, q)'
        <3>1. new = old \ {x} /\ x \in old
            BY <2>1, <2>2, <2>3, <2>5, <3>0 DEF Outstanding
        <3>2. IsFiniteSet(old) /\ jobs[<<e, q>>] + Cardinality(old) <= events[e].attempts
            BY <1>0 DEF ClaimsCoverJobs
        <3> HIDE DEF old, new
        <3>3. IsFiniteSet(new) /\ Cardinality(new) = Cardinality(old) - 1
            BY <3>1, <3>2, FS_RemoveElement
        <3>4. Cardinality(old) \in Nat /\ jobs[<<e, q>>] \in Nat /\ events[e].attempts \in Nat
            BY <1>0, <3>2, FS_CardinalityType DEF TypeOK, Pairs, Event
        <3>5. jobs'[<<e, q>>] = jobs[<<e, q>>] + 1 /\ events'[e].attempts = events[e].attempts
            BY <1>2, <1>4, <2>5
        <3>6. IsFiniteSet(new) /\ jobs'[<<e, q>>] + Cardinality(new) <= events'[e].attempts
            BY <3>2, <3>3, <3>4, <3>5
        <3> QED
            BY <3>6 DEF new
    <2> QED
        BY <2>4, <2>5
<1> QED
    BY <1>5, <1>6, <1>7, <1>10, <1>11, <1>12 DEF OutboxInv

\* Steps outside the outbox change nothing.
LEMMA StutterKeeps == OutboxInv /\ UNCHANGED vars => OutboxInv'
<1> SUFFICES ASSUME OutboxInv, UNCHANGED vars PROVE OutboxInv'
    OBVIOUS
<1>1. TypeOK'
    BY DEF OutboxInv, TypeOK, vars
<1>2. EnvironmentStep
    BY DEF OutboxInv, TypeOK, DeliveredHadJob, AbsentIsUnclaimed, EnvironmentStep, vars
<1> QED
    BY <1>1, <1>2, EnvironmentKeeps

LEMMA StepPreserves == OutboxInv /\ [Next]_vars => OutboxInv'
BY EnvironmentSteps, ClaimingSteps, ClaimStep, LookupStep, CreateStep, EnqueueStep,
   EndingSteps, StutterKeeps DEF Next, DispatchStep

-----------------------------------------------------------------------------
\* The tables and the dispatchers always hold what the code may put there.
THEOREM OutboxTypeOK == Spec => []TypeOK
<1>1. OutboxInv => TypeOK
    BY DEF OutboxInv
<1> QED
    BY <1>1, InitEstablishes, StepPreserves, PTL DEF Spec

\* dispatch_outbox_events: what a fan-out has behind it, what a claim may
\* still enqueue and the attempts of the row always account for one another.
THEOREM OutboxInvariant == Spec => []OutboxInv
BY InitEstablishes, StepPreserves, PTL DEF Spec

\* dispatch_outbox_events fans an event out to every enabled endpoint, and at
\* most once per claim, however dispatchers overlap, die and are recovered.
THEOREM OutboxFansOut == Spec => []FannedOut
<1>1. ASSUME OutboxInv PROVE FannedOut
    <2>1. DispatchedIsQueued
        BY <1>1 DEF OutboxInv
    <2>2. ASSUME NEW e \in Events, NEW p \in Endpoints
          PROVE  jobs[<<e, p>>] <= events[e].attempts
        <3> DEFINE n == Cardinality(Outstanding(e, p))
        <3>1. IsFiniteSet(Outstanding(e, p)) /\ jobs[<<e, p>>] + n <= events[e].attempts
            BY <1>1 DEF OutboxInv, ClaimsCoverJobs
        <3>2. n \in Nat
            BY <3>1, FS_CardinalityType
        <3>3. jobs[<<e, p>>] \in Nat /\ events[e].attempts \in Nat
            BY <1>1 DEF OutboxInv, TypeOK, Pairs, Event
        <3> HIDE DEF n
        <3> QED
            BY <3>1, <3>2, <3>3
    <2> QED
        BY <2>1, <2>2 DEF FannedOut, JobsBoundedByClaims
<1> QED
    BY <1>1, OutboxInvariant, PTL
=============================================================================
