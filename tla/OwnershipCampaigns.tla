-------------------------- MODULE OwnershipCampaigns --------------------------
(***************************************************************************)
(* Ownership attestation campaigns: app/services/ownership.py, its         *)
(* endpoints in app/v15.py, v16.py and v17.py, the schedules that launch   *)
(* campaigns and the job that does it, composed with the job queue.        *)
(*                                                                         *)
(* An assignment is decided in one commit; whether that completes the      *)
(* campaign is looked up and committed afterwards.  A schedule is claimed, *)
(* its job enqueued, the campaign created and launched in a commit each.   *)
(* Instants are occurrences of the schedule.  Owners, notes, remediation   *)
(* texts and dates are left out, and so is update_remediation, which       *)
(* writes nothing else.                                                    *)
(***************************************************************************)
EXTENDS JobQueue, FiniteSets

CONSTANTS
    Assets,         \* the rows of data_assets
    Workers,        \* worker processes
    Requests,       \* numbered slots of API requests in flight together
    MaxOccurrence,  \* bound: occurrences of the schedule
    MaxLoad         \* bound: API requests, passes over the schedule, changes of
                    \* due dates and of other campaigns, killed processes and
                    \* failures of a behaviour together

\* A scope that can be launched is not empty; "none" stands for no asset, 0 for
\* no job.
ASSUME OwnershipAssumption ==
    /\ Assets # {} /\ "none" \notin Assets
    /\ Jobs \subseteq Nat \ {0}
    /\ MaxAttempts \in Nat \ {0}
    /\ MaxOccurrence \in Nat

VARIABLES
    matched,    \* the assets in the scope
    clock,      \* the latest occurrence whose time has come
    sched,      \* the ownership campaign schedule
    policy,     \* whether the escalation policy of the schedule is enabled
    campaign,   \* status of the campaigns
    expired,    \* draft campaigns whose due_at has passed
    assignment, \* status of the assignments of each campaign
    payload,    \* the occurrence a job launches
    worker,     \* what each worker is doing
    req,        \* the API request in each slot
    hist        \* history, and what the bounds count

cvars == <<queue, matched, clock, sched, policy, campaign, expired, assignment,
           payload, worker, req, hist>>

Occurrences == 1..MaxOccurrence
\* A scheduled campaign is named after its occurrence, and names are unique;
\* campaign 0 is one an operator creates.
Manual == 0
Campaigns == {Manual} \cup Occurrences

CampaignStatuses == {"absent", "draft", "active", "completed"}
OPEN == {"pending", "remediation-required"}
AssignmentStatuses == OPEN \cup {"none", "attested", "resolved"}

\* Workers at work on the schedule, on a job, or on an escalation.
IdleWorker == [place |-> "idle", job |-> 0, on |-> 0, now |-> 0]
NoRequest == [kind |-> "idle", place |-> "idle", on |-> 0, asset |-> "none",
              copy |-> "none"]

CampaignsTypeOK ==
    /\ QueueTypeOK
    /\ matched \subseteq Assets
    /\ clock \in 0..MaxOccurrence
    /\ sched \in [state : {"absent", "enabled", "disabled", "deleted"},
                  next : 1..(MaxOccurrence + 1)]
    /\ policy \in BOOLEAN
    /\ campaign \in [Campaigns -> CampaignStatuses]
    /\ expired \subseteq Campaigns
    /\ assignment \in [Campaigns -> [Assets -> AssignmentStatuses]]
    /\ payload \in [Jobs -> 0..MaxOccurrence]

Start(state, status) ==
    /\ QueueInit
    /\ clock = 0
    /\ sched = [state |-> state, next |-> 1]
    /\ policy = TRUE
    /\ campaign = [c \in Campaigns |-> IF c = Manual THEN status ELSE "absent"]
    /\ expired = {}
    /\ assignment = [c \in Campaigns |-> [a \in Assets |->
                        IF campaign[c] = "active" /\ a \in matched THEN "pending"
                                                                   ELSE "none"]]
    /\ payload = [j \in Jobs |-> 0]
    /\ worker = [w \in Workers |-> IdleWorker]
    /\ req = [r \in Requests |-> NoRequest]
    /\ hist = [load |-> 0, crashed |-> FALSE, overlap |-> {},
               planned |-> [o \in Occurrences |-> IF o = 1 THEN 1 ELSE 0]]

\* Nothing yet, or a launched campaign and no schedule.
\* The scope may match no asset at all.
CampaignsInit == matched \in {{}, Assets} /\ Start("absent", "absent")
CampaignsInitLaunched == matched = Assets /\ Start("deleted", "active")

\* campaign_counts
Outstanding(c) == {a \in Assets : assignment[c][a] \in OPEN}

-----------------------------------------------------------------------------
(***************************************************************************)
(* The clock and the operators' edits of the schedule and of the policy.   *)
(***************************************************************************)
OccurrenceComes ==
    /\ sched.state \in {"enabled", "disabled"}
    /\ clock < MaxOccurrence
    /\ clock' = clock + 1
    /\ UNCHANGED <<queue, matched, sched, policy, campaign, expired,
                   assignment, payload, worker, req, hist>>

Counted == hist.load < MaxLoad
Count == [hist EXCEPT !.load = @ + 1]

\* Where it matters, before the launch.
DueDatePasses(c) ==
    /\ Counted
    /\ campaign[c] = "draft" /\ c \notin expired
    /\ expired' = expired \cup {c}
    /\ hist' = Count
    /\ UNCHANGED <<queue, matched, clock, sched, policy, campaign, assignment,
                   payload, worker, req>>

\* Occurrence o is planned once more.
Plan(h, o) == IF o \in Occurrences THEN [h EXCEPT !.planned[o] = @ + 1] ELSE h

\* A new schedule or campaign needs its policy enabled.
validate_escalation_policy == policy

\* The first run is now.
create_campaign_schedule ==
    /\ sched.state = "absent"
    /\ validate_escalation_policy
    /\ \E state \in {"enabled", "disabled"} : sched' = [state |-> state, next |-> 1]
    /\ UNCHANGED <<queue, matched, clock, policy, campaign, expired,
                   assignment, payload, worker, req, hist>>

update_ownership_schedule ==
    /\ Counted
    /\ sched.state \in {"enabled", "disabled"}
    /\ \/ /\ sched' = [sched EXCEPT !.state = IF @ = "enabled" THEN "disabled"
                                                              ELSE "enabled"]
          /\ hist' = Count
       \/ \E o \in Occurrences :
            /\ o # sched.next
            /\ sched' = [sched EXCEPT !.next = o]
            /\ hist' = Plan(Count, o)
    /\ UNCHANGED <<queue, matched, clock, policy, campaign, expired,
                   assignment, payload, worker, req>>

delete_ownership_schedule ==
    /\ Counted
    /\ sched.state \in {"enabled", "disabled"}
    /\ sched' = [sched EXCEPT !.state = "deleted"]
    /\ hist' = Count
    /\ UNCHANGED <<queue, matched, clock, policy, campaign, expired,
                   assignment, payload, worker, req>>

update_escalation_policy ==
    /\ Counted
    /\ policy' = ~policy
    /\ hist' = Count
    /\ UNCHANGED <<queue, matched, clock, sched, campaign, expired,
                   assignment, payload, worker, req>>

-----------------------------------------------------------------------------
(***************************************************************************)
(* Requests on campaigns and assignments.                                  *)
(***************************************************************************)
\* The name of a campaign is unique.
create_ownership_campaign ==
    /\ Counted
    /\ validate_escalation_policy
    /\ campaign[Manual] = "absent"
    /\ campaign' = [campaign EXCEPT ![Manual] = "draft"]
    /\ hist' = Count
    /\ UNCHANGED <<queue, matched, clock, sched, policy, expired, assignment,
                   payload, worker, req>>

\* Another request on the same assignment is in flight (history).
Overlap(c, a) ==
    IF \E r \in Requests : req[r].asset = a /\ req[r].on = c THEN {<<c, a>>} ELSE {}

\* The test each operation makes on the assignment it loads.
Accepts(kind, status) ==
    IF kind = "resolve" THEN status = "remediation-required" ELSE status \in OPEN

Begin(r, new) ==
    /\ req[r].kind = "idle"
    /\ \A q \in Requests : q < r => req[q].kind # "idle"
    /\ Counted
    /\ req' = [req EXCEPT ![r] = new]
    /\ hist' = [Count EXCEPT !.overlap = @ \cup IF new.asset = "none" THEN {}
                                                ELSE Overlap(new.on, new.asset)]
    /\ UNCHANGED <<queue, matched, clock, sched, policy, campaign, expired,
                   assignment, payload, worker>>

BeginLaunch(r, c) ==
    /\ campaign[c] = "draft"
    /\ c \notin expired
    /\ matched # {}
    /\ Begin(r, [NoRequest EXCEPT !.kind = "launch", !.place = "commit", !.on = c])

BeginDecision(r, kind, c, a) ==
    /\ Accepts(kind, assignment[c][a])
    /\ Begin(r, [kind |-> kind, place |-> "commit", on |-> c, asset |-> a,
                 copy |-> assignment[c][a]])

\* An asset already assigned violates the unique key, and nothing is written.
Launchable(c) == \A a \in matched : assignment[c][a] = "none"

Launched(c) ==
    /\ campaign' = [campaign EXCEPT ![c] = "active"]
    /\ assignment' = [assignment EXCEPT ![c] =
                        [a \in Assets |-> IF a \in matched THEN "pending" ELSE @[a]]]

launch_ownership_attestations(r) ==
    /\ req[r].kind = "launch"
    /\ IF Launchable(req[r].on) THEN Launched(req[r].on)
                                ELSE UNCHANGED <<campaign, assignment>>
    /\ req' = [req EXCEPT ![r] = NoRequest]
    /\ UNCHANGED <<queue, matched, clock, sched, policy, expired, payload,
                   worker, hist>>

Decided(kind) ==
    CASE kind = "confirm" -> "attested"
      [] kind = "dispute" -> "remediation-required"
      [] kind = "resolve" -> "resolved"

\* attest_assignment and resolve_remediation, up to their commit; a status
\* equal to the loaded one is not written.
Decide(r) ==
    /\ req[r].kind \in {"confirm", "dispute", "resolve"} /\ req[r].place = "commit"
    /\ LET status == Decided(req[r].kind) IN
        assignment' = IF status = req[r].copy THEN assignment
                      ELSE [assignment EXCEPT ![req[r].on][req[r].asset] = status]
    /\ req' = [req EXCEPT ![r].place = "check"]
    /\ UNCHANGED <<queue, matched, clock, sched, policy, campaign, expired,
                   payload, worker, hist>>

\* Mutant: only pending assignments keep a campaign open.
ReadyUnlessPending(c) == \A a \in Assets : assignment[c][a] # "pending"

Ready(c) == Outstanding(c) = {}

\* _complete_campaign_if_ready: the lookups, then the commit.
CheckReady(r) ==
    /\ req[r].place = "check"
    /\ req' = [req EXCEPT ![r] =
                IF Ready(req[r].on) /\ campaign[req[r].on] = "active"
                THEN [@ EXCEPT !.place = "finish"] ELSE NoRequest]
    /\ UNCHANGED <<queue, matched, clock, sched, policy, campaign, expired,
                   assignment, payload, worker, hist>>

_complete_campaign(r) ==
    /\ req[r].place = "finish"
    /\ campaign' = [campaign EXCEPT ![req[r].on] = "completed"]
    /\ req' = [req EXCEPT ![r] = NoRequest]
    /\ UNCHANGED <<queue, matched, clock, sched, policy, expired, assignment,
                   payload, worker, hist>>

RequestDies(r) ==
    /\ req[r].kind # "idle"
    /\ Counted
    /\ hist' = [Count EXCEPT !.crashed = TRUE]
    /\ req' = [req EXCEPT ![r] = NoRequest]
    /\ UNCHANGED <<queue, matched, clock, sched, policy, campaign, expired,
                   assignment, payload, worker>>

-----------------------------------------------------------------------------
(***************************************************************************)
(* enqueue_due_ownership_campaigns.                                        *)
(***************************************************************************)
Idle(w) == worker[w].place = "idle"
Go(w, place) == worker' = [worker EXCEPT ![w].place = place]
Rest(w) == worker' = [worker EXCEPT ![w] = IdleWorker]

SelectDue(w) ==
    /\ Idle(w)
    /\ Counted
    /\ sched.state = "enabled"
    /\ sched.next <= clock
    /\ worker' = [worker EXCEPT ![w] = [place |-> "due", job |-> 0,
                                        on |-> sched.next, now |-> clock]]
    /\ hist' = Count
    /\ UNCHANGED <<queue, matched, clock, sched, policy, campaign, expired,
                   assignment, payload, req>>

\* The commit for another schedule of the same batch expires this one: its
\* next_run_at is read again.  A deleted row ends the process.
ReloadDue(w) ==
    /\ worker[w].place = "due"
    /\ worker' = [worker EXCEPT ![w] = IF sched.state = "deleted" THEN IdleWorker
                                       ELSE [@ EXCEPT !.place = "claim",
                                                      !.on = sched.next]]
    /\ UNCHANGED <<queue, matched, clock, sched, policy, campaign, expired,
                   assignment, payload, req, hist>>

\* Mutant: the update does not compare next_run_at.
StillEnabled(w) == sched.state = "enabled"

StillPlanned(w) == sched.state = "enabled" /\ sched.next = worker[w].on

Later(m, n) == IF m > n THEN m ELSE n

\* Whole intervals are added until the next run is in the future.
next_schedule_run(w) ==
    LET o == Later(worker[w].on, worker[w].now) + 1
    IN  IF o > MaxOccurrence THEN MaxOccurrence + 1 ELSE o

\* (an occurrence beyond the bound is left alone)
ClaimOccurrence(w) ==
    /\ worker[w].place \in {"due", "claim"}
    /\ IF StillPlanned(w) /\ worker[w].on \in Occurrences
       THEN /\ sched' = [sched EXCEPT !.next = next_schedule_run(w)]
            /\ hist' = Plan(hist, next_schedule_run(w))
            /\ Go(w, "enqueue")
       ELSE /\ Rest(w)
            /\ UNCHANGED <<sched, hist>>
    /\ UNCHANGED <<queue, matched, clock, policy, campaign, expired,
                   assignment, payload, req>>

\* The claim expired the schedule: a deleted row ends the process here.
EnqueueLaunch(w) ==
    /\ worker[w].place = "enqueue"
    /\ IF sched.state = "deleted"
       THEN UNCHANGED <<queue, payload>>
       ELSE \E j \in Jobs :
            /\ \A i \in Jobs : i < j => queue[i].status # "absent"
            /\ Enqueue(j)
            /\ payload' = [payload EXCEPT ![j] = worker[w].on]
    /\ Rest(w)
    /\ UNCHANGED <<matched, clock, sched, policy, campaign, expired,
                   assignment, req, hist>>

-----------------------------------------------------------------------------
(***************************************************************************)
(* The job ownership.campaign.launch: execute_scheduled_campaign.          *)
(***************************************************************************)
StartJob(w) ==
    /\ Idle(w)
    /\ \E j \in Jobs :
        /\ Claim(j)
        /\ worker' = [worker EXCEPT ![w] = [place |-> "begin", job |-> j,
                                            on |-> payload[j], now |-> 0]]
    /\ UNCHANGED <<matched, clock, sched, policy, campaign, expired,
                   assignment, payload, req, hist>>

AfterLookup(status) ==
    CASE status = "absent" -> "create"
      [] status = "draft"  -> "launch"
      [] OTHER             -> "return"

LookupCampaign(w) ==
    /\ worker[w].place = "begin"
    /\ Go(w, IF sched.state = "deleted" THEN "raise"
             ELSE AfterLookup(campaign[worker[w].on]))
    /\ UNCHANGED <<queue, matched, clock, sched, policy, campaign, expired,
                   assignment, payload, req, hist>>

\* A disabled policy is an error of the job.  A violated unique key is one too,
\* but leaves the session unusable: the handling of the error ends the worker.
create_campaign(w) ==
    /\ worker[w].place = "create"
    /\ LET c == worker[w].on IN
        IF validate_escalation_policy /\ campaign[c] = "absent"
        THEN /\ campaign' = [campaign EXCEPT ![c] = "draft"]
             /\ Go(w, "launch")
        ELSE /\ Go(w, IF validate_escalation_policy THEN "dead" ELSE "raise")
             /\ UNCHANGED campaign
    /\ UNCHANGED <<queue, matched, clock, sched, policy, expired, assignment,
                   payload, req, hist>>

launch_campaign(w) ==
    /\ worker[w].place = "launch"
    /\ LET c == worker[w].on
           refused == c \in expired \/ matched = {}
       IN
        IF ~refused /\ Launchable(c)
        THEN Launched(c) /\ Go(w, "return")
        ELSE /\ Go(w, IF refused THEN "raise" ELSE "dead")
             /\ UNCHANGED <<campaign, assignment>>
    /\ UNCHANGED <<queue, matched, clock, sched, policy, expired, payload,
                   req, hist>>

JobEnds(w) ==
    /\ \/ worker[w].place = "return" /\ Complete(worker[w].job)
       \/ worker[w].place = "raise" /\ Fail(worker[w].job)
    /\ Rest(w)
    /\ UNCHANGED <<matched, clock, sched, policy, campaign, expired,
                   assignment, payload, req, hist>>

WorkerDies(w) ==
    /\ worker[w].place \notin {"idle", "dead"}
    /\ Counted
    /\ hist' = [Count EXCEPT !.crashed = TRUE]
    /\ Go(w, "dead")
    /\ UNCHANGED <<queue, matched, clock, sched, policy, campaign, expired,
                   assignment, payload, req>>

\* A worker starts again and recovers those jobs of dead workers whose claims
\* have aged.
Lost == {j \in Jobs : /\ queue[j].status = "running"
                      /\ \A w \in Workers : worker[w].place # "dead" => worker[w].job # j}

WorkerStarts(w) ==
    /\ worker[w].place = "dead"
    /\ \E lost \in SUBSET Lost : Recover(lost)
    /\ Rest(w)
    /\ UNCHANGED <<matched, clock, sched, policy, campaign, expired,
                   assignment, payload, req, hist>>

-----------------------------------------------------------------------------
RequestStep(r) ==
    \/ launch_ownership_attestations(r) \/ Decide(r) \/ CheckReady(r)
    \/ _complete_campaign(r)

Operators ==
    \/ create_campaign_schedule \/ update_ownership_schedule
    \/ delete_ownership_schedule \/ update_escalation_policy
    \/ create_ownership_campaign
    \/ \E r \in Requests, c \in Campaigns :
        \/ BeginLaunch(r, c)
        \/ \E kind \in {"confirm", "dispute", "resolve"}, a \in Assets :
            BeginDecision(r, kind, c, a)

LaunchStep(w) ==
    \/ SelectDue(w) \/ ReloadDue(w) \/ ClaimOccurrence(w) \/ EnqueueLaunch(w)
    \/ StartJob(w) \/ LookupCampaign(w) \/ create_campaign(w) \/ launch_campaign(w)
    \/ JobEnds(w)

CampaignsNext ==
    \/ OccurrenceComes
    \/ \E c \in Campaigns : DueDatePasses(c)
    \/ Operators
    \/ \E r \in Requests : RequestStep(r) \/ RequestDies(r)
    \/ \E w \in Workers : LaunchStep(w) \/ WorkerDies(w) \/ WorkerStarts(w)

-----------------------------------------------------------------------------
(***************************************************************************)
(* Properties.                                                             *)
(***************************************************************************)

\* A completed campaign has no assignment left to decide, although completion
\* is committed after the lookup that allowed it, unless two decisions on one
\* assignment overlapped.
CompletedIsDone ==
    \A c \in Campaigns :
        campaign[c] = "completed" =>
            \A a \in Outstanding(c) : <<c, a>> \in hist.overlap

\* An active campaign without open assignments is about to be completed by a
\* request in flight: the last of several concurrent decisions sees them all.
\* A process that dies after its decision leaves the campaign active for good.
ReadyIsCompleted ==
    \A c \in Campaigns :
        campaign[c] = "active" /\ Outstanding(c) = {} =>
            \/ \E r \in Requests : req[r].on = c /\ req[r].place \in {"check", "finish"}
            \/ hist.crashed

\* A campaign completes with its last decision, neither before nor never.
CompletionIsExact == CompletedIsDone /\ ReadyIsCompleted

\* A job that completed has launched its campaign, also when an earlier attempt
\* died between the creation and the launch.
CompletedJobLaunched ==
    \A j \in Jobs :
        queue[j].status = "completed" => campaign[payload[j]] \in {"active", "completed"}

\* Each time an occurrence is planned at most one job is enqueued for it,
\* however the passes of workers and the edits of operators interleave.
OneJobPerPlan ==
    \A o \in Occurrences :
        Cardinality({j \in Jobs : payload[j] = o}) <= hist.planned[o]

\* A scheduled campaign is launched by its one job.
LaunchesOnce == OneJobPerPlan /\ CompletedJobLaunched
=============================================================================
