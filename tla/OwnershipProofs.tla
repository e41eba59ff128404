---------------------------- MODULE OwnershipProofs ----------------------------
(***************************************************************************)
(* Ownership campaigns and their escalation, for any number of assets,     *)
(* workers, requests, jobs and occurrences: when a campaign completes,     *)
(* what the jobs of its schedule launch, and what a queued stage has sent. *)
(***************************************************************************)
EXTENDS OwnershipEscalations, FiniteSetTheorems, TLAPS

(***************************************************************************)
(* The inductive invariant.                                                *)
(***************************************************************************)
Deciding == {"confirm", "dispute", "resolve"}

RequestRow ==
    [kind : {"idle", "launch"} \cup Deciding, place : {"idle", "commit", "check", "finish"},
     on : Campaigns, asset : Assets \cup {"none"}, copy : AssignmentStatuses]

AtJob == {"begin", "create", "launch", "return", "raise"}
Escalating == {"deliver", "send", "mark"}
Places == {"idle", "dead", "due", "claim", "enqueue", "expire", "lookup", "insert", "take"}
            \cup AtJob \cup Escalating

WorkerRow ==
    [place : Places, job : Jobs \cup {0}, on : 0..(MaxOccurrence + 1), now : 0..MaxOccurrence]

History ==
    [load : Nat, crashed : BOOLEAN, overlap : SUBSET (Campaigns \X Assets),
     planned : [Occurrences -> Nat]]

OwnershipTypes ==
    /\ TypeOK
    /\ worker \in [Workers -> WorkerRow]
    /\ req \in [Requests -> RequestRow]
    /\ hist \in History

Started(c) == campaign[c] \in {"active", "completed"}

\* Only decisions have an asset, and a launch was asked for with a scope.
RequestShapes ==
    \A r \in Requests :
        /\ req[r].kind = "idle" <=> req[r].place = "idle"
        /\ req[r].kind = "launch" => req[r].place = "commit" /\ matched # {}
        /\ req[r].kind \in Deciding <=> req[r].asset \in Assets

\* A launched campaign has its assignments, and can be launched no more.
StartedAssigned ==
    \A c \in Campaigns : Started(c) =>
        matched # {} /\ \A a \in matched : assignment[c][a] # "none"

\* Of two requests on one assignment the later one found the earlier.
RequestsApart ==
    \A r, q \in Requests :
        /\ r # q
        /\ req[r].asset \in Assets /\ req[r].asset = req[q].asset /\ req[r].on = req[q].on
        => <<req[r].on, req[r].asset>> \in hist.overlap

\* A decision that met no other commits on the assignment it has loaded.
DecisionsFresh ==
    \A r \in Requests : req[r].kind \in Deciding /\ req[r].place = "commit" =>
        /\ req[r].copy \in OPEN
        /\ \/ assignment[req[r].on][req[r].asset] = req[r].copy
           \/ <<req[r].on, req[r].asset>> \in hist.overlap

\* The assignments that are left to decide were decided, by requests that met.
OnlyOverlapped(c) == \A a \in Outstanding(c) : <<c, a>> \in hist.overlap

\* What a request found before it completes a campaign is still so.
FinishKnown ==
    \A r \in Requests : req[r].place = "finish" =>
        Started(req[r].on) /\ OnlyOverlapped(req[r].on)

CompletionInv ==
    /\ RequestShapes
    /\ StartedAssigned
    /\ RequestsApart
    /\ DecisionsFresh
    /\ FinishKnown
    /\ CompletionIsExact

\* A worker with a job is about the occurrence in its payload, and one that
\* returns has launched the campaign, or found it launched.
WorkersKnown ==
    /\ \A w \in Workers :
        /\ worker[w].place \in AtJob =>
            /\ worker[w].job \in Jobs
            /\ worker[w].on = payload[worker[w].job]
            /\ queue[worker[w].job].status # "absent"
        /\ worker[w].place = "return" => Started(worker[w].on)
        /\ worker[w].place = "enqueue" => worker[w].on \in Occurrences
    /\ \A j \in Jobs : queue[j].status = "absent" => payload[j] = 0

JobsOf(o) == {j \in Jobs : payload[j] = o}
PassesOf(o) == {w \in Workers : worker[w].place = "enqueue" /\ worker[w].on = o}
IsNext(o) == IF sched.next = o THEN 1 ELSE 0

\* Each time an occurrence is planned there is at most one job for it, or a pass
\* about to enqueue one, or it is still the next one.
PlansCovered ==
    \A o \in Occurrences :
        /\ IsFiniteSet(JobsOf(o)) /\ IsFiniteSet(PassesOf(o))
        /\ Cardinality(JobsOf(o)) + Cardinality(PassesOf(o)) + IsNext(o) <= hist.planned[o]

PendingHasAttempts ==
    \A j \in Jobs : queue[j].status = "pending" => queue[j].attempts < MaxAttempts

LaunchInv == PendingHasAttempts /\ WorkersKnown /\ PlansCovered /\ CompletedJobLaunched

Sent == delivery /\ jobsent

\* While no claim is taken over, one worker has the event and it is running.
EscalationInv ==
    /\ event.status = "queued" => Sent
    /\ \A w \in Workers :
        /\ worker[w].place = "send" => delivery
        /\ worker[w].place = "mark" => Sent
    /\ ~taken =>
        /\ \A w \in Workers : worker[w].place \in Escalating => event.status = "running"
        /\ \A w, v \in Workers :
            worker[w].place \in Escalating /\ worker[v].place \in Escalating => w = v

\* The first run of a schedule is planned before the schedule exists.
FirstPlanned == sched.state = "absent" => sched.next = 1

OwnershipInv ==
    OwnershipTypes /\ CompletionInv /\ LaunchInv /\ FirstPlanned /\ EscalationInv

OtherStatuses == {"draft", "active", "completed"}

-----------------------------------------------------------------------------
(***************************************************************************)
(* What a step writes to a row.                                            *)
(***************************************************************************)
LEMMA IdleRows == IdleWorker \in WorkerRow /\ NoRequest \in RequestRow
BY OwnershipAssumption
   DEF IdleWorker, WorkerRow, Places, NoRequest, RequestRow, Campaigns, Manual,
       AssignmentStatuses, OPEN

LEMMA WorkerGoes ==
    ASSUME worker \in [Workers -> WorkerRow], NEW w \in Workers, NEW place \in Places,
           Go(w, place)
    PROVE  /\ worker' \in [Workers -> WorkerRow]
           /\ worker'[w].place = place
           /\ \A v \in Workers :
                /\ worker'[v].job = worker[v].job /\ worker'[v].on = worker[v].on
                /\ v # w => worker'[v] = worker[v]
BY DEF Go, WorkerRow

LEMMA WorkerRests ==
    ASSUME worker \in [Workers -> WorkerRow], NEW w \in Workers, Rest(w)
    PROVE  /\ worker' \in [Workers -> WorkerRow]
           /\ worker'[w].place = "idle"
           /\ \A v \in Workers : v # w => worker'[v] = worker[v]
<1>1. IdleWorker.place = "idle"
    BY DEF IdleWorker
<1> QED
    BY <1>1, IdleRows DEF Rest

\* The request in a slot is over.
LEMMA RequestEnds ==
    ASSUME req \in [Requests -> RequestRow], NEW r \in Requests,
           req' = [req EXCEPT ![r] = NoRequest]
    PROVE  /\ req' \in [Requests -> RequestRow]
           /\ req'[r].kind = "idle" /\ req'[r].place = "idle" /\ req'[r].asset = "none"
           /\ \A q \in Requests : q # r => req'[q] = req[q]
<1>1. NoRequest.kind = "idle" /\ NoRequest.place = "idle" /\ NoRequest.asset = "none"
    BY DEF NoRequest
<1> QED
    BY <1>1, IdleRows

LEMMA RequestGoes ==
    ASSUME req \in [Requests -> RequestRow], NEW r \in Requests,
           NEW place \in {"check", "finish"}, req' = [req EXCEPT ![r].place = place]
    PROVE  /\ req' \in [Requests -> RequestRow]
           /\ req'[r].place = place
           /\ \A q \in Requests :
                /\ req'[q].kind = req[q].kind /\ req'[q].on = req[q].on
                /\ req'[q].asset = req[q].asset
                /\ q # r => req'[q] = req[q]
BY DEF RequestRow

LEMMA RequestFields ==
    ASSUME OwnershipTypes, NEW r \in Requests
    PROVE  /\ req[r].on \in Campaigns /\ req[r].copy \in AssignmentStatuses
           /\ req[r].kind \in {"idle", "launch"} \cup Deciding
           /\ req[r].place \in {"idle", "commit", "check", "finish"}
           /\ req[r].asset \in Assets \cup {"none"}
BY DEF OwnershipTypes, RequestRow

\* The history after a step that counts, meets another request, or crashes.
LEMMA HistoryMoves ==
    ASSUME hist \in History
    PROVE  /\ Count \in History
           /\ Count.planned = hist.planned /\ Count.overlap = hist.overlap
           /\ Count.crashed = hist.crashed
           /\ [Count EXCEPT !.crashed = TRUE] \in History
           /\ [Count EXCEPT !.crashed = TRUE].planned = hist.planned
           /\ [Count EXCEPT !.crashed = TRUE].overlap = hist.overlap
           /\ [Count EXCEPT !.crashed = TRUE].crashed
<1>1. Count \in History /\ Count = [hist EXCEPT !.load = hist.load + 1]
    BY DEF Count, History
<1>2. \A h \in History :
        /\ [h EXCEPT !.crashed = TRUE] \in History
        /\ [h EXCEPT !.crashed = TRUE].planned = h.planned
        /\ [h EXCEPT !.crashed = TRUE].overlap = h.overlap
        /\ [h EXCEPT !.crashed = TRUE].crashed = TRUE
    BY DEF History
<1>3. Count.planned = hist.planned /\ Count.overlap = hist.overlap
    BY <1>1 DEF History
<1>4. Count.crashed = hist.crashed
    BY <1>1, Zenon DEF History
<1> QED
    BY <1>1, <1>2, <1>3, <1>4

LEMMA HistoryMeets ==
    ASSUME hist \in History, NEW more \in SUBSET (Campaigns \X Assets)
    PROVE  /\ [Count EXCEPT !.overlap = @ \cup more] \in History
           /\ [Count EXCEPT !.overlap = @ \cup more].planned = hist.planned
           /\ [Count EXCEPT !.overlap = @ \cup more].overlap = hist.overlap \cup more
           /\ [Count EXCEPT !.overlap = @ \cup more].crashed = hist.crashed
<1>1. \A h \in History :
        /\ [h EXCEPT !.overlap = h.overlap \cup more] \in History
        /\ [h EXCEPT !.overlap = h.overlap \cup more].planned = h.planned
        /\ [h EXCEPT !.overlap = h.overlap \cup more].overlap = h.overlap \cup more
    BY DEF History
<1>2. \A h \in History : [h EXCEPT !.overlap = h.overlap \cup more].crashed = h.crashed
    BY Zenon DEF History
<1> QED
    BY <1>1, <1>2, HistoryMoves

\* An occurrence is planned once more.
LEMMA HistoryPlans ==
    ASSUME NEW h \in History, NEW o \in 1..(MaxOccurrence + 1)
    PROVE  /\ Plan(h, o) \in History
           /\ Plan(h, o).overlap = h.overlap
           /\ Plan(h, o).crashed = h.crashed
           /\ \A p \in Occurrences :
                Plan(h, o).planned[p] = IF p = o THEN h.planned[p] + 1 ELSE h.planned[p]
<1>1. CASE o \in Occurrences
    <2> DEFINE more == [h.planned EXCEPT ![o] = h.planned[o] + 1]
    <2>1. Plan(h, o) = [h EXCEPT !.planned = more] /\ more \in [Occurrences -> Nat]
        BY <1>1 DEF Plan, History
    <2>2. \A p \in Occurrences : more[p] = IF p = o THEN h.planned[p] + 1 ELSE h.planned[p]
        BY <1>1 DEF History
    <2> HIDE DEF more
    <2>3. Plan(h, o) \in History /\ Plan(h, o).overlap = h.overlap /\ Plan(h, o).planned = more
        BY <2>1 DEF History
    <2>4. Plan(h, o).crashed = h.crashed
        BY <2>1, Zenon DEF History
    <2> QED
        BY <2>2, <2>3, <2>4
<1>2. CASE o \notin Occurrences
    BY <1>2 DEF Plan
<1> QED
    BY <1>1, <1>2

-----------------------------------------------------------------------------
(***************************************************************************)
(* The queue.                                                              *)
(***************************************************************************)
QueueRow == [status : JobStatuses, attempts : 0..MaxAttempts]

LEMMA FailureFacts ==
    ASSUME NEW row \in QueueRow
    PROVE  /\ AfterFailure(row) \in QueueRow
           /\ AfterFailure(row).attempts = row.attempts
           /\ AfterFailure(row).status \in {"failed", "pending"}
           /\ AfterFailure(row).status = "pending" => row.attempts < MaxAttempts
BY OwnershipAssumption DEF AfterFailure, QueueRow, JobStatuses

\* What one operation of the queue does to its rows.
LEMMA QueueMoves ==
    ASSUME QueueTypeOK, PendingHasAttempts, NEW j \in Jobs,
           Enqueue(j) \/ Claim(j) \/ Complete(j) \/ Fail(j)
    PROVE  /\ QueueTypeOK' /\ PendingHasAttempts'
           /\ queue'[j].status # "absent"
           /\ queue'[j].status = "completed" => Complete(j)
           /\ \A i \in Jobs : i # j => queue'[i] = queue[i]
<1>1. queue[j] \in QueueRow /\ queue \in [Jobs -> QueueRow]
    BY DEF QueueTypeOK, QueueRow
<1>2. PICK new \in QueueRow :
        /\ queue' = [queue EXCEPT ![j] = new]
        /\ new.status # "absent"
        /\ new.status = "pending" => new.attempts < MaxAttempts
        /\ new.status = "completed" => Complete(j)
    <2>1. CASE Enqueue(j)
        <3> DEFINE new == [status |-> "pending", attempts |-> 0]
        <3>1. new \in QueueRow /\ new.status = "pending" /\ new.attempts < MaxAttempts
            BY OwnershipAssumption DEF QueueRow, JobStatuses
        <3>2. queue' = [queue EXCEPT ![j] = new]
            BY <2>1 DEF Enqueue
        <3> HIDE DEF new
        <3> QED
            BY <3>1, <3>2
    <2>2. CASE Claim(j)
        <3> DEFINE new == [status |-> "running", attempts |-> queue[j].attempts + 1]
        <3>1. queue[j].attempts < MaxAttempts
            BY <2>2 DEF Claim, PendingHasAttempts
        <3>2. new \in QueueRow /\ new.status = "running"
            BY <1>1, <3>1, OwnershipAssumption DEF QueueRow, JobStatuses
        <3>3. queue' = [queue EXCEPT ![j] = new]
            BY <2>2 DEF Claim
        <3> HIDE DEF new
        <3> QED
            BY <3>2, <3>3
    <2>3. CASE Complete(j)
        <3>1. PICK row \in QueueRow : row = queue[j]
            BY <1>1
        <3> DEFINE new == [row EXCEPT !.status = "completed"]
        <3>2. new \in QueueRow /\ new.status = "completed"
            BY DEF QueueRow, JobStatuses
        <3>3. queue' = [queue EXCEPT ![j] = new]
            BY <2>3, <3>1 DEF Complete
        <3> HIDE DEF new
        <3> QED
            BY <2>3, <3>2, <3>3
    <2>4. CASE Fail(j)
        <3> DEFINE new == AfterFailure(queue[j])
        <3>1. queue' = [queue EXCEPT ![j] = new]
            BY <2>4 DEF Fail
        <3>2. /\ new \in QueueRow /\ new.attempts = queue[j].attempts
              /\ new.status \in {"failed", "pending"}
              /\ new.status = "pending" => queue[j].attempts < MaxAttempts
            BY <1>1, FailureFacts
        <3> HIDE DEF new
        <3> QED
            BY <3>1, <3>2
    <2> QED
        BY <2>1, <2>2, <2>3, <2>4
<1>3. queue' \in [Jobs -> QueueRow]
    BY <1>1, <1>2
<1>4. queue'[j] = new /\ \A i \in Jobs : i # j => queue'[i] = queue[i]
    BY <1>1, <1>2
<1> QED
    BY <1>2, <1>3, <1>4 DEF QueueTypeOK, QueueRow, PendingHasAttempts

LEMMA QueueRecovers ==
    ASSUME QueueTypeOK, PendingHasAttempts, NEW lost \in SUBSET Jobs, Recover(lost)
    PROVE  /\ QueueTypeOK' /\ PendingHasAttempts'
           /\ \A i \in Jobs : /\ queue'[i].status = "absent" <=> queue[i].status = "absent"
                              /\ queue'[i].status = "completed" => queue[i].status = "completed"
<1>1. \A i \in Jobs : queue[i] \in QueueRow
    BY DEF QueueTypeOK, QueueRow
<1>2. \A i \in lost : queue'[i] = AfterFailure(queue[i]) /\ queue[i].status = "running"
    BY DEF Recover
<1>3. \A i \in Jobs \ lost : queue'[i] = queue[i]
    BY DEF Recover
<1>4. \A i \in lost :
        /\ queue'[i] \in QueueRow
        /\ queue'[i].status \in {"failed", "pending"}
        /\ queue'[i].status = "pending" => queue'[i].attempts < MaxAttempts
    BY <1>1, <1>2, FailureFacts
<1>5. \A i \in Jobs : queue'[i] \in QueueRow
    BY <1>1, <1>3, <1>4
<1>6. queue' = [i \in Jobs |-> queue'[i]]
    BY DEF Recover
<1> QED
    BY <1>2, <1>3, <1>4, <1>5, <1>6 DEF QueueTypeOK, QueueRow, PendingHasAttempts

-----------------------------------------------------------------------------
(***************************************************************************)
(* Completion.                                                             *)
(***************************************************************************)
cmpvars == <<matched, campaign, assignment, req>>

LEMMA InitCompletion == Init => CompletionInv
<1> SUFFICES ASSUME Init PROVE CompletionInv
    OBVIOUS
<1>1. PICK state, status :
        /\ Start(state, status)
        /\ status \in {"absent", "active"}
        /\ status = "active" => matched = Assets
    BY DEF Init, CampaignsInit, CampaignsInitLaunched
<1>2. \A r \in Requests : /\ req[r].kind = "idle" /\ req[r].place = "idle"
                          /\ req[r].asset = "none"
    BY <1>1 DEF Start, NoRequest
<1>3. \A c \in Campaigns : campaign[c] = IF c = Manual THEN status ELSE "absent"
    BY <1>1 DEF Start
<1>4. \A c \in Campaigns : campaign[c] = "active" =>
        \A a \in Assets : assignment[c][a] = "pending"
    BY <1>1, <1>3 DEF Start
<1>5. \A c \in Campaigns : Started(c) => matched = Assets /\ Outstanding(c) = Assets
    BY <1>1, <1>3, <1>4 DEF Started, Outstanding, OPEN
<1>6. CompletionIsExact
    BY <1>1, <1>3, <1>5, OwnershipAssumption
       DEF CompletionIsExact, CompletedIsDone, ReadyIsCompleted, Started
<1>7. StartedAssigned
    BY <1>1, <1>3, <1>4, <1>5, OwnershipAssumption DEF StartedAssigned, Started
<1> QED
    BY <1>2, <1>6, <1>7, OwnershipAssumption
       DEF CompletionInv, RequestShapes, RequestsApart, DecisionsFresh, FinishKnown, Deciding

\* A step elsewhere changes nothing here, except that a process may die.
LEMMA KeepsCompletion ==
    ASSUME OwnershipTypes, CompletionInv, UNCHANGED cmpvars, hist'.overlap = hist.overlap,
           hist.crashed => hist'.crashed
    PROVE  CompletionInv'
<1>1. \A c \in Campaigns : Started(c)' <=> Started(c)
    BY DEF cmpvars, Started
<1>2. \A c \in Campaigns : Outstanding(c)' = Outstanding(c)
    BY DEF cmpvars, Outstanding
<1>3. CompletionIsExact'
    BY <1>2 DEF CompletionInv, CompletionIsExact, CompletedIsDone, ReadyIsCompleted, cmpvars
<1>4. RequestShapes' /\ StartedAssigned' /\ RequestsApart' /\ DecisionsFresh'
    BY <1>1 DEF CompletionInv, RequestShapes, StartedAssigned, RequestsApart,
                DecisionsFresh, cmpvars
<1>5. FinishKnown'
    BY <1>1, <1>2, RequestFields DEF CompletionInv, FinishKnown, OnlyOverlapped, cmpvars
<1> QED
    BY <1>3, <1>4, <1>5 DEF CompletionInv

\* A campaign that is created is not launched yet.
LEMMA CreatesCampaign ==
    ASSUME OwnershipTypes, CompletionInv, NEW c \in Campaigns, campaign[c] = "absent",
           campaign' = [campaign EXCEPT ![c] = "draft"],
           UNCHANGED <<matched, assignment, req>>, hist'.overlap = hist.overlap,
           hist.crashed => hist'.crashed
    PROVE  CompletionInv'
<1>1. \A d \in Campaigns : campaign'[d] = IF d = c THEN "draft" ELSE campaign[d]
    BY DEF OwnershipTypes, TypeOK, CampaignsTypeOK
<1>2. \A d \in Campaigns : Started(d)' <=> Started(d)
    BY <1>1 DEF Started
<1>3. \A d \in Campaigns : Outstanding(d)' = Outstanding(d)
    BY DEF Outstanding
<1>4. CompletionIsExact'
    BY <1>1, <1>3 DEF CompletionInv, CompletionIsExact, CompletedIsDone, ReadyIsCompleted
<1>5. RequestShapes' /\ StartedAssigned' /\ RequestsApart' /\ DecisionsFresh'
    BY <1>2 DEF CompletionInv, RequestShapes, StartedAssigned, RequestsApart, DecisionsFresh
<1>6. FinishKnown'
    BY <1>2, <1>3, RequestFields DEF CompletionInv, FinishKnown, OnlyOverlapped
<1> QED
    BY <1>4, <1>5, <1>6 DEF CompletionInv

LEMMA LaunchTypes ==
    ASSUME campaign \in [Campaigns -> CampaignStatuses], NEW c \in Campaigns,
           assignment \in [Campaigns -> [Assets -> AssignmentStatuses]], Launched(c)
    PROVE  /\ campaign' \in [Campaigns -> CampaignStatuses]
           /\ assignment' \in [Campaigns -> [Assets -> AssignmentStatuses]]
<1>1. campaign' \in [Campaigns -> CampaignStatuses]
    BY DEF Launched, CampaignStatuses
<1> DEFINE new == [a \in Assets |-> IF a \in matched THEN "pending" ELSE assignment[c][a]]
<1>2. new \in [Assets -> AssignmentStatuses]
    BY DEF AssignmentStatuses, OPEN
<1>3. assignment' = [assignment EXCEPT ![c] = new]
    BY DEF Launched
<1> HIDE DEF new
<1> QED
    BY <1>1, <1>2, <1>3

\* A launch that finds a scope without assignments makes them all.
LEMMA LaunchesCampaign ==
    ASSUME OwnershipTypes, CompletionInv, NEW c \in Campaigns, matched # {},
           Launchable(c), Launched(c), UNCHANGED matched,
           req' = req \/ \E r \in Requests : req' = [req EXCEPT ![r] = NoRequest],
           \A r \in Requests : req'[r] # req[r] => req[r].kind = "launch",
           hist'.overlap = hist.overlap, hist.crashed => hist'.crashed
    PROVE  CompletionInv'
<1>1. \A d \in Campaigns : campaign'[d] = IF d = c THEN "active" ELSE campaign[d]
    BY DEF OwnershipTypes, TypeOK, CampaignsTypeOK, Launched
<1>2. \A d \in Campaigns, a \in Assets : assignment'[d][a] =
        IF d = c /\ a \in matched THEN "pending" ELSE assignment[d][a]
    BY DEF OwnershipTypes, TypeOK, CampaignsTypeOK, Launched
<1>3. ~Started(c)
    BY DEF CompletionInv, StartedAssigned, Launchable
<1>4. \A d \in Campaigns : d # c => /\ Started(d)' <=> Started(d)
                                    /\ Outstanding(d)' = Outstanding(d)
    BY <1>1, <1>2 DEF Started, Outstanding
<1>5. matched \subseteq Assets /\ Outstanding(c)' # {} /\ Started(c)'
    BY <1>1, <1>2 DEF OwnershipTypes, TypeOK, CampaignsTypeOK, Outstanding, OPEN, Started
<1>6. \A r \in Requests : req'[r] = req[r] \/ req'[r] = NoRequest
    BY DEF OwnershipTypes
<1>7. \A r \in Requests : req[r].kind # "launch" => req'[r] = req[r]
    OBVIOUS
<1>8. \A r \in Requests : req[r].place \in {"check", "finish"} => req'[r] = req[r]
    BY <1>7 DEF CompletionInv, RequestShapes
<1>9. CompletionIsExact'
    <2>1. CompletedIsDone'
        BY <1>1, <1>4 DEF CompletionInv, CompletionIsExact, CompletedIsDone
    <2>2. ReadyIsCompleted'
        BY <1>1, <1>4, <1>5, <1>8
           DEF CompletionInv, CompletionIsExact, ReadyIsCompleted
    <2> QED
        BY <2>1, <2>2 DEF CompletionIsExact
<1>10. NoRequest.kind = "idle" /\ NoRequest.place = "idle" /\ NoRequest.asset = "none"
    BY DEF NoRequest
<1>11. RequestShapes' /\ RequestsApart'
    BY <1>6, <1>10, OwnershipAssumption DEF CompletionInv, RequestShapes, RequestsApart, Deciding
<1>12. StartedAssigned'
    BY <1>2, <1>4, <1>5 DEF CompletionInv, StartedAssigned
<1>13. DecisionsFresh'
    <2> SUFFICES ASSUME NEW r \in Requests, req'[r].kind \in Deciding, req'[r].place = "commit"
                 PROVE  /\ req'[r].copy \in OPEN
                        /\ \/ assignment'[req'[r].on][req'[r].asset] = req'[r].copy
                           \/ <<req'[r].on, req'[r].asset>> \in hist'.overlap
        BY DEF DecisionsFresh
    <2>1. req'[r] = req[r]
        BY <1>6, <1>10 DEF Deciding
    <2>2. req[r].on \in Campaigns /\ req[r].asset \in Assets
        BY <2>1, RequestFields DEF CompletionInv, RequestShapes
    <2>3. /\ req[r].copy \in OPEN
          /\ \/ assignment[req[r].on][req[r].asset] = req[r].copy
             \/ <<req[r].on, req[r].asset>> \in hist.overlap
        BY <2>1 DEF CompletionInv, DecisionsFresh
    <2> QED
        BY <1>2, <2>1, <2>2, <2>3 DEF Launchable, OPEN
<1>14. FinishKnown'
    BY <1>3, <1>4, <1>6, <1>10, RequestFields DEF CompletionInv, FinishKnown, OnlyOverlapped
<1> QED
    BY <1>9, <1>11, <1>12, <1>13, <1>14 DEF CompletionInv

\* A request that ends without a trace, or a process that dies with it.
LEMMA EndsQuietly ==
    ASSUME OwnershipTypes, CompletionInv, NEW r \in Requests,
           req' = [req EXCEPT ![r] = NoRequest], UNCHANGED <<matched, campaign, assignment>>,
           hist'.overlap = hist.overlap, hist.crashed => hist'.crashed,
           \/ req[r].place \notin {"check", "finish"}
           \/ hist'.crashed
           \/ ~(Ready(req[r].on) /\ campaign[req[r].on] = "active")
    PROVE  CompletionInv'
<1>1. /\ req'[r].kind = "idle" /\ req'[r].place = "idle" /\ req'[r].asset = "none"
      /\ \A q \in Requests : q # r => req'[q] = req[q]
    BY RequestEnds DEF OwnershipTypes
<1>2. \A c \in Campaigns : (Started(c)' <=> Started(c)) /\ Outstanding(c)' = Outstanding(c)
    BY DEF Started, Outstanding
<1>3. CompletionIsExact'
    BY <1>1, <1>2 DEF CompletionInv, CompletionIsExact, CompletedIsDone, ReadyIsCompleted, Ready
<1>4. RequestShapes' /\ RequestsApart'
    BY <1>1, OwnershipAssumption DEF CompletionInv, RequestShapes, RequestsApart, Deciding
<1>5. StartedAssigned'
    BY <1>2 DEF CompletionInv, StartedAssigned
<1>6. DecisionsFresh'
    BY <1>1 DEF CompletionInv, DecisionsFresh, Deciding
<1>7. FinishKnown'
    BY <1>1, <1>2, RequestFields DEF CompletionInv, FinishKnown, OnlyOverlapped
<1> QED
    BY <1>3, <1>4, <1>5, <1>6, <1>7 DEF CompletionInv

LEMMA LaunchesOnRequest ==
    ASSUME OwnershipTypes, CompletionInv, NEW r \in Requests, launch_ownership_attestations(r)
    PROVE  CompletionInv'
<1>1. /\ req[r].kind = "launch" /\ req[r].place = "commit" /\ matched # {}
      /\ req[r].on \in Campaigns
      /\ req' = [req EXCEPT ![r] = NoRequest] /\ UNCHANGED <<matched, hist>>
    BY RequestFields DEF launch_ownership_attestations, CompletionInv, RequestShapes
<1>2. \A q \in Requests : q # r => req'[q] = req[q]
    BY <1>1, RequestEnds DEF OwnershipTypes
<1>3. CASE Launchable(req[r].on)
    <2>1. PICK c \in Campaigns : c = req[r].on
        BY <1>1
    <2>2. Launchable(c) /\ Launched(c)
        BY <1>3, <2>1 DEF launch_ownership_attestations
    <2> QED
        BY <1>1, <1>2, <2>2, LaunchesCampaign
<1>4. CASE ~Launchable(req[r].on)
    <2>1. UNCHANGED <<campaign, assignment>>
        BY <1>4 DEF launch_ownership_attestations
    <2> QED
        BY <1>1, <2>1, EndsQuietly
<1> QED
    BY <1>3, <1>4

LEMMA BeginsLaunch ==
    ASSUME OwnershipTypes, CompletionInv, NEW r \in Requests, NEW c \in Campaigns,
           BeginLaunch(r, c)
    PROVE  CompletionInv' /\ req' \in [Requests -> RequestRow] /\ hist' \in History
           /\ hist'.planned = hist.planned
<1> DEFINE new == [NoRequest EXCEPT !.kind = "launch", !.place = "commit", !.on = c]
<1>1. new \in RequestRow /\ new.kind = "launch" /\ new.place = "commit" /\ new.asset = "none"
    BY IdleRows DEF RequestRow, NoRequest
<1>2. Begin(r, new) /\ matched # {}
    BY DEF BeginLaunch
<1>3. /\ UNCHANGED <<matched, campaign, assignment>> /\ req' = [req EXCEPT ![r] = new]
      /\ req[r].kind = "idle" /\ hist' = [Count EXCEPT !.overlap = @ \cup {}]
    BY <1>1, <1>2 DEF Begin
<1> HIDE DEF new
<1>4. hist' \in History /\ hist'.planned = hist.planned
      /\ hist'.overlap = hist.overlap /\ hist'.crashed = hist.crashed
    <2>1. PICK none \in SUBSET (Campaigns \X Assets) : none = {}
        OBVIOUS
    <2>2. hist' = [Count EXCEPT !.overlap = @ \cup none]
        BY <1>3, <2>1
    <2>3. hist' \in History /\ hist'.planned = hist.planned
          /\ hist'.overlap = hist.overlap \cup none /\ hist'.crashed = hist.crashed
        BY <2>2, HistoryMeets DEF OwnershipTypes
    <2> QED
        BY <2>1, <2>3
<1>5. req'[r] = new /\ \A q \in Requests : q # r => req'[q] = req[q]
    BY <1>3 DEF OwnershipTypes
<1>6. req' \in [Requests -> RequestRow]
    BY <1>1, <1>3 DEF OwnershipTypes
<1>7. \A d \in Campaigns : (Started(d)' <=> Started(d)) /\ Outstanding(d)' = Outstanding(d)
    BY <1>3 DEF Started, Outstanding
<1>8. req[r].place = "idle"
    BY <1>3 DEF CompletionInv, RequestShapes
<1>9. CompletionIsExact'
    BY <1>3, <1>4, <1>5, <1>7, <1>8
       DEF CompletionInv, CompletionIsExact, CompletedIsDone, ReadyIsCompleted
<1>10. RequestShapes' /\ RequestsApart' /\ DecisionsFresh'
    BY <1>1, <1>2, <1>3, <1>4, <1>5, OwnershipAssumption
       DEF CompletionInv, RequestShapes, RequestsApart, DecisionsFresh, Deciding
<1>11. StartedAssigned'
    BY <1>3, <1>7 DEF CompletionInv, StartedAssigned
<1>12. FinishKnown'
    BY <1>1, <1>4, <1>5, <1>7, RequestFields DEF CompletionInv, FinishKnown, OnlyOverlapped
<1> QED
    BY <1>4, <1>6, <1>9, <1>10, <1>11, <1>12 DEF CompletionInv

\* A decision that begins meets those on its assignment that are under way.
LEMMA BeginsDecision ==
    ASSUME OwnershipTypes, CompletionInv, NEW r \in Requests, NEW kind \in Deciding,
           NEW c \in Campaigns, NEW a \in Assets, BeginDecision(r, kind, c, a)
    PROVE  CompletionInv' /\ req' \in [Requests -> RequestRow] /\ hist' \in History
           /\ hist'.planned = hist.planned
<1>1. PICK copy : copy = assignment[c][a]
    OBVIOUS
<1> DEFINE new == [kind |-> kind, place |-> "commit", on |-> c, asset |-> a, copy |-> copy]
<1>2. Begin(r, new) /\ Accepts(kind, copy)
    BY <1>1 DEF BeginDecision
<1>3. copy \in OPEN /\ copy \in AssignmentStatuses
    BY <1>2 DEF Accepts, OPEN, AssignmentStatuses
<1>4. /\ new \in RequestRow /\ new.kind = kind /\ new.place = "commit"
      /\ new.on = c /\ new.asset = a /\ new.copy = copy
    BY <1>3 DEF RequestRow
<1> HIDE DEF new
<1>5. /\ UNCHANGED <<matched, campaign, assignment>> /\ req' = [req EXCEPT ![r] = new]
      /\ req[r].kind = "idle" /\ hist' = [Count EXCEPT !.overlap = @ \cup Overlap(c, a)]
    BY <1>2, <1>4, OwnershipAssumption DEF Begin
<1>6. Overlap(c, a) \in SUBSET (Campaigns \X Assets)
    BY DEF Overlap
<1>7. hist' \in History /\ hist'.planned = hist.planned
      /\ hist'.overlap = hist.overlap \cup Overlap(c, a) /\ hist'.crashed = hist.crashed
    BY <1>5, <1>6, HistoryMeets DEF OwnershipTypes
<1>8. req'[r] = new /\ \A q \in Requests : q # r => req'[q] = req[q]
    BY <1>5 DEF OwnershipTypes
<1>9. req' \in [Requests -> RequestRow]
    BY <1>4, <1>5 DEF OwnershipTypes
<1>10. \A d \in Campaigns : (Started(d)' <=> Started(d)) /\ Outstanding(d)' = Outstanding(d)
    BY <1>5 DEF Started, Outstanding
<1>11. req[r].place = "idle"
    BY <1>5 DEF CompletionInv, RequestShapes
<1>12. CompletionIsExact'
    BY <1>5, <1>7, <1>8, <1>10, <1>11
       DEF CompletionInv, CompletionIsExact, CompletedIsDone, ReadyIsCompleted
<1>13. RequestShapes'
    BY <1>4, <1>5, <1>8, <1>11 DEF CompletionInv, RequestShapes, Deciding
<1>14. \A q \in Requests : q # r /\ req[q].asset = a /\ req[q].on = c =>
            <<c, a>> \in hist'.overlap
    BY <1>7 DEF Overlap
<1>15. RequestsApart'
    BY <1>4, <1>7, <1>8, <1>14 DEF CompletionInv, RequestsApart
<1>16. DecisionsFresh'
    BY <1>1, <1>3, <1>4, <1>5, <1>7, <1>8 DEF CompletionInv, DecisionsFresh
<1>17. StartedAssigned'
    BY <1>5, <1>10 DEF CompletionInv, StartedAssigned
<1>18. FinishKnown'
    BY <1>4, <1>7, <1>8, <1>10, RequestFields DEF CompletionInv, FinishKnown, OnlyOverlapped
<1> QED
    BY <1>7, <1>9, <1>12, <1>13, <1>15, <1>16, <1>17, <1>18 DEF CompletionInv

\* A decision reopens no campaign that is completed or about to be: unless it met
\* another one its assignment was open until now.
LEMMA Decides ==
    ASSUME OwnershipTypes, CompletionInv, NEW r \in Requests, Decide(r)
    PROVE  CompletionInv'
<1>1. PICK c \in Campaigns, a \in Assets : c = req[r].on /\ a = req[r].asset
    BY RequestFields DEF Decide, CompletionInv, RequestShapes, Deciding
<1>2. PICK status : /\ status = Decided(req[r].kind)
                    /\ assignment' = IF status = req[r].copy THEN assignment
                                     ELSE [assignment EXCEPT ![c][a] = status]
    BY <1>1 DEF Decide
<1>3. /\ req[r].kind \in Deciding /\ req[r].place = "commit" /\ req[r].copy \in OPEN
      /\ req' = [req EXCEPT ![r].place = "check"] /\ UNCHANGED <<matched, campaign, hist>>
    BY DEF Decide, CompletionInv, DecisionsFresh, Deciding
<1>4. status \in {"attested", "remediation-required", "resolved"}
    BY <1>2, <1>3 DEF Decided, Deciding
<1>5. \A d \in Campaigns, b \in Assets :
        (d # c \/ b # a) => assignment'[d][b] = assignment[d][b]
    BY <1>2 DEF OwnershipTypes, TypeOK, CampaignsTypeOK
<1>6. assignment'[c][a] # "none" \/ assignment'[c][a] = assignment[c][a]
    BY <1>2, <1>4 DEF OwnershipTypes, TypeOK, CampaignsTypeOK
<1>7. <<c, a>> \in hist.overlap \/ a \in Outstanding(c)
    BY <1>1, <1>3 DEF CompletionInv, DecisionsFresh, Outstanding
<1>8. /\ req'[r].place = "check"
      /\ \A q \in Requests :
            /\ req'[q].kind = req[q].kind /\ req'[q].on = req[q].on
            /\ req'[q].asset = req[q].asset
            /\ q # r => req'[q] = req[q]
    BY <1>3, RequestGoes DEF OwnershipTypes
<1>9. \A d \in Campaigns : Started(d)' <=> Started(d)
    BY <1>3 DEF Started
<1>10. \A d \in Campaigns : Outstanding(d)' \subseteq Outstanding(d) \cup (IF d = c THEN {a} ELSE {})
    BY <1>5 DEF Outstanding
<1>11. \A d \in Campaigns : d # c => Outstanding(d)' = Outstanding(d)
    BY <1>5 DEF Outstanding
<1>12. \A d \in Campaigns : OnlyOverlapped(d) => OnlyOverlapped(d)'
    BY <1>3, <1>7, <1>10 DEF OnlyOverlapped
<1>13. CompletedIsDone'
    BY <1>3, <1>12 DEF CompletionInv, CompletionIsExact, CompletedIsDone, OnlyOverlapped
<1>14. ReadyIsCompleted'
    BY <1>1, <1>3, <1>8, <1>11 DEF CompletionInv, CompletionIsExact, ReadyIsCompleted
<1>15. RequestShapes' /\ RequestsApart'
    BY <1>3, <1>8 DEF CompletionInv, RequestShapes, RequestsApart, Deciding
<1>16. StartedAssigned'
    BY <1>3, <1>5, <1>6, <1>9 DEF CompletionInv, StartedAssigned, OwnershipTypes, TypeOK,
                                  CampaignsTypeOK
<1>17. DecisionsFresh'
    <2> SUFFICES ASSUME NEW q \in Requests, req'[q].kind \in Deciding, req'[q].place = "commit"
                 PROVE  /\ req'[q].copy \in OPEN
                        /\ \/ assignment'[req'[q].on][req'[q].asset] = req'[q].copy
                           \/ <<req'[q].on, req'[q].asset>> \in hist'.overlap
        BY DEF DecisionsFresh
    <2>1. q # r /\ req'[q] = req[q]
        BY <1>8
    <2>2. req[q].on \in Campaigns /\ req[q].asset \in Assets
        BY <2>1, RequestFields DEF CompletionInv, RequestShapes
    <2>3. /\ req[q].copy \in OPEN
          /\ \/ assignment[req[q].on][req[q].asset] = req[q].copy
             \/ <<req[q].on, req[q].asset>> \in hist.overlap
        BY <2>1 DEF CompletionInv, DecisionsFresh
    <2>4. req[q].on = c /\ req[q].asset = a => <<c, a>> \in hist.overlap
        BY <1>1, <2>1 DEF CompletionInv, RequestsApart
    <2> QED
        BY <1>3, <1>5, <2>1, <2>2, <2>3, <2>4
<1>18. FinishKnown'
    BY <1>8, <1>9, <1>12, RequestFields DEF CompletionInv, FinishKnown
<1> QED
    BY <1>13, <1>14, <1>15, <1>16, <1>17, <1>18 DEF CompletionInv, CompletionIsExact

LEMMA ChecksReady ==
    ASSUME OwnershipTypes, CompletionInv, NEW r \in Requests, CheckReady(r)
    PROVE  CompletionInv'
<1>1. UNCHANGED <<matched, campaign, assignment, hist>> /\ req[r].place = "check"
    BY DEF CheckReady
<1>2. CASE ~(Ready(req[r].on) /\ campaign[req[r].on] = "active")
    BY <1>1, <1>2, EndsQuietly DEF CheckReady
<1>3. CASE Ready(req[r].on) /\ campaign[req[r].on] = "active"
    <2>1. req' = [req EXCEPT ![r].place = "finish"]
        BY <1>3 DEF CheckReady
    <2>2. /\ req'[r].place = "finish"
          /\ \A q \in Requests :
                /\ req'[q].kind = req[q].kind /\ req'[q].on = req[q].on
                /\ req'[q].asset = req[q].asset
                /\ q # r => req'[q] = req[q]
        BY <2>1, RequestGoes DEF OwnershipTypes
    <2>3. \A c \in Campaigns : (Started(c)' <=> Started(c)) /\ Outstanding(c)' = Outstanding(c)
        BY <1>1 DEF Started, Outstanding
    <2>4. CompletionIsExact'
        BY <1>1, <2>2, <2>3
           DEF CompletionInv, CompletionIsExact, CompletedIsDone, ReadyIsCompleted
    <2>5. RequestShapes' /\ RequestsApart' /\ DecisionsFresh'
        BY <1>1, <2>2 DEF CompletionInv, RequestShapes, RequestsApart, DecisionsFresh
    <2>6. StartedAssigned'
        BY <1>1, <2>3 DEF CompletionInv, StartedAssigned
    <2>7. Started(req[r].on) /\ OnlyOverlapped(req[r].on)
        BY <1>3 DEF Started, OnlyOverlapped, Ready
    <2>8. FinishKnown'
        BY <1>1, <2>2, <2>3, <2>7, RequestFields DEF CompletionInv, FinishKnown, OnlyOverlapped
    <2> QED
        BY <2>4, <2>5, <2>6, <2>8 DEF CompletionInv
<1> QED
    BY <1>2, <1>3

LEMMA CompletesCampaign ==
    ASSUME OwnershipTypes, CompletionInv, NEW r \in Requests, _complete_campaign(r)
    PROVE  CompletionInv'
<1>1. PICK c \in Campaigns : c = req[r].on
    BY RequestFields
<1>2. /\ req' = [req EXCEPT ![r] = NoRequest] /\ req[r].place = "finish"
      /\ UNCHANGED <<matched, assignment, hist>>
    BY DEF _complete_campaign
<1>3. \A d \in Campaigns : campaign'[d] = IF d = c THEN "completed" ELSE campaign[d]
    BY <1>1 DEF _complete_campaign, OwnershipTypes, TypeOK, CampaignsTypeOK
<1>4. Started(c) /\ OnlyOverlapped(c)
    BY <1>1, <1>2 DEF CompletionInv, FinishKnown
<1>5. /\ req'[r].kind = "idle" /\ req'[r].place = "idle" /\ req'[r].asset = "none"
      /\ \A q \in Requests : q # r => req'[q] = req[q]
    BY <1>2, RequestEnds DEF OwnershipTypes
<1>6. \A d \in Campaigns : (Started(d)' <=> Started(d)) /\ Outstanding(d)' = Outstanding(d)
    BY <1>2, <1>3, <1>4 DEF Started, Outstanding
<1>7. CompletionIsExact'
    BY <1>1, <1>2, <1>3, <1>4, <1>5, <1>6
       DEF CompletionInv, CompletionIsExact, CompletedIsDone, ReadyIsCompleted, OnlyOverlapped
<1>8. RequestShapes' /\ RequestsApart' /\ DecisionsFresh'
    BY <1>2, <1>5, OwnershipAssumption
       DEF CompletionInv, RequestShapes, RequestsApart, DecisionsFresh, Deciding
<1>9. StartedAssigned'
    BY <1>2, <1>6 DEF CompletionInv, StartedAssigned
<1>10. FinishKnown'
    BY <1>2, <1>5, <1>6, RequestFields DEF CompletionInv, FinishKnown, OnlyOverlapped
<1> QED
    BY <1>7, <1>8, <1>9, <1>10 DEF CompletionInv

\* create_campaign and launch_campaign of a scheduled job.
LEMMA WorkerCreates ==
    ASSUME OwnershipTypes, CompletionInv, WorkersKnown, NEW w \in Workers,
           create_campaign(w) \/ launch_campaign(w)
    PROVE  CompletionInv' /\ campaign' \in [Campaigns -> CampaignStatuses]
           /\ assignment' \in [Campaigns -> [Assets -> AssignmentStatuses]]
<1>1. PICK c \in Campaigns : c = worker[w].on
    <2>1. worker[w].place \in AtJob
        BY DEF create_campaign, launch_campaign, AtJob
    <2>2. worker[w].on = payload[worker[w].job] /\ worker[w].job \in Jobs
        BY <2>1 DEF WorkersKnown
    <2>3. worker[w].on \in 0..MaxOccurrence
        BY <2>2 DEF OwnershipTypes, TypeOK, CampaignsTypeOK
    <2> QED
        BY <2>3, OwnershipAssumption DEF Campaigns, Occurrences, Manual
<1>2. UNCHANGED <<matched, req, hist>>
    BY DEF create_campaign, launch_campaign
<1>3. CASE UNCHANGED <<campaign, assignment>>
    BY <1>2, <1>3, KeepsCompletion DEF cmpvars, OwnershipTypes, TypeOK, CampaignsTypeOK
<1>4. CASE /\ campaign[c] = "absent" /\ campaign' = [campaign EXCEPT ![c] = "draft"]
           /\ UNCHANGED assignment
    BY <1>2, <1>4, CreatesCampaign
       DEF OwnershipTypes, TypeOK, CampaignsTypeOK, CampaignStatuses
<1>5. CASE matched # {} /\ Launchable(c) /\ Launched(c)
    <2>1. CompletionInv'
        BY <1>2, <1>5, LaunchesCampaign
    <2>2. /\ campaign' \in [Campaigns -> CampaignStatuses]
          /\ assignment' \in [Campaigns -> [Assets -> AssignmentStatuses]]
        BY <1>5, LaunchTypes DEF OwnershipTypes, TypeOK, CampaignsTypeOK
    <2> QED
        BY <2>1, <2>2
<1>6. CASE create_campaign(w)
    BY <1>1, <1>3, <1>4, <1>6 DEF create_campaign
<1>7. CASE launch_campaign(w)
    BY <1>1, <1>3, <1>5, <1>7 DEF launch_campaign
<1> QED
    BY <1>6, <1>7

\* What the requests of the API write.
LEMMA RequestsComplete ==
    ASSUME OwnershipTypes, CompletionInv, NEW r \in Requests, RequestStep(r) \/ RequestDies(r)
    PROVE  /\ CompletionInv'
           /\ campaign' \in [Campaigns -> CampaignStatuses]
           /\ assignment' \in [Campaigns -> [Assets -> AssignmentStatuses]]
           /\ req' \in [Requests -> RequestRow]
           /\ hist' \in History /\ hist'.planned = hist.planned
           /\ \A c \in Campaigns : Started(c) => Started(c)'
<1>1. PICK c \in Campaigns : c = req[r].on
    BY RequestFields
<1>2. CASE launch_ownership_attestations(r)
    <2>1. req' \in [Requests -> RequestRow] /\ UNCHANGED hist
        BY <1>2, RequestEnds DEF launch_ownership_attestations, OwnershipTypes
    <2>2. CASE Launched(c)
        <3>1. \A d \in Campaigns : campaign'[d] = IF d = c THEN "active" ELSE campaign[d]
            BY <2>2 DEF OwnershipTypes, TypeOK, CampaignsTypeOK, Launched
        <3> QED
            BY <1>2, <2>1, <2>2, <3>1, LaunchTypes, LaunchesOnRequest
               DEF OwnershipTypes, TypeOK, CampaignsTypeOK, Started
    <2>3. CASE UNCHANGED <<campaign, assignment>>
        BY <1>2, <2>1, <2>3, LaunchesOnRequest
           DEF OwnershipTypes, TypeOK, CampaignsTypeOK, Started
    <2> QED
        BY <1>1, <1>2, <2>2, <2>3 DEF launch_ownership_attestations
<1>3. CASE Decide(r)
    <2>1. UNCHANGED <<campaign, hist>> /\ req' \in [Requests -> RequestRow]
        BY <1>3, RequestGoes DEF Decide, OwnershipTypes
    <2>2. PICK a \in Assets : a = req[r].asset
        BY <1>3 DEF Decide, CompletionInv, RequestShapes, Deciding
    <2>3. PICK status : /\ status = Decided(req[r].kind)
                        /\ assignment' = IF status = req[r].copy THEN assignment
                                         ELSE [assignment EXCEPT ![c][a] = status]
        BY <1>1, <1>3, <2>2 DEF Decide
    <2>4. status \in AssignmentStatuses
        BY <1>3, <2>3 DEF Decided, Decide, AssignmentStatuses, OPEN
    <2>5. assignment' \in [Campaigns -> [Assets -> AssignmentStatuses]]
        BY <2>3, <2>4 DEF OwnershipTypes, TypeOK, CampaignsTypeOK
    <2> QED
        BY <1>3, <2>1, <2>5, Decides DEF OwnershipTypes, TypeOK, CampaignsTypeOK, Started
<1>4. CASE CheckReady(r)
    <2>1. UNCHANGED <<campaign, assignment, hist>>
        BY <1>4 DEF CheckReady
    <2>2. req' \in [Requests -> RequestRow]
        <3>1. \/ req' = [req EXCEPT ![r].place = "finish"]
              \/ req' = [req EXCEPT ![r] = NoRequest]
            BY <1>4 DEF CheckReady
        <3> QED
            BY <3>1, RequestGoes, RequestEnds DEF OwnershipTypes
    <2> QED
        BY <1>4, <2>1, <2>2, ChecksReady DEF OwnershipTypes, TypeOK, CampaignsTypeOK, Started
<1>5. CASE _complete_campaign(r)
    <2>1. /\ req' = [req EXCEPT ![r] = NoRequest] /\ UNCHANGED <<assignment, hist>>
          /\ campaign' = [campaign EXCEPT ![c] = "completed"]
        BY <1>1, <1>5 DEF _complete_campaign
    <2>2. \A d \in Campaigns : campaign'[d] = IF d = c THEN "completed" ELSE campaign[d]
        BY <2>1 DEF OwnershipTypes, TypeOK, CampaignsTypeOK
    <2>3. campaign' \in [Campaigns -> CampaignStatuses]
        BY <2>1 DEF OwnershipTypes, TypeOK, CampaignsTypeOK, CampaignStatuses
    <2> QED
        BY <1>5, <2>1, <2>2, <2>3, CompletesCampaign, RequestEnds
           DEF OwnershipTypes, TypeOK, CampaignsTypeOK, Started
<1>6. CASE RequestDies(r)
    <2>1. /\ req' = [req EXCEPT ![r] = NoRequest]
          /\ hist' = [Count EXCEPT !.crashed = TRUE]
          /\ UNCHANGED <<matched, campaign, assignment>>
        BY <1>6 DEF RequestDies
    <2>2. /\ hist' \in History /\ hist'.planned = hist.planned
          /\ hist'.overlap = hist.overlap /\ hist'.crashed
        BY <2>1, HistoryMoves DEF OwnershipTypes
    <2>3. CompletionInv'
        BY <2>1, <2>2, EndsQuietly
    <2> QED
        BY <2>1, <2>2, <2>3, RequestEnds DEF OwnershipTypes, TypeOK, CampaignsTypeOK, Started
<1> QED
    BY <1>2, <1>3, <1>4, <1>5, <1>6 DEF RequestStep

-----------------------------------------------------------------------------
(***************************************************************************)
(* Launches.                                                               *)
(***************************************************************************)
StartedStay == \A c \in Campaigns : Started(c) => Started(c)'

LEMMA WorkerFields ==
    ASSUME OwnershipTypes, NEW w \in Workers
    PROVE  /\ worker[w].place \in Places /\ worker[w].job \in Jobs \cup {0}
           /\ worker[w].on \in 0..(MaxOccurrence + 1) /\ worker[w].now \in 0..MaxOccurrence
BY DEF OwnershipTypes, WorkerRow

LEMMA PayloadFields ==
    ASSUME OwnershipTypes, NEW j \in Jobs
    PROVE  payload[j] \in Campaigns /\ payload[j] \in 0..MaxOccurrence
BY OwnershipAssumption DEF OwnershipTypes, TypeOK, CampaignsTypeOK, Campaigns, Manual, Occurrences

LEMMA InitLaunch == Init => LaunchInv
<1> SUFFICES ASSUME Init PROVE LaunchInv
    OBVIOUS
<1>1. PICK state, status : Start(state, status)
    BY DEF Init, CampaignsInit, CampaignsInitLaunched
<1>2. \A j \in Jobs : queue[j].status = "absent" /\ payload[j] = 0
    BY <1>1 DEF Start, QueueInit, AbsentJob
<1>3. \A w \in Workers : worker[w].place = "idle"
    BY <1>1 DEF Start, IdleWorker
<1>4. \A o \in Occurrences : JobsOf(o) = {} /\ PassesOf(o) = {}
    BY <1>2, <1>3 DEF JobsOf, PassesOf, Occurrences
<1>5. IsFiniteSet({}) /\ Cardinality({}) = 0
    BY FS_EmptySet
<1>6. \A o \in Occurrences : hist.planned[o] = IsNext(o)
    BY <1>1 DEF Start, IsNext
<1>7. \A o \in Occurrences : IsNext(o) \in Nat
    BY DEF IsNext
<1>8. PlansCovered
    BY <1>4, <1>5, <1>6, <1>7 DEF PlansCovered
<1>9. WorkersKnown
    BY <1>2, <1>3 DEF WorkersKnown, AtJob
<1> QED
    BY <1>2, <1>8, <1>9 DEF LaunchInv, PendingHasAttempts, CompletedJobLaunched

\* A step that enqueues and claims nothing keeps the plans, if passes only end.
LEMMA KeepsPlans ==
    ASSUME OwnershipTypes, PlansCovered, UNCHANGED payload, sched'.next = sched.next,
           hist'.planned = hist.planned,
           \A w \in Workers : worker'[w].place = "enqueue" => worker'[w] = worker[w]
    PROVE  PlansCovered'
<1> SUFFICES ASSUME NEW o \in Occurrences
             PROVE  /\ IsFiniteSet(JobsOf(o)') /\ IsFiniteSet(PassesOf(o)')
                    /\ Cardinality(JobsOf(o)') + Cardinality(PassesOf(o)') + IsNext(o)'
                            <= hist'.planned[o]
    BY DEF PlansCovered
<1>1. JobsOf(o)' = JobsOf(o) /\ PassesOf(o)' \subseteq PassesOf(o) /\ IsNext(o)' = IsNext(o)
    BY DEF JobsOf, PassesOf, IsNext
<1>2. /\ IsFiniteSet(JobsOf(o)) /\ IsFiniteSet(PassesOf(o))
      /\ Cardinality(JobsOf(o)) + Cardinality(PassesOf(o)) + IsNext(o) <= hist.planned[o]
    BY DEF PlansCovered
<1>3. IsFiniteSet(PassesOf(o)') /\ Cardinality(PassesOf(o)') <= Cardinality(PassesOf(o))
    BY <1>1, <1>2, FS_Subset
<1>4. /\ Cardinality(JobsOf(o)) \in Nat /\ Cardinality(PassesOf(o)) \in Nat
      /\ Cardinality(PassesOf(o)') \in Nat /\ IsNext(o) \in Nat
    BY <1>2, <1>3, FS_CardinalityType DEF IsNext
<1>5. Cardinality(JobsOf(o)') = Cardinality(JobsOf(o)) /\ hist.planned[o] \in Nat
    BY <1>1 DEF OwnershipTypes, History
<1> QED
    BY <1>1, <1>2, <1>3, <1>4, <1>5

LEMMA KeepsLaunches ==
    ASSUME OwnershipTypes, OwnershipTypes', LaunchInv, StartedStay, UNCHANGED <<queue, payload>>,
           sched'.next = sched.next, hist'.planned = hist.planned,
           \A w \in Workers :
              \/ worker'[w] = worker[w]
              \/ worker'[w].place \notin AtJob \cup {"enqueue"}
              \/ /\ worker[w].place \in AtJob /\ worker'[w].place \in AtJob
                 /\ worker'[w].job = worker[w].job /\ worker'[w].on = worker[w].on
                 /\ worker'[w].place = "return" => Started(worker[w].on)'
    PROVE  LaunchInv'
<1>1. PlansCovered'
    BY KeepsPlans DEF LaunchInv, AtJob
<1>2. \A w \in Workers : worker[w].place = "return" => worker[w].on \in Campaigns
    BY PayloadFields DEF LaunchInv, WorkersKnown, AtJob
<1>3. WorkersKnown'
    BY <1>2 DEF LaunchInv, WorkersKnown, StartedStay, AtJob
<1>4. CompletedJobLaunched'
    BY PayloadFields DEF LaunchInv, CompletedJobLaunched, StartedStay, Started
<1> QED
    BY <1>1, <1>3, <1>4 DEF LaunchInv, PendingHasAttempts

\* The next run is moved, by an operator's edit or by a claim, to a later plan.
LEMMA PlansNext ==
    ASSUME OwnershipTypes, PlansCovered, NEW h \in History, h.planned = hist.planned,
           NEW o \in 1..(MaxOccurrence + 1), o # sched.next, sched'.next = o,
           hist' = Plan(h, o), UNCHANGED payload,
           \/ UNCHANGED worker
           \/ \E w \in Workers :
                /\ worker[w].place # "enqueue" /\ worker[w].on = sched.next
                /\ worker'[w].place = "enqueue" /\ worker'[w].on = worker[w].on
                /\ \A v \in Workers : v # w => worker'[v] = worker[v]
    PROVE  PlansCovered'
<1> SUFFICES ASSUME NEW p \in Occurrences
             PROVE  /\ IsFiniteSet(JobsOf(p)') /\ IsFiniteSet(PassesOf(p)')
                    /\ Cardinality(JobsOf(p)') + Cardinality(PassesOf(p)') + IsNext(p)'
                            <= hist'.planned[p]
    BY DEF PlansCovered
<1>1. JobsOf(p)' = JobsOf(p)
    BY DEF JobsOf
<1>2. hist'.planned[p] = IF p = o THEN hist.planned[p] + 1 ELSE hist.planned[p]
    BY HistoryPlans
<1>3. IsNext(p)' = IF p = o THEN 1 ELSE 0
    BY DEF IsNext
<1>4. /\ IsFiniteSet(JobsOf(p)) /\ IsFiniteSet(PassesOf(p))
      /\ Cardinality(JobsOf(p)) + Cardinality(PassesOf(p)) + IsNext(p) <= hist.planned[p]
      /\ Cardinality(JobsOf(p)) \in Nat /\ Cardinality(PassesOf(p)) \in Nat
    BY FS_CardinalityType DEF PlansCovered
<1>5. hist.planned[p] \in Nat
    BY DEF OwnershipTypes, History
<1>6. /\ IsFiniteSet(PassesOf(p)') /\ Cardinality(PassesOf(p)') \in Nat
      /\ Cardinality(PassesOf(p)') <=
            Cardinality(PassesOf(p)) + (IF p = sched.next THEN 1 ELSE 0)
    <2>1. CASE PassesOf(p)' = PassesOf(p)
        BY <1>4, <2>1
    <2>2. CASE PassesOf(p)' # PassesOf(p)
        <3>1. PICK w \in Workers :
                /\ worker[w].place # "enqueue" /\ worker[w].on = sched.next
                /\ worker'[w].place = "enqueue" /\ worker'[w].on = worker[w].on
                /\ \A v \in Workers : v # w => worker'[v] = worker[v]
            BY <2>2 DEF PassesOf
        <3>2. p = sched.next /\ PassesOf(p)' = PassesOf(p) \cup {w}
            BY <2>2, <3>1 DEF PassesOf
        <3>3. PICK old, added : old = PassesOf(p) /\ added = old \cup {w}
            OBVIOUS
        <3>4. IsFiniteSet(old) /\ Cardinality(old) \in Nat
            BY <1>4, <3>3
        <3>5. /\ IsFiniteSet(old \cup {w})
              /\ Cardinality(old \cup {w}) \in {Cardinality(old), Cardinality(old) + 1}
            BY <3>4, FS_AddElement
        <3>6. IsFiniteSet(added) /\ Cardinality(added) <= Cardinality(old) + 1
            BY <3>3, <3>4, <3>5
        <3> QED
            BY <1>4, <3>2, <3>3, <3>6, FS_CardinalityType
    <2> QED
        BY <2>1, <2>2
<1>7. IsNext(p) = IF p = sched.next THEN 1 ELSE 0
    BY DEF IsNext
<1> QED
    BY <1>1, <1>2, <1>3, <1>4, <1>5, <1>6, <1>7

\* A pass enqueues the one job of the occurrence it has claimed.
LEMMA PlansEnqueue ==
    ASSUME PlansCovered, NEW w \in Workers, NEW j \in Jobs, payload[j] = 0,
           payload \in [Jobs -> 0..MaxOccurrence],
           worker[w].place = "enqueue", worker[w].on \in Occurrences,
           payload' = [payload EXCEPT ![j] = worker[w].on], worker'[w].place # "enqueue",
           \A v \in Workers : v # w => worker'[v] = worker[v],
           sched'.next = sched.next, hist'.planned = hist.planned
    PROVE  PlansCovered'
<1> SUFFICES ASSUME NEW p \in Occurrences
             PROVE  /\ IsFiniteSet(JobsOf(p)') /\ IsFiniteSet(PassesOf(p)')
                    /\ Cardinality(JobsOf(p)') + Cardinality(PassesOf(p)') + IsNext(p)'
                            <= hist'.planned[p]
    BY DEF PlansCovered
<1>1. /\ IsFiniteSet(JobsOf(p)) /\ IsFiniteSet(PassesOf(p))
      /\ Cardinality(JobsOf(p)) + Cardinality(PassesOf(p)) + IsNext(p) <= hist.planned[p]
      /\ Cardinality(JobsOf(p)) \in Nat /\ Cardinality(PassesOf(p)) \in Nat
    BY FS_CardinalityType DEF PlansCovered
<1>2. IsNext(p)' = IsNext(p) /\ IsNext(p) \in Nat
    BY DEF IsNext
<1>3. CASE p # worker[w].on
    <2>1. JobsOf(p)' = JobsOf(p) /\ PassesOf(p)' = PassesOf(p)
        BY <1>3 DEF JobsOf, PassesOf, Occurrences
    <2> QED
        BY <1>1, <1>2, <2>1
<1>4. CASE p = worker[w].on
    <2>1. JobsOf(p)' = JobsOf(p) \cup {j} /\ j \notin JobsOf(p)
        BY <1>4 DEF JobsOf, Occurrences
    <2>2. PassesOf(p)' = PassesOf(p) \ {w} /\ w \in PassesOf(p)
        BY <1>4 DEF PassesOf
    <2>3. /\ IsFiniteSet(JobsOf(p)') /\ Cardinality(JobsOf(p)') = Cardinality(JobsOf(p)) + 1
          /\ IsFiniteSet(PassesOf(p)') /\ Cardinality(PassesOf(p)') = Cardinality(PassesOf(p)) - 1
        BY <1>1, <2>1, <2>2, FS_AddElement, FS_RemoveElement
    <2> QED
        BY <1>1, <1>2, <2>3
<1> QED
    BY <1>3, <1>4

\* An operation of the queue on one job, by a worker that comes to or leaves it.
LEMMA QueueLaunches ==
    ASSUME OwnershipTypes, OwnershipTypes', LaunchInv, NEW j \in Jobs, NEW w \in Workers,
           Claim(j) \/ Fail(j) \/ (Complete(j) /\ Started(payload[j])),
           UNCHANGED <<payload, campaign>>, sched'.next = sched.next,
           hist'.planned = hist.planned, worker'[w].place # "enqueue",
           worker'[w].place \in AtJob =>
              /\ worker'[w].place # "return"
              /\ worker'[w].job = j /\ worker'[w].on = payload[j],
           \A v \in Workers : v # w => worker'[v] = worker[v]
    PROVE  LaunchInv'
<1>1. QueueTypeOK /\ PendingHasAttempts
    BY DEF OwnershipTypes, TypeOK, CampaignsTypeOK, LaunchInv
<1>2. /\ PendingHasAttempts' /\ queue'[j].status # "absent"
      /\ queue'[j].status = "completed" => Complete(j)
      /\ \A i \in Jobs : i # j => queue'[i] = queue[i]
    BY <1>1, QueueMoves
<1>3. queue[j].status # "absent"
    BY DEF Claim, Fail, Complete
<1>4. PlansCovered'
    BY KeepsPlans DEF LaunchInv
<1>5. WorkersKnown'
    BY <1>2, <1>3 DEF LaunchInv, WorkersKnown, AtJob, Started
<1>6. CompletedJobLaunched'
    <2>1. queue'[j].status = "completed" => Started(payload[j])
        <3>1. ~(Complete(j) /\ (Claim(j) \/ Fail(j)) /\ queue'[j].status = "completed")
            <4>1. Claim(j) => queue[j].status = "pending"
                BY DEF Claim
            <4>2. Complete(j) => queue[j].status = "running"
                BY DEF Complete
            <4>3. Fail(j) => queue'[j].status # "completed"
                <5>1. queue \in [Jobs -> QueueRow]
                    BY DEF OwnershipTypes, TypeOK, CampaignsTypeOK, QueueTypeOK, QueueRow
                <5>2. AfterFailure(queue[j]).status \in {"failed", "pending"}
                    BY <5>1, FailureFacts
                <5> QED
                    BY <5>1, <5>2 DEF Fail
            <4> QED
                BY <4>1, <4>2, <4>3
        <3> QED
            BY <1>2, <3>1
    <2> QED
        BY <1>2, <2>1 DEF LaunchInv, CompletedJobLaunched, Started
<1> QED
    BY <1>2, <1>4, <1>5, <1>6 DEF LaunchInv


-----------------------------------------------------------------------------
(***************************************************************************)
(* The steps of campaigns.                                                 *)
(***************************************************************************)
LEMMA KeepsEscalation ==
    ASSUME EscalationInv, UNCHANGED evars,
           \A w \in Workers : worker'[w] = worker[w] \/ worker'[w].place \notin Escalating
    PROVE  EscalationInv'
BY DEF EscalationInv, evars, Sent, Escalating

LEMMA OwnershipParts ==
    ASSUME OwnershipTypes', CompletionInv', LaunchInv', FirstPlanned', EscalationInv'
    PROVE  OwnershipInv'
BY DEF OwnershipInv

LEMMA KeepsTypes ==
    ASSUME OwnershipTypes, UNCHANGED evars, QueueTypeOK', UNCHANGED matched,
           clock' \in 0..MaxOccurrence,
           sched' \in [state : {"absent", "enabled", "disabled", "deleted"},
                       next : 1..(MaxOccurrence + 1)],
           policy' \in BOOLEAN,
           campaign' \in [Campaigns -> CampaignStatuses],
           expired' \subseteq Campaigns,
           assignment' \in [Campaigns -> [Assets -> AssignmentStatuses]],
           payload' \in [Jobs -> 0..MaxOccurrence],
           worker' \in [Workers -> WorkerRow], req' \in [Requests -> RequestRow],
           hist' \in History
    PROVE  OwnershipTypes'
<1>1. CampaignsTypeOK'
    BY DEF OwnershipTypes, TypeOK, CampaignsTypeOK
<1>2. /\ overdue' \in BOOLEAN /\ delivery' \in BOOLEAN /\ jobsent' \in BOOLEAN
      /\ taken' \in BOOLEAN /\ event' \in [status : EventStatuses, ready : BOOLEAN]
      /\ others' \in [Earlier -> OtherStatuses]
    BY Zenon DEF OwnershipTypes, TypeOK, evars, OtherStatuses
<1> QED
    BY <1>1, <1>2 DEF OwnershipTypes, TypeOK, OtherStatuses

LEMMA TypeParts ==
    ASSUME OwnershipTypes
    PROVE  /\ QueueTypeOK /\ matched \subseteq Assets /\ clock \in 0..MaxOccurrence
           /\ sched \in [state : {"absent", "enabled", "disabled", "deleted"},
                         next : 1..(MaxOccurrence + 1)]
           /\ policy \in BOOLEAN
           /\ campaign \in [Campaigns -> CampaignStatuses]
           /\ expired \subseteq Campaigns
           /\ assignment \in [Campaigns -> [Assets -> AssignmentStatuses]]
           /\ payload \in [Jobs -> 0..MaxOccurrence]
           /\ worker \in [Workers -> WorkerRow] /\ req \in [Requests -> RequestRow]
           /\ hist \in History
BY DEF OwnershipTypes, TypeOK, CampaignsTypeOK

\* The clock, due dates, and edits that leave the next run where it is.
LEMMA EditsKeep ==
    ASSUME OwnershipInv,
           UNCHANGED <<queue, matched, campaign, assignment, payload, worker, req, evars>>,
           clock' \in 0..MaxOccurrence, policy' \in BOOLEAN, expired' \subseteq Campaigns,
           sched' \in [state : {"absent", "enabled", "disabled", "deleted"},
                       next : 1..(MaxOccurrence + 1)],
           sched'.next = sched.next,
           sched'.state = "absent" => sched.state = "absent",
           hist' = hist \/ hist' = Count
    PROVE  OwnershipInv'
<1>1. OwnershipTypes /\ CompletionInv /\ LaunchInv /\ FirstPlanned /\ EscalationInv
    BY DEF OwnershipInv
<1>2. /\ hist' \in History /\ hist'.planned = hist.planned /\ hist'.overlap = hist.overlap
      /\ hist'.crashed = hist.crashed
    BY <1>1, HistoryMoves DEF OwnershipTypes
<1>3. OwnershipTypes'
    BY <1>1, <1>2, TypeParts, KeepsTypes DEF QueueTypeOK
<1>4. CompletionInv'
    BY <1>1, <1>2, KeepsCompletion DEF cmpvars
<1>5. LaunchInv'
    BY <1>1, <1>2, <1>3, KeepsLaunches DEF StartedStay, Started
<1>6. FirstPlanned'
    BY <1>1 DEF FirstPlanned
<1>7. EscalationInv'
    BY <1>1, KeepsEscalation
<1> QED
    BY <1>3, <1>4, <1>5, <1>6, <1>7, OwnershipParts


LEMMA ClockKeeps ==
    ASSUME OwnershipInv, UNCHANGED evars,
           OccurrenceComes \/ \E c \in Campaigns : DueDatePasses(c)
    PROVE  OwnershipInv'
<1>1. CASE OccurrenceComes
    <2>1. clock' \in 0..MaxOccurrence
        BY <1>1, TypeParts, OwnershipAssumption DEF OccurrenceComes, OwnershipInv
    <2> QED
        BY <1>1, <2>1, TypeParts, EditsKeep DEF OccurrenceComes, OwnershipInv
<1>2. CASE \E c \in Campaigns : DueDatePasses(c)
    <2>1. PICK c \in Campaigns : DueDatePasses(c)
        BY <1>2
    <2>2. expired' \subseteq Campaigns
        BY <2>1, TypeParts DEF DueDatePasses, OwnershipInv
    <2> QED
        BY <2>1, <2>2, TypeParts, EditsKeep DEF DueDatePasses, OwnershipInv
<1> QED
    BY <1>1, <1>2

\* An operator's edit of the next run plans another occurrence.
LEMMA ReplanKeeps ==
    ASSUME OwnershipInv, NEW o \in Occurrences, o # sched.next,
           sched.state \in {"enabled", "disabled"},
           sched' = [sched EXCEPT !.next = o], hist' = Plan(Count, o),
           UNCHANGED <<queue, matched, clock, policy, campaign, expired, assignment, payload, worker,
                       req, evars>>
    PROVE  OwnershipInv'
<1>1. OwnershipTypes /\ CompletionInv /\ LaunchInv /\ FirstPlanned /\ EscalationInv
    BY DEF OwnershipInv
<1>2. PICK h \in History : h = Count
    BY <1>1, HistoryMoves DEF OwnershipTypes
<1>3. h.planned = hist.planned /\ h.overlap = hist.overlap /\ h.crashed = hist.crashed
    BY <1>1, <1>2, HistoryMoves DEF OwnershipTypes
<1>4. o \in 1..(MaxOccurrence + 1)
    BY OwnershipAssumption DEF Occurrences
<1>5. /\ hist' = Plan(h, o) /\ hist' \in History /\ hist'.overlap = hist.overlap
      /\ hist'.crashed = hist.crashed
    BY <1>2, <1>3, <1>4, HistoryPlans
<1>6. /\ sched' \in [state : {"absent", "enabled", "disabled", "deleted"},
                     next : 1..(MaxOccurrence + 1)]
      /\ sched'.next = o /\ sched'.state = sched.state
    BY <1>1, <1>4, TypeParts
<1>7. OwnershipTypes'
    BY <1>1, <1>5, <1>6, TypeParts, KeepsTypes DEF QueueTypeOK
<1>8. CompletionInv'
    BY <1>1, <1>5, KeepsCompletion DEF cmpvars
<1>9. PlansCovered'
    BY <1>1, <1>3, <1>4, <1>5, <1>6, PlansNext DEF LaunchInv
<1>10. LaunchInv'
    BY <1>1, <1>9 DEF LaunchInv, PendingHasAttempts, WorkersKnown, CompletedJobLaunched, Started
<1>11. FirstPlanned'
    BY <1>6 DEF FirstPlanned
<1>12. EscalationInv'
    BY <1>1, KeepsEscalation
<1> QED
    BY <1>7, <1>8, <1>10, <1>11, <1>12, OwnershipParts

LEMMA CreatesByHand ==
    ASSUME OwnershipInv, create_ownership_campaign, UNCHANGED evars
    PROVE  OwnershipInv'
<1>1. OwnershipTypes /\ CompletionInv /\ LaunchInv /\ FirstPlanned /\ EscalationInv
    BY DEF OwnershipInv
<1>2. /\ hist' \in History /\ hist'.planned = hist.planned /\ hist'.overlap = hist.overlap
      /\ hist'.crashed = hist.crashed
    BY <1>1, HistoryMoves DEF create_ownership_campaign, OwnershipTypes
<1>3. Manual \in Campaigns /\ campaign[Manual] = "absent"
      /\ campaign' = [campaign EXCEPT ![Manual] = "draft"]
    BY DEF create_ownership_campaign, Campaigns
<1>4. campaign' \in [Campaigns -> CampaignStatuses]
    BY <1>1, <1>3, TypeParts DEF CampaignStatuses
<1>5. OwnershipTypes'
    BY <1>1, <1>2, <1>4, TypeParts, KeepsTypes DEF create_ownership_campaign, QueueTypeOK
<1>6. CompletionInv'
    BY <1>1, <1>2, <1>3, CreatesCampaign DEF create_ownership_campaign
<1>7. \A d \in Campaigns : campaign'[d] = IF d = Manual THEN "draft" ELSE campaign[d]
    BY <1>1, <1>3, TypeParts
<1>8. StartedStay
    BY <1>3, <1>7 DEF StartedStay, Started
<1>9. LaunchInv'
    BY <1>1, <1>2, <1>5, <1>8, KeepsLaunches DEF create_ownership_campaign
<1>10. FirstPlanned' /\ EscalationInv'
    BY <1>1, KeepsEscalation DEF FirstPlanned, create_ownership_campaign
<1> QED
    BY <1>5, <1>6, <1>9, <1>10, OwnershipParts

LEMMA BeginsKeep ==
    ASSUME OwnershipInv, NEW r \in Requests, NEW c \in Campaigns, UNCHANGED evars,
           \/ BeginLaunch(r, c)
           \/ \E kind \in Deciding, a \in Assets : BeginDecision(r, kind, c, a)
    PROVE  OwnershipInv'
<1>1. OwnershipTypes /\ CompletionInv /\ LaunchInv /\ FirstPlanned /\ EscalationInv
    BY DEF OwnershipInv
<1>2. /\ CompletionInv' /\ req' \in [Requests -> RequestRow] /\ hist' \in History
      /\ hist'.planned = hist.planned
    BY <1>1, BeginsLaunch, BeginsDecision
<1>3. UNCHANGED <<queue, matched, clock, sched, policy, campaign, expired, assignment, payload, worker>>
    BY DEF BeginLaunch, BeginDecision, Begin
<1>4. OwnershipTypes'
    BY <1>1, <1>2, <1>3, TypeParts, KeepsTypes DEF QueueTypeOK
<1>5. LaunchInv'
    BY <1>1, <1>2, <1>3, <1>4, KeepsLaunches DEF StartedStay, Started
<1>6. FirstPlanned' /\ EscalationInv'
    BY <1>1, <1>3, KeepsEscalation DEF FirstPlanned
<1> QED
    BY <1>2, <1>4, <1>5, <1>6, OwnershipParts

LEMMA OperatorsKeep ==
    ASSUME OwnershipInv, Operators, UNCHANGED evars
    PROVE  OwnershipInv'
<1>1. OwnershipTypes /\ FirstPlanned
    BY DEF OwnershipInv
<1>2. CASE create_campaign_schedule
    <2>1. PICK state \in {"enabled", "disabled"} : sched' = [state |-> state, next |-> 1]
        BY <1>2 DEF create_campaign_schedule
    <2>2. sched.next = 1 /\ 1 \in 1..(MaxOccurrence + 1)
        BY <1>1, <1>2, OwnershipAssumption DEF FirstPlanned, create_campaign_schedule
    <2> QED
        BY <1>1, <1>2, <2>1, <2>2, TypeParts, EditsKeep DEF create_campaign_schedule
<1>3. CASE update_ownership_schedule
    <2>1. CASE \E o \in Occurrences : /\ o # sched.next /\ hist' = Plan(Count, o)
                                      /\ sched' = [sched EXCEPT !.next = o]
        BY <1>3, <2>1, ReplanKeeps DEF update_ownership_schedule
    <2>2. CASE /\ hist' = Count
               /\ sched' = [sched EXCEPT !.state = IF @ = "enabled" THEN "disabled"
                                                                    ELSE "enabled"]
        BY <1>1, <1>3, <2>2, TypeParts, EditsKeep DEF update_ownership_schedule
    <2> QED
        BY <1>3, <2>1, <2>2 DEF update_ownership_schedule
<1>4. CASE delete_ownership_schedule
    BY <1>1, <1>4, TypeParts, EditsKeep DEF delete_ownership_schedule
<1>5. CASE update_escalation_policy
    <2>1. policy' \in BOOLEAN
        BY <1>5 DEF update_escalation_policy
    <2> QED
        BY <1>1, <1>5, <2>1, TypeParts, EditsKeep DEF update_escalation_policy
<1>6. CASE create_ownership_campaign
    BY <1>6, CreatesByHand
<1>7. CASE \E r \in Requests, c \in Campaigns :
            \/ BeginLaunch(r, c)
            \/ \E kind \in {"confirm", "dispute", "resolve"}, a \in Assets :
                BeginDecision(r, kind, c, a)
    BY <1>7, BeginsKeep DEF Deciding
<1> QED
    BY <1>2, <1>3, <1>4, <1>5, <1>6, <1>7 DEF Operators

LEMMA RequestsKeep ==
    ASSUME OwnershipInv, NEW r \in Requests, RequestStep(r) \/ RequestDies(r), UNCHANGED evars
    PROVE  OwnershipInv'
<1>1. OwnershipTypes /\ CompletionInv /\ LaunchInv /\ FirstPlanned /\ EscalationInv
    BY DEF OwnershipInv
<1>2. /\ CompletionInv'
      /\ campaign' \in [Campaigns -> CampaignStatuses]
      /\ assignment' \in [Campaigns -> [Assets -> AssignmentStatuses]]
      /\ req' \in [Requests -> RequestRow]
      /\ hist' \in History /\ hist'.planned = hist.planned
      /\ \A c \in Campaigns : Started(c) => Started(c)'
    BY <1>1, RequestsComplete
<1>3. UNCHANGED <<queue, matched, clock, sched, policy, expired, payload, worker>>
    BY DEF RequestStep, launch_ownership_attestations, Decide, CheckReady, _complete_campaign,
           RequestDies
<1>4. OwnershipTypes'
    BY <1>1, <1>2, <1>3, TypeParts, KeepsTypes DEF QueueTypeOK
<1>5. LaunchInv'
    BY <1>1, <1>2, <1>3, <1>4, KeepsLaunches DEF StartedStay
<1>6. FirstPlanned' /\ EscalationInv'
    BY <1>1, <1>3, KeepsEscalation DEF FirstPlanned
<1> QED
    BY <1>2, <1>4, <1>5, <1>6, OwnershipParts


\* What KeepsLaunches asks of the workers.
PlaceKept(w) ==
    \/ worker'[w] = worker[w]
    \/ worker'[w].place \notin AtJob \cup {"enqueue"}
    \/ /\ worker[w].place \in AtJob /\ worker'[w].place \in AtJob
       /\ worker'[w].job = worker[w].job /\ worker'[w].on = worker[w].on
       /\ worker'[w].place = "return" => Started(worker[w].on)'

\* A worker's step on the schedule or on its job, away from the queue.
LEMMA WorkerMovesKeep ==
    ASSUME OwnershipInv, NEW w \in Workers,
           UNCHANGED <<queue, matched, clock, sched, policy, expired, payload, req, evars>>,
           CompletionInv', StartedStay,
           campaign' \in [Campaigns -> CampaignStatuses],
           assignment' \in [Campaigns -> [Assets -> AssignmentStatuses]],
           hist' \in History, hist'.planned = hist.planned,
           worker' \in [Workers -> WorkerRow],
           \A v \in Workers : v # w => worker'[v] = worker[v],
           PlaceKept(w), worker'[w].place \notin Escalating
    PROVE  OwnershipInv'
<1>1. OwnershipTypes /\ CompletionInv /\ LaunchInv /\ FirstPlanned /\ EscalationInv
    BY DEF OwnershipInv
<1>2. OwnershipTypes'
    BY <1>1, TypeParts, KeepsTypes DEF QueueTypeOK
<1>3. \A v \in Workers : PlaceKept(v)
    BY DEF PlaceKept
<1>4. LaunchInv'
    BY <1>1, <1>2, <1>3, KeepsLaunches DEF PlaceKept
<1>5. FirstPlanned' /\ EscalationInv'
    BY <1>1, KeepsEscalation DEF FirstPlanned
<1> QED
    BY <1>2, <1>4, <1>5, OwnershipParts

LEMMA SelectsDue ==
    ASSUME OwnershipInv, NEW w \in Workers, SelectDue(w), UNCHANGED evars
    PROVE  OwnershipInv'
<1>1. OwnershipTypes /\ CompletionInv
    BY DEF OwnershipInv
<1> DEFINE new == [place |-> "due", job |-> 0, on |-> sched.next, now |-> clock]
<1>2. new \in WorkerRow /\ new.place = "due"
    BY <1>1, TypeParts, OwnershipAssumption DEF WorkerRow, Places
<1>3. worker' = [worker EXCEPT ![w] = new] /\ hist' = Count
    BY DEF SelectDue
<1> HIDE DEF new
<1>4. /\ worker' \in [Workers -> WorkerRow] /\ worker'[w].place = "due"
      /\ \A v \in Workers : v # w => worker'[v] = worker[v]
    BY <1>1, <1>2, <1>3, TypeParts
<1>5. /\ hist' \in History /\ hist'.planned = hist.planned /\ hist'.overlap = hist.overlap
      /\ hist'.crashed = hist.crashed
    BY <1>1, <1>3, HistoryMoves DEF OwnershipTypes
<1>6. CompletionInv' /\ StartedStay
    BY <1>1, <1>5, KeepsCompletion DEF SelectDue, cmpvars, StartedStay, Started
<1> QED
    BY <1>1, <1>4, <1>5, <1>6, TypeParts, WorkerMovesKeep
       DEF SelectDue, PlaceKept, AtJob, Escalating

LEMMA ReloadsDue ==
    ASSUME OwnershipInv, NEW w \in Workers, ReloadDue(w), UNCHANGED evars
    PROVE  OwnershipInv'
<1>1. OwnershipTypes /\ CompletionInv
    BY DEF OwnershipInv
<1>2. PICK row, new :
        /\ row = worker[w] /\ row \in WorkerRow
        /\ new = IF sched.state = "deleted" THEN IdleWorker
                 ELSE [row EXCEPT !.place = "claim", !.on = sched.next]
    BY <1>1, TypeParts
<1>3. new \in WorkerRow /\ new.place \in {"idle", "claim"}
    <2>1. CASE sched.state = "deleted"
        BY <1>2, <2>1, IdleRows DEF IdleWorker
    <2>2. CASE sched.state # "deleted"
        <3>1. PICK o : o = sched.next
            OBVIOUS
        <3>2. o \in 0..(MaxOccurrence + 1)
            BY <1>1, <3>1, TypeParts, OwnershipAssumption
        <3>3. new = [row EXCEPT !.place = "claim", !.on = o]
            BY <1>2, <2>2, <3>1
        <3> QED
            BY <1>2, <3>2, <3>3 DEF WorkerRow, Places
    <2> QED
        BY <2>1, <2>2
<1>4. worker' = [worker EXCEPT ![w] = new]
    BY <1>2 DEF ReloadDue
<1>5. /\ worker' \in [Workers -> WorkerRow] /\ worker'[w].place \in {"idle", "claim"}
      /\ \A v \in Workers : v # w => worker'[v] = worker[v]
    BY <1>1, <1>3, <1>4, TypeParts
<1>6. CompletionInv' /\ StartedStay
    BY <1>1, KeepsCompletion DEF ReloadDue, cmpvars, StartedStay, Started
<1> QED
    BY <1>1, <1>5, <1>6, TypeParts, WorkerMovesKeep
       DEF ReloadDue, PlaceKept, AtJob, Escalating

\* Of two workers with the same plan one moves the schedule on, and goes on.
LEMMA ClaimsOccurrence ==
    ASSUME OwnershipInv, NEW w \in Workers, ClaimOccurrence(w), UNCHANGED evars
    PROVE  OwnershipInv'
<1>1. OwnershipTypes /\ CompletionInv /\ LaunchInv /\ FirstPlanned /\ EscalationInv
    BY DEF OwnershipInv
<1>2. UNCHANGED <<queue, matched, clock, policy, campaign, expired, assignment, payload, req>>
    BY DEF ClaimOccurrence
<1>3. CASE StillPlanned(w) /\ worker[w].on \in Occurrences
    <2>1. PICK o : o = next_schedule_run(w)
        OBVIOUS
    <2>2. /\ sched' = [sched EXCEPT !.next = o] /\ hist' = Plan(hist, o) /\ Go(w, "enqueue")
          /\ sched.state = "enabled" /\ sched.next = worker[w].on
          /\ sched.next \in Occurrences /\ worker[w].place \in {"due", "claim"}
        BY <1>3, <2>1 DEF ClaimOccurrence, StillPlanned
    <2>3. o \in 1..(MaxOccurrence + 1) /\ o # sched.next
        BY <1>1, <2>1, <2>2, WorkerFields, OwnershipAssumption
           DEF next_schedule_run, Later, Occurrences
    <2>4. /\ hist' \in History /\ hist'.overlap = hist.overlap /\ hist'.crashed = hist.crashed
        BY <1>1, <2>2, <2>3, HistoryPlans DEF OwnershipTypes
    <2>5. /\ worker' \in [Workers -> WorkerRow] /\ worker'[w].place = "enqueue"
          /\ worker'[w].on = worker[w].on
          /\ \A v \in Workers : v # w => worker'[v] = worker[v]
        BY <1>1, <2>2, WorkerGoes DEF OwnershipTypes, Places
    <2>6. /\ sched' \in [state : {"absent", "enabled", "disabled", "deleted"},
                         next : 1..(MaxOccurrence + 1)]
          /\ sched'.next = o /\ sched'.state = "enabled"
        BY <1>1, <2>2, <2>3, TypeParts
    <2>7. OwnershipTypes'
        BY <1>1, <1>2, <2>4, <2>5, <2>6, TypeParts, KeepsTypes DEF QueueTypeOK
    <2>8. CompletionInv'
        BY <1>1, <1>2, <2>4, KeepsCompletion DEF cmpvars
    <2>9. PlansCovered'
        <3>1. hist \in History /\ worker[w].place # "enqueue"
            BY <1>1, <2>2, TypeParts
        <3> QED
            BY <1>1, <1>2, <2>2, <2>3, <2>5, <2>6, <3>1, PlansNext DEF LaunchInv
    <2>10. WorkersKnown'
        BY <1>1, <1>2, <2>2, <2>5 DEF LaunchInv, WorkersKnown, AtJob, Started
    <2>11. LaunchInv'
        BY <1>1, <1>2, <2>9, <2>10 DEF LaunchInv, PendingHasAttempts, CompletedJobLaunched
    <2>12. FirstPlanned' /\ EscalationInv'
        BY <1>1, <2>5, <2>6, KeepsEscalation DEF FirstPlanned, Escalating
    <2> QED
        BY <2>7, <2>8, <2>11, <2>12, OwnershipParts
<1>4. CASE ~(StillPlanned(w) /\ worker[w].on \in Occurrences)
    <2>1. Rest(w) /\ UNCHANGED <<sched, hist>>
        BY <1>4 DEF ClaimOccurrence
    <2>2. CompletionInv' /\ StartedStay
        BY <1>1, <1>2, <2>1, KeepsCompletion DEF cmpvars, StartedStay, Started
    <2> QED
        BY <1>1, <1>2, <2>1, <2>2, WorkerRests, TypeParts, WorkerMovesKeep
           DEF PlaceKept, AtJob, Escalating
<1> QED
    BY <1>3, <1>4

LEMMA EnqueuesLaunch ==
    ASSUME OwnershipInv, NEW w \in Workers, EnqueueLaunch(w), UNCHANGED evars
    PROVE  OwnershipInv'
<1>1. OwnershipTypes /\ CompletionInv /\ LaunchInv /\ FirstPlanned /\ EscalationInv
    BY DEF OwnershipInv
<1>2. /\ UNCHANGED <<matched, clock, sched, policy, campaign, expired, assignment, req, hist>>
      /\ worker[w].place = "enqueue" /\ Rest(w)
    BY DEF EnqueueLaunch
<1>3. /\ worker' \in [Workers -> WorkerRow] /\ worker'[w].place = "idle"
      /\ \A v \in Workers : v # w => worker'[v] = worker[v]
    BY <1>1, <1>2, WorkerRests DEF OwnershipTypes
<1>4. CompletionInv' /\ StartedStay
    BY <1>1, <1>2, KeepsCompletion DEF cmpvars, StartedStay, Started
<1>5. CASE UNCHANGED <<queue, payload>>
    BY <1>1, <1>2, <1>3, <1>4, <1>5, TypeParts, WorkerMovesKeep
       DEF PlaceKept, AtJob, Escalating
<1>6. CASE \E j \in Jobs : Enqueue(j) /\ payload' = [payload EXCEPT ![j] = worker[w].on]
    <2>1. PICK j \in Jobs : Enqueue(j) /\ payload' = [payload EXCEPT ![j] = worker[w].on]
        BY <1>6
    <2>2. /\ QueueTypeOK' /\ PendingHasAttempts' /\ queue'[j].status # "absent"
          /\ queue'[j].status # "completed"
          /\ \A i \in Jobs : i # j => queue'[i] = queue[i]
        <3>1. ~Complete(j)
            BY <2>1 DEF Enqueue, Complete
        <3> QED
            BY <1>1, <2>1, <3>1, QueueMoves, TypeParts DEF LaunchInv
    <2>3. queue[j].status = "absent" /\ payload[j] = 0
        BY <1>1, <2>1 DEF Enqueue, LaunchInv, WorkersKnown, AbsentJob
    <2>4. worker[w].on \in Occurrences
        BY <1>1, <1>2 DEF LaunchInv, WorkersKnown
    <2>5. payload' \in [Jobs -> 0..MaxOccurrence] /\ \A i \in Jobs : i # j => payload'[i] = payload[i]
        BY <1>1, <2>1, <2>4, TypeParts, OwnershipAssumption DEF Occurrences
    <2>6. OwnershipTypes'
        BY <1>1, <1>2, <1>3, <2>2, <2>5, TypeParts, KeepsTypes
    <2>7. PlansCovered'
        BY <1>1, <1>2, <1>3, <2>1, <2>3, <2>4, TypeParts, PlansEnqueue DEF LaunchInv
    <2>8. WorkersKnown'
        <3>1. \A v \in Workers : worker[v].place \in AtJob => worker[v].job # j
            BY <1>1, <2>3 DEF LaunchInv, WorkersKnown
        <3> QED
            BY <1>1, <1>2, <1>3, <2>2, <2>5, <3>1 DEF LaunchInv, WorkersKnown, AtJob, Started
    <2>9. LaunchInv'
        BY <1>1, <1>2, <2>2, <2>5, <2>7, <2>8 DEF LaunchInv, CompletedJobLaunched
    <2>10. FirstPlanned' /\ EscalationInv'
        BY <1>1, <1>2, <1>3, KeepsEscalation DEF FirstPlanned, Escalating
    <2> QED
        BY <1>4, <2>6, <2>9, <2>10, OwnershipParts
<1> QED
    BY <1>5, <1>6 DEF EnqueueLaunch


\* A worker that takes up a job, or ends one.
LEMMA JobStepKeeps ==
    ASSUME OwnershipInv, NEW w \in Workers, NEW j \in Jobs, UNCHANGED evars,
           Claim(j) \/ Fail(j) \/ (Complete(j) /\ Started(payload[j])),
           UNCHANGED <<matched, clock, sched, policy, campaign, expired, assignment, payload, req, hist>>,
           worker' \in [Workers -> WorkerRow],
           worker'[w].place \in {"idle", "begin"},
           worker'[w].place = "begin" => worker'[w].job = j /\ worker'[w].on = payload[j],
           \A v \in Workers : v # w => worker'[v] = worker[v]
    PROVE  OwnershipInv'
<1>1. OwnershipTypes /\ CompletionInv /\ LaunchInv /\ FirstPlanned /\ EscalationInv
    BY DEF OwnershipInv
<1>2. QueueTypeOK'
    BY <1>1, QueueMoves, TypeParts DEF LaunchInv
<1>3. OwnershipTypes'
    BY <1>1, <1>2, TypeParts, KeepsTypes
<1>4. CompletionInv'
    BY <1>1, KeepsCompletion DEF cmpvars
<1>5. LaunchInv'
    BY <1>1, <1>3, QueueLaunches DEF AtJob
<1>6. FirstPlanned' /\ EscalationInv'
    BY <1>1, KeepsEscalation DEF FirstPlanned, Escalating
<1> QED
    BY <1>3, <1>4, <1>5, <1>6, OwnershipParts

LEMMA StartsJob ==
    ASSUME OwnershipInv, NEW w \in Workers, StartJob(w), UNCHANGED evars
    PROVE  OwnershipInv'
<1>1. OwnershipTypes
    BY DEF OwnershipInv
<1>2. PICK j \in Jobs :
        /\ Claim(j)
        /\ worker' = [worker EXCEPT ![w] = [place |-> "begin", job |-> j,
                                            on |-> payload[j], now |-> 0]]
    BY DEF StartJob
<1> DEFINE new == [place |-> "begin", job |-> j, on |-> payload[j], now |-> 0]
<1>3. new \in WorkerRow /\ new.place = "begin" /\ new.job = j /\ new.on = payload[j]
    BY <1>1, PayloadFields, OwnershipAssumption DEF WorkerRow, Places, AtJob
<1>4. worker' = [worker EXCEPT ![w] = new]
    BY <1>2
<1> HIDE DEF new
<1>5. /\ worker' \in [Workers -> WorkerRow] /\ worker'[w] = new
      /\ \A v \in Workers : v # w => worker'[v] = worker[v]
    BY <1>1, <1>3, <1>4, TypeParts
<1> QED
    BY <1>2, <1>3, <1>5, JobStepKeeps DEF StartJob

LEMMA EndsJob ==
    ASSUME OwnershipInv, NEW w \in Workers, JobEnds(w), UNCHANGED evars
    PROVE  OwnershipInv'
<1>1. OwnershipTypes /\ WorkersKnown
    BY DEF OwnershipInv, LaunchInv
<1>2. PICK j \in Jobs :
        /\ j = worker[w].job /\ worker[w].on = payload[j]
        /\ worker[w].place = "return" => Started(payload[j])
    BY <1>1 DEF JobEnds, WorkersKnown, AtJob
<1>3. Fail(j) \/ (Complete(j) /\ Started(payload[j]))
    BY <1>2 DEF JobEnds
<1>4. /\ worker' \in [Workers -> WorkerRow] /\ worker'[w].place = "idle"
      /\ \A v \in Workers : v # w => worker'[v] = worker[v]
    BY <1>1, WorkerRests DEF JobEnds, OwnershipTypes
<1> QED
    BY <1>3, <1>4, JobStepKeeps DEF JobEnds

LEMMA LooksCampaignUp ==
    ASSUME OwnershipInv, NEW w \in Workers, LookupCampaign(w), UNCHANGED evars
    PROVE  OwnershipInv'
<1>1. OwnershipTypes /\ CompletionInv /\ LaunchInv
    BY DEF OwnershipInv
<1>2. /\ UNCHANGED <<queue, matched, clock, sched, policy, campaign, expired, assignment, payload,
                     req, hist>>
      /\ worker[w].place = "begin"
    BY DEF LookupCampaign
<1>3. PICK place : /\ place = IF sched.state = "deleted" THEN "raise"
                                ELSE AfterLookup(campaign[worker[w].on])
                   /\ Go(w, place)
    BY DEF LookupCampaign
<1>4. worker[w].on \in Campaigns
    BY <1>1, <1>2, PayloadFields DEF LaunchInv, WorkersKnown, AtJob
<1>5. place \in AtJob /\ (place = "return" => Started(worker[w].on))
    BY <1>1, <1>3, <1>4, TypeParts DEF AfterLookup, AtJob, Started, CampaignStatuses
<1>6. /\ worker' \in [Workers -> WorkerRow] /\ worker'[w].place = place
      /\ worker'[w].job = worker[w].job /\ worker'[w].on = worker[w].on
      /\ \A v \in Workers : v # w => worker'[v] = worker[v]
    BY <1>1, <1>3, <1>5, WorkerGoes DEF OwnershipTypes, Places
<1>7. CompletionInv' /\ StartedStay
    BY <1>1, <1>2, KeepsCompletion DEF cmpvars, StartedStay, Started
<1>8. PlaceKept(w) /\ worker'[w].place \notin Escalating
    BY <1>2, <1>5, <1>6 DEF PlaceKept, AtJob, Started, Escalating
<1> QED
    BY <1>1, <1>2, <1>6, <1>7, <1>8, TypeParts, WorkerMovesKeep

LEMMA CampaignWorkKeeps ==
    ASSUME OwnershipInv, NEW w \in Workers, create_campaign(w) \/ launch_campaign(w),
           UNCHANGED evars
    PROVE  OwnershipInv'
<1>1. OwnershipTypes /\ CompletionInv /\ LaunchInv
    BY DEF OwnershipInv
<1>2. /\ UNCHANGED <<queue, matched, clock, sched, policy, expired, payload, req, hist>>
      /\ worker[w].place \in {"create", "launch"}
    BY DEF create_campaign, launch_campaign
<1>3. /\ CompletionInv' /\ campaign' \in [Campaigns -> CampaignStatuses]
      /\ assignment' \in [Campaigns -> [Assets -> AssignmentStatuses]]
    BY <1>1, WorkerCreates DEF LaunchInv
<1>4. PICK c \in Campaigns : c = worker[w].on
    BY <1>1, <1>2, PayloadFields DEF LaunchInv, WorkersKnown, AtJob
<1>5. PICK place \in {"launch", "dead", "raise", "return"} :
        /\ Go(w, place)
        /\ \/ UNCHANGED campaign /\ place # "return"
           \/ campaign[c] = "absent" /\ campaign' = [campaign EXCEPT ![c] = "draft"]
              /\ place # "return"
           \/ campaign' = [campaign EXCEPT ![c] = "active"]
    BY <1>4 DEF create_campaign, launch_campaign, Launched
<1>6. StartedStay /\ (place = "return" => Started(c)')
    BY <1>1, <1>5, TypeParts DEF StartedStay, Started
<1>7. /\ worker' \in [Workers -> WorkerRow] /\ worker'[w].place = place
      /\ worker'[w].job = worker[w].job /\ worker'[w].on = worker[w].on
      /\ \A v \in Workers : v # w => worker'[v] = worker[v]
    BY <1>1, <1>5, WorkerGoes DEF OwnershipTypes, Places, AtJob
<1>8. PlaceKept(w) /\ worker'[w].place \notin Escalating
    BY <1>2, <1>4, <1>6, <1>7 DEF PlaceKept, AtJob, Started, Escalating
<1> QED
    BY <1>1, <1>2, <1>3, <1>6, <1>7, <1>8, TypeParts, WorkerMovesKeep

LEMMA DyingKeeps ==
    ASSUME OwnershipInv, NEW w \in Workers, WorkerDies(w), UNCHANGED evars
    PROVE  OwnershipInv'
<1>1. OwnershipTypes /\ CompletionInv
    BY DEF OwnershipInv
<1>2. /\ UNCHANGED <<queue, matched, clock, sched, policy, campaign, expired, assignment, payload, req>>
      /\ Go(w, "dead") /\ hist' = [Count EXCEPT !.crashed = TRUE]
    BY DEF WorkerDies
<1>3. /\ hist' \in History /\ hist'.planned = hist.planned /\ hist'.overlap = hist.overlap
      /\ hist'.crashed
    BY <1>1, <1>2, HistoryMoves DEF OwnershipTypes
<1>4. /\ worker' \in [Workers -> WorkerRow] /\ worker'[w].place = "dead"
      /\ \A v \in Workers : v # w => worker'[v] = worker[v]
    BY <1>1, <1>2, WorkerGoes DEF OwnershipTypes, Places
<1>5. CompletionInv' /\ StartedStay
    BY <1>1, <1>2, <1>3, KeepsCompletion DEF cmpvars, StartedStay, Started
<1> QED
    BY <1>1, <1>2, <1>3, <1>4, <1>5, TypeParts, WorkerMovesKeep
       DEF PlaceKept, AtJob, Escalating

LEMMA StartingKeeps ==
    ASSUME OwnershipInv, NEW w \in Workers, WorkerStarts(w), UNCHANGED evars
    PROVE  OwnershipInv'
<1>1. OwnershipTypes /\ CompletionInv /\ LaunchInv /\ FirstPlanned /\ EscalationInv
    BY DEF OwnershipInv
<1>2. PICK lost \in SUBSET Jobs : Recover(lost)
    BY DEF WorkerStarts, Lost
<1>3. /\ UNCHANGED <<matched, clock, sched, policy, campaign, expired, assignment, payload, req, hist>>
      /\ Rest(w)
    BY DEF WorkerStarts
<1>4. /\ worker' \in [Workers -> WorkerRow] /\ worker'[w].place = "idle"
      /\ \A v \in Workers : v # w => worker'[v] = worker[v]
    BY <1>1, <1>3, WorkerRests DEF OwnershipTypes
<1>5. /\ QueueTypeOK' /\ PendingHasAttempts'
      /\ \A i \in Jobs : /\ queue'[i].status = "absent" <=> queue[i].status = "absent"
                         /\ queue'[i].status = "completed" => queue[i].status = "completed"
    BY <1>1, <1>2, QueueRecovers, TypeParts DEF LaunchInv
<1>6. OwnershipTypes'
    BY <1>1, <1>3, <1>4, <1>5, TypeParts, KeepsTypes
<1>7. CompletionInv'
    BY <1>1, <1>3, KeepsCompletion DEF cmpvars
<1>8. PlansCovered'
    BY <1>1, <1>3, <1>4, KeepsPlans DEF LaunchInv
<1>9. WorkersKnown' /\ CompletedJobLaunched'
    BY <1>1, <1>3, <1>4, <1>5 DEF LaunchInv, WorkersKnown, CompletedJobLaunched, AtJob, Started
<1>10. FirstPlanned' /\ EscalationInv'
    BY <1>1, <1>3, <1>4, KeepsEscalation DEF FirstPlanned, Escalating
<1> QED
    BY <1>5, <1>6, <1>7, <1>8, <1>9, <1>10, OwnershipParts DEF LaunchInv

LEMMA CampaignStepKeeps ==
    ASSUME OwnershipInv, CampaignStep
    PROVE  OwnershipInv'
<1>1. UNCHANGED evars /\ CampaignsNext
    BY DEF CampaignStep
<1>2. CASE OccurrenceComes \/ \E c \in Campaigns : DueDatePasses(c)
    BY <1>1, <1>2, ClockKeeps
<1>3. CASE Operators
    BY <1>1, <1>3, OperatorsKeep
<1>4. CASE \E r \in Requests : RequestStep(r) \/ RequestDies(r)
    BY <1>1, <1>4, RequestsKeep
<1>5. CASE \E w \in Workers : LaunchStep(w) \/ WorkerDies(w) \/ WorkerStarts(w)
    BY <1>1, <1>5, SelectsDue, ReloadsDue, ClaimsOccurrence, EnqueuesLaunch, StartsJob,
       LooksCampaignUp, CampaignWorkKeeps, EndsJob, DyingKeeps, StartingKeeps DEF LaunchStep
<1> QED
    BY <1>1, <1>2, <1>3, <1>4, <1>5 DEF CampaignsNext


-----------------------------------------------------------------------------
(***************************************************************************)
(* The steps of escalations.                                               *)
(***************************************************************************)
\* They leave campaigns and launches as they are.
LEMMA EscalationMovesKeep ==
    ASSUME OwnershipInv, EscalationInv',
           UNCHANGED <<queue, matched, clock, sched, policy, campaign, expired, assignment, payload, req>>,
           hist' = hist \/ hist' = Count, worker' \in [Workers -> WorkerRow],
           \A w \in Workers :
              worker'[w] = worker[w] \/ worker'[w].place \notin AtJob \cup {"enqueue"},
           others' \in [Earlier -> OtherStatuses],
           overdue' \in BOOLEAN, event' \in [status : EventStatuses, ready : BOOLEAN],
           delivery' \in BOOLEAN, jobsent' \in BOOLEAN, taken' \in BOOLEAN
    PROVE  OwnershipInv'
<1>1. OwnershipTypes /\ CompletionInv /\ LaunchInv /\ FirstPlanned
    BY DEF OwnershipInv
<1>2. /\ hist' \in History /\ hist'.planned = hist.planned /\ hist'.overlap = hist.overlap
      /\ hist'.crashed = hist.crashed
    BY <1>1, HistoryMoves DEF OwnershipTypes
<1>3. CampaignsTypeOK' /\ req' \in [Requests -> RequestRow]
    BY <1>1, TypeParts DEF CampaignsTypeOK, QueueTypeOK
<1>4. TypeOK'
    BY <1>3, Zenon DEF TypeOK, OtherStatuses
<1>5. OwnershipTypes'
    BY <1>2, <1>3, <1>4 DEF OwnershipTypes
<1>6. CompletionInv'
    BY <1>1, <1>2, KeepsCompletion DEF cmpvars
<1>7. LaunchInv'
    BY <1>1, <1>2, <1>5, KeepsLaunches DEF StartedStay, Started
<1>8. FirstPlanned'
    BY <1>1 DEF FirstPlanned
<1> QED
    BY <1>5, <1>6, <1>7, <1>8, OwnershipParts

LEMMA EscalationTypes ==
    ASSUME OwnershipTypes
    PROVE  /\ overdue \in BOOLEAN /\ delivery \in BOOLEAN /\ jobsent \in BOOLEAN
           /\ taken \in BOOLEAN /\ event \in [status : EventStatuses, ready : BOOLEAN]
           /\ others \in [Earlier -> OtherStatuses]
BY Zenon DEF OwnershipTypes, TypeOK, OtherStatuses

LEMMA StepsFrom ==
    ASSUME OwnershipTypes, NEW w \in Workers, NEW from, NEW to \in Places, StepFrom(w, from, to)
    PROVE  /\ UNCHANGED <<queue, matched, clock, sched, policy, campaign, expired, assignment, payload,
                          req, hist>>
           /\ worker[w].place = from
           /\ worker' \in [Workers -> WorkerRow] /\ worker'[w].place = to
           /\ \A v \in Workers : v # w => worker'[v] = worker[v]
BY TypeParts, WorkerGoes, WorkerRests DEF StepFrom

\* The clock and other campaigns move no worker.
LEMMA ClockEscalates ==
    ASSUME OwnershipInv, StageDue \/ AttemptDue \/ \E c \in Earlier : EarlierChanges(c)
    PROVE  OwnershipInv'
<1>1. OwnershipTypes /\ EscalationInv
    BY DEF OwnershipInv
<1>2. /\ UNCHANGED <<queue, matched, clock, sched, policy, campaign, expired, assignment,
                     payload, worker, req, delivery, jobsent, taken>>
      /\ hist' = hist \/ hist' = Count
    BY DEF StageDue, AttemptDue, EarlierChanges, cvars
<1>3. /\ event'.status = event.status /\ overdue' \in BOOLEAN
      /\ event' \in [status : EventStatuses, ready : BOOLEAN]
      /\ others' \in [Earlier -> OtherStatuses]
    <2>1. CASE StageDue
        BY <1>1, <2>1, EscalationTypes DEF StageDue
    <2>2. CASE AttemptDue
        BY <1>1, <2>2, EscalationTypes DEF AttemptDue
    <2>3. CASE \E c \in Earlier : EarlierChanges(c)
        BY <1>1, <2>3, EscalationTypes DEF EarlierChanges, OtherStatuses
    <2> QED
        BY <2>1, <2>2, <2>3
<1>4. EscalationInv'
    BY <1>1, <1>2, <1>3 DEF EscalationInv, Sent
<1> QED
    BY <1>1, <1>2, <1>3, <1>4, TypeParts, EscalationTypes, EscalationMovesKeep

\* Steps on the way to the claim, which leave the event to those who have it.
LEMMA ApproachKeeps ==
    ASSUME OwnershipInv, NEW w \in Workers,
           \/ enqueue_due_ownership_escalations(w) \/ ExpireClaim(w)
           \/ LookupEvent(w) \/ InsertEvent(w)
    PROVE  OwnershipInv'
<1>1. OwnershipTypes /\ EscalationInv
    BY DEF OwnershipInv
<1>2. PICK from, to \in {"expire", "lookup", "idle", "insert", "take"} : StepFrom(w, from, to)
    BY DEF enqueue_due_ownership_escalations, ExpireClaim, LookupEvent, InsertEvent
<1>3. /\ UNCHANGED <<queue, matched, clock, sched, policy, campaign, expired, assignment, payload,
                     req, hist>>
      /\ worker' \in [Workers -> WorkerRow] /\ worker'[w].place = to
      /\ \A v \in Workers : v # w => worker'[v] = worker[v]
    BY <1>1, <1>2, StepsFrom DEF Places
<1>4. /\ UNCHANGED <<others, overdue, delivery, jobsent>>
      /\ event' \in [status : EventStatuses, ready : BOOLEAN] /\ taken' \in BOOLEAN
      /\ event'.status = "queued" => event.status = "queued"
      /\ ~taken' => ~taken /\ (event.status = "running" => event' = event)
    <2>1. CASE enqueue_due_ownership_escalations(w) \/ LookupEvent(w)
        <3>1. UNCHANGED evars
            BY <2>1 DEF enqueue_due_ownership_escalations, LookupEvent
        <3> QED
            BY <1>1, <3>1, EscalationTypes DEF evars
    <2>2. CASE ExpireClaim(w)
        <3>1. event' = Expired(event) /\ taken' = (taken \/ event' # event)
              /\ UNCHANGED <<others, overdue, delivery, jobsent>>
            BY <2>2 DEF ExpireClaim
        <3>2. taken' \in BOOLEAN /\ (~taken' => ~taken /\ event' = event)
            BY <1>1, <3>1, EscalationTypes
        <3>3. PICK e \in [status : EventStatuses, ready : BOOLEAN] : e = event
            BY <1>1, EscalationTypes
        <3>4. /\ Expired(e) \in [status : EventStatuses, ready : BOOLEAN]
              /\ Expired(e).status = "queued" => e.status = "queued"
            BY DEF Expired, EventStatuses
        <3> QED
            BY <3>1, <3>2, <3>3, <3>4
    <2>3. CASE InsertEvent(w)
        <3>1. \/ UNCHANGED event
              \/ event.status = "absent" /\ event' = [event EXCEPT !.status = "pending"]
            BY <2>3 DEF InsertEvent
        <3>2. UNCHANGED <<others, overdue, delivery, jobsent, taken>>
            BY <2>3 DEF InsertEvent
        <3>3. /\ event' \in [status : EventStatuses, ready : BOOLEAN]
              /\ event'.status = "queued" => event.status = "queued"
              /\ event.status = "running" => event' = event
            BY <1>1, <3>1, EscalationTypes DEF EventStatuses
        <3> QED
            BY <1>1, <3>2, <3>3, EscalationTypes
    <2> QED
        BY <2>1, <2>2, <2>3
<1>5. \A v \in Workers : worker'[v].place \in Escalating => worker'[v] = worker[v]
    BY <1>3 DEF Escalating
<1>6. EscalationInv'
    BY <1>1, <1>3, <1>4, <1>5 DEF EscalationInv, Sent, Escalating
<1> QED
    BY <1>1, <1>3, <1>4, <1>6, EscalationTypes, EscalationMovesKeep DEF AtJob


\* A claim that succeeds finds nobody with the event.
LEMMA ClaimsEvent ==
    ASSUME OwnershipInv, NEW w \in Workers, ClaimEvent(w)
    PROVE  OwnershipInv'
<1>1. OwnershipTypes /\ EscalationInv
    BY DEF OwnershipInv
<1>2. UNCHANGED <<others, overdue, delivery, jobsent, taken>>
    BY DEF ClaimEvent
<1>3. CASE ~Claimable(event)
    <2>1. StepFrom(w, "take", "idle") /\ UNCHANGED event
        BY <1>3 DEF ClaimEvent
    <2>2. /\ UNCHANGED <<queue, matched, clock, sched, policy, campaign, expired, assignment, payload,
                         req, hist>>
          /\ worker' \in [Workers -> WorkerRow] /\ worker'[w].place = "idle"
          /\ \A v \in Workers : v # w => worker'[v] = worker[v]
        BY <1>1, <2>1, StepsFrom DEF Places
    <2>3. EscalationInv'
        BY <1>1, <1>2, <2>1, <2>2, KeepsEscalation DEF evars, Escalating
    <2> QED
        BY <1>1, <1>2, <2>1, <2>2, <2>3, EscalationTypes, EscalationMovesKeep DEF AtJob
<1>4. CASE Claimable(event)
    <2>1. /\ StepFrom(w, "take", "deliver")
          /\ event' = [status |-> "running", ready |-> FALSE]
          /\ event.status \in {"pending", "failed"}
        BY <1>4 DEF ClaimEvent, Claimable
    <2>2. /\ UNCHANGED <<queue, matched, clock, sched, policy, campaign, expired, assignment, payload,
                         req, hist>>
          /\ worker' \in [Workers -> WorkerRow] /\ worker'[w].place = "deliver"
          /\ \A v \in Workers : v # w => worker'[v] = worker[v]
        BY <1>1, <2>1, StepsFrom DEF Places, Escalating
    <2>3. event'.status = "running" /\ event' \in [status : EventStatuses, ready : BOOLEAN]
        BY <2>1 DEF EventStatuses
    <2>4. ~taken => \A v \in Workers : worker[v].place \notin Escalating
        BY <1>1, <2>1 DEF EscalationInv
    <2>5. EscalationInv'
        BY <1>1, <1>2, <2>2, <2>3, <2>4 DEF EscalationInv, Sent, Escalating
    <2> QED
        BY <1>1, <1>2, <2>2, <2>3, <2>5, EscalationTypes, EscalationMovesKeep DEF AtJob
<1> QED
    BY <1>3, <1>4

\* The three commits of _queue_escalation_stage.
LEMMA StageKeeps ==
    ASSUME OwnershipInv, NEW w \in Workers,
           InsertDelivery(w) \/ EnqueueDelivery(w) \/ MarkQueued(w)
    PROVE  OwnershipInv'
<1>1. OwnershipTypes /\ EscalationInv
    BY DEF OwnershipInv
<1>2. UNCHANGED <<others, overdue, taken>>
    BY DEF InsertDelivery, EnqueueDelivery, MarkQueued
<1>3. PICK from \in Escalating, to \in {"send", "mark", "idle"} :
        /\ StepFrom(w, from, to)
        /\ to = "send" => delivery'
        /\ to = "mark" => from = "send" /\ jobsent'
        /\ to = "idle" => from = "mark"
        /\ delivery' = delivery \/ delivery' = TRUE
        /\ jobsent' = jobsent \/ jobsent' = TRUE
        /\ event' = event \/ (to = "idle" /\ event' = [event EXCEPT !.status = "queued"])
    <2>1. CASE InsertDelivery(w)
        <3>1. /\ StepFrom(w, "deliver", "send") /\ delivery' = TRUE
              /\ UNCHANGED <<event, jobsent>>
            BY <2>1 DEF InsertDelivery, AfterDelivery
        <3> QED
            BY <3>1 DEF Escalating
    <2>2. CASE EnqueueDelivery(w)
        <3>1. /\ StepFrom(w, "send", "mark") /\ jobsent' = TRUE
              /\ UNCHANGED <<event, delivery>>
            BY <2>2 DEF EnqueueDelivery
        <3> QED
            BY <3>1 DEF Escalating
    <2>3. CASE MarkQueued(w)
        BY <2>3 DEF MarkQueued, Escalating
    <2> QED
        BY <2>1, <2>2, <2>3
<1>4. /\ UNCHANGED <<queue, matched, clock, sched, policy, campaign, expired, assignment, payload,
                     req, hist>>
      /\ worker[w].place = from
      /\ worker' \in [Workers -> WorkerRow] /\ worker'[w].place = to
      /\ \A v \in Workers : v # w => worker'[v] = worker[v]
    BY <1>1, <1>3, StepsFrom DEF Places, Escalating
<1>5. /\ event' \in [status : EventStatuses, ready : BOOLEAN]
      /\ event' = event \/ (to = "idle" /\ event'.status = "queued")
    BY <1>1, <1>3, EscalationTypes DEF EventStatuses
<1>6. delivery' \in BOOLEAN /\ jobsent' \in BOOLEAN
    BY <1>1, <1>3, EscalationTypes
<1>7. /\ event'.status = "queued" => Sent'
      /\ \A v \in Workers : /\ worker'[v].place = "send" => delivery'
                            /\ worker'[v].place = "mark" => Sent'
    BY <1>1, <1>3, <1>4, <1>5 DEF EscalationInv, Sent
<1>8. ~taken' => \A v \in Workers : worker'[v].place \in Escalating => event'.status = "running"
    <2>1. CASE event' = event
        BY <1>1, <1>2, <1>4, <2>1 DEF EscalationInv
    <2>2. CASE to = "idle"
        BY <1>1, <1>2, <1>4, <2>2 DEF EscalationInv, Escalating
    <2> QED
        BY <1>5, <2>1, <2>2
<1>9. ~taken' => \A v, u \in Workers :
        worker'[v].place \in Escalating /\ worker'[u].place \in Escalating => v = u
    BY <1>1, <1>2, <1>4 DEF EscalationInv
<1>10. EscalationInv'
    BY <1>7, <1>8, <1>9 DEF EscalationInv
<1> QED
    BY <1>1, <1>2, <1>4, <1>5, <1>6, <1>10, EscalationTypes, EscalationMovesKeep
       DEF AtJob

LEMMA FailingKeeps ==
    ASSUME OwnershipInv, NEW w \in Workers, QueueingFails(w)
    PROVE  OwnershipInv'
<1>1. OwnershipTypes /\ EscalationInv
    BY DEF OwnershipInv
<1>2. /\ UNCHANGED <<queue, matched, clock, sched, policy, campaign, expired, assignment, payload, req,
                     others, overdue, delivery, jobsent, taken>>
      /\ hist' = Count /\ Rest(w) /\ event' = [status |-> "failed", ready |-> FALSE]
      /\ worker[w].place \in Escalating
    BY DEF QueueingFails, Escalating
<1>3. /\ worker' \in [Workers -> WorkerRow] /\ worker'[w].place = "idle"
      /\ \A v \in Workers : v # w => worker'[v] = worker[v]
    BY <1>1, <1>2, WorkerRests DEF OwnershipTypes
<1>4. event'.status = "failed" /\ event' \in [status : EventStatuses, ready : BOOLEAN]
    BY <1>2 DEF EventStatuses
<1>5. ~taken' => \A v \in Workers : worker'[v].place \notin Escalating
    BY <1>1, <1>2, <1>3 DEF EscalationInv, Escalating
<1>6. EscalationInv'
    BY <1>1, <1>2, <1>3, <1>4, <1>5 DEF EscalationInv, Sent, Escalating
<1> QED
    BY <1>1, <1>2, <1>3, <1>4, <1>6, EscalationTypes, EscalationMovesKeep DEF AtJob

-----------------------------------------------------------------------------
(***************************************************************************)
(* The theorems.                                                           *)
(***************************************************************************)
LEMMA InitOwnership == Init => OwnershipInv
<1> SUFFICES ASSUME Init PROVE OwnershipInv
    OBVIOUS
<1>1. PICK state \in {"absent", "deleted"}, status \in {"absent", "active"} :
        Start(state, status) /\ matched \subseteq Assets
    BY DEF Init, CampaignsInit, CampaignsInitLaunched
<1>2. QueueTypeOK
    BY <1>1, OwnershipAssumption DEF Start, QueueInit, AbsentJob, QueueTypeOK, JobStatuses
<1>3. /\ clock \in 0..MaxOccurrence /\ policy \in BOOLEAN
      /\ sched \in [state : {"absent", "enabled", "disabled", "deleted"},
                    next : 1..(MaxOccurrence + 1)]
      /\ sched.next = 1
    BY <1>1, OwnershipAssumption DEF Start
<1>4. campaign \in [Campaigns -> CampaignStatuses] /\ expired \subseteq Campaigns
    BY <1>1 DEF Start, CampaignStatuses
<1>5. assignment \in [Campaigns -> [Assets -> AssignmentStatuses]]
    BY <1>1 DEF Start, AssignmentStatuses, OPEN
<1>6. payload \in [Jobs -> 0..MaxOccurrence]
    BY <1>1, OwnershipAssumption DEF Start
<1>7. worker \in [Workers -> WorkerRow] /\ req \in [Requests -> RequestRow]
    BY <1>1, IdleRows DEF Start
<1>8. hist \in History
    BY <1>1 DEF Start, History
<1>9. /\ overdue \in BOOLEAN /\ delivery \in BOOLEAN /\ jobsent \in BOOLEAN
      /\ taken = FALSE /\ event.status = "absent"
      /\ others \in [Earlier -> OtherStatuses]
      /\ event \in [status : EventStatuses, ready : BOOLEAN]
    BY DEF Init, NoEvent, EventStatuses, OtherStatuses
<1>10. OwnershipTypes
    BY <1>1, <1>2, <1>3, <1>4, <1>5, <1>6, <1>7, <1>8, <1>9
       DEF OwnershipTypes, TypeOK, CampaignsTypeOK, OtherStatuses
<1>11. \A w \in Workers : worker[w].place = "idle"
    BY <1>1 DEF Start, IdleWorker
<1>12. EscalationInv
    BY <1>9, <1>11 DEF EscalationInv, Escalating
<1> QED
    BY <1>3, <1>10, <1>12, InitCompletion, InitLaunch DEF OwnershipInv, FirstPlanned

LEMMA NextOwnership == OwnershipInv /\ [Next]_vars => OwnershipInv'
<1> SUFFICES ASSUME OwnershipInv, [Next]_vars PROVE OwnershipInv'
    OBVIOUS
<1>1. CASE CampaignStep
    BY <1>1, CampaignStepKeeps
<1>2. CASE StageDue \/ AttemptDue \/ \E c \in Earlier : EarlierChanges(c)
    BY <1>2, ClockEscalates
<1>3. CASE \E w \in Workers : EscalationStep(w)
    BY <1>3, ApproachKeeps, ClaimsEvent, StageKeeps, FailingKeeps DEF EscalationStep
<1>4. CASE UNCHANGED vars
    <2>1. UNCHANGED <<queue, matched, clock, sched, policy, campaign, expired, assignment,
                      payload, worker, req, hist, evars>>
        BY <1>4 DEF vars, cvars
    <2> QED
        BY <2>1, TypeParts, EditsKeep DEF OwnershipInv
<1> QED
    BY <1>1, <1>2, <1>3, <1>4 DEF Next

\* What is recorded as queued was sent, and stays queued unless a claim was taken.
LEMMA NextQueuedIsSent ==
    OwnershipInv /\ OwnershipInv' /\ [Next]_vars =>
        [/\ event'.status = "queued" => delivery' /\ jobsent'
         /\ event.status = "queued" => event'.status = "queued" \/ taken]_vars
<1> SUFFICES ASSUME OwnershipInv, OwnershipInv', Next, event.status = "queued", ~taken
             PROVE  event'.status = "queued"
    BY DEF OwnershipInv, EscalationInv, Sent
<1>1. OwnershipTypes /\ EscalationInv
    BY DEF OwnershipInv
<1>2. CASE CampaignStep \/ StageDue
    BY <1>2 DEF CampaignStep, StageDue, evars
<1>3. CASE AttemptDue \/ \E c \in Earlier : EarlierChanges(c)
    BY <1>3 DEF AttemptDue, EarlierChanges
<1>4. CASE \E w \in Workers : EscalationStep(w)
    <2>1. PICK w \in Workers : EscalationStep(w)
        BY <1>4
    <2>2. CASE enqueue_due_ownership_escalations(w) \/ LookupEvent(w)
        BY <2>2 DEF enqueue_due_ownership_escalations, LookupEvent, evars
    <2>3. CASE ExpireClaim(w)
        BY <2>3 DEF ExpireClaim, Expired
    <2>4. CASE InsertEvent(w)
        BY <2>4 DEF InsertEvent
    <2>5. CASE ClaimEvent(w)
        BY <2>5 DEF ClaimEvent, Claimable
    <2>6. CASE InsertDelivery(w) \/ EnqueueDelivery(w)
        BY <2>6 DEF InsertDelivery, EnqueueDelivery
    <2>7. CASE MarkQueued(w)
        BY <1>1, <2>7, EscalationTypes DEF MarkQueued
    <2>8. CASE QueueingFails(w)
        <3>1. worker[w].place \in Escalating
            BY <2>8 DEF QueueingFails, Escalating
        <3> QED
            BY <1>1, <3>1 DEF EscalationInv
    <2> QED
        BY <2>1, <2>2, <2>3, <2>4, <2>5, <2>6, <2>7, <2>8 DEF EscalationStep
<1> QED
    BY <1>2, <1>3, <1>4 DEF Next

\* The invariant of campaigns, of the jobs that launch them (JobQueue of
\* app/jobs.py) and of the events of _queue_escalation_stage, for any number of
\* workers and of requests of the API: among the rest its types.
THEOREM OwnershipInvariant == Spec => []OwnershipInv
<1>1. Init => OwnershipInv
    BY InitOwnership
<1>2. OwnershipInv /\ [Next]_vars => OwnershipInv'
    BY NextOwnership
<1> QED
    BY <1>1, <1>2, PTL DEF Spec

\* _complete_campaign_if_ready completes a campaign with its last decision: a
\* completed campaign has nothing left to decide, unless two decisions on one
\* assignment overlapped, and none stays active with all decided, unless a
\* process died, however many decisions are committed side by side.
THEOREM CampaignsComplete == Spec => []CompletionIsExact
<1>1. OwnershipInv => CompletionIsExact
    BY DEF OwnershipInv, CompletionInv
<1> QED
    BY <1>1, OwnershipInvariant, PTL

\* enqueue_due_ownership_campaigns enqueues at most one job each time an occurrence
\* is planned, and execute_scheduled_campaign has launched its campaign when the
\* job is completed, through any interleaving of passes, edits and crashes.
THEOREM CampaignsLaunch == Spec => []LaunchesOnce
<1>1. OwnershipInv => LaunchesOnce
    <2> SUFFICES ASSUME OwnershipInv PROVE LaunchesOnce
        OBVIOUS
    <2>1. OwnershipTypes /\ PlansCovered /\ CompletedJobLaunched
        BY DEF OwnershipInv, LaunchInv
    <2>2. ASSUME NEW o \in Occurrences
          PROVE  Cardinality({j \in Jobs : payload[j] = o}) <= hist.planned[o]
        <3>1. /\ IsFiniteSet(JobsOf(o)) /\ IsFiniteSet(PassesOf(o))
              /\ Cardinality(JobsOf(o)) + Cardinality(PassesOf(o)) + IsNext(o)
                    <= hist.planned[o]
            BY <2>1 DEF PlansCovered
        <3>2. /\ Cardinality(JobsOf(o)) \in Nat /\ Cardinality(PassesOf(o)) \in Nat
              /\ IsNext(o) \in Nat /\ hist.planned[o] \in Nat
            BY <2>1, <3>1, FS_CardinalityType DEF IsNext, OwnershipTypes, History
        <3>3. Cardinality(JobsOf(o)) <= hist.planned[o]
            BY <3>1, <3>2
        <3> QED
            BY <3>3 DEF JobsOf
    <2> QED
        BY <2>1, <2>2 DEF LaunchesOnce, OneJobPerPlan
<1> QED
    BY <1>1, OwnershipInvariant, PTL

\* _queue_escalation_stage records a stage as queued with its delivery and a job
\* for it, whichever of its commits workers died between; a queued stage is not
\* set back, unless a claim was taken over from a worker that was only slow.
THEOREM StagesSent == Spec => QueuedIsSent
<1>1. OwnershipInv /\ OwnershipInv' /\ [Next]_vars =>
        [/\ event'.status = "queued" => delivery' /\ jobsent'
         /\ event.status = "queued" => event'.status = "queued" \/ taken]_vars
    BY NextQueuedIsSent
<1> QED
    BY <1>1, OwnershipInvariant, PTL DEF Spec, QueuedIsSent
=============================================================================
