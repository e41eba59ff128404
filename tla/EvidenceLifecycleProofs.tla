----------------------- MODULE EvidenceLifecycleProofs -----------------------
(***************************************************************************)
(* Legal holds and the two-person rule hold for any number of records,     *)
(* dispositions, review tasks, jobs, overlapping requests and crashes:     *)
(* EvidenceInv is inductive, implies ApprovalDecides and makes every step  *)
(* respect the holds.                                                      *)
(*                                                                         *)
(* Exports and packages contain what their rows say, and a package that is *)
(* trusted is genuine, for any number of jobs, workers, sinks, categories  *)
(* and records: ArtifactsInv is inductive.                                 *)
(***************************************************************************)
EXTENDS EvidenceLifecycle, Artifacts, FiniteSetTheorems, SequenceTheorems,
        WellFoundedInduction, TLAPS

RequestRow ==
    [kind : Kinds, place : {"idle", "commit", "review", "enqueue", "delete"},
     about : Dispositions \cup {"none"}, on : Evidence \cup {"none"},
     by : Identities \cup {NoOne}, task : Tasks \cup {"none"},
     copy : OPEN_STATUSES \cup {"none"}, set : {"none", "hold", "release", "extend"}]

Types == TypeOK /\ req \in [Requests -> RequestRow]

\* approve_disposition lets an identity approve what a row's creator asked for.
MayApprove(d, i) == disp[d].by # i \/ i = Development

\* What a request in flight carries.
RequestCarries(r) ==
    /\ req[r].kind \in {"idle", "govern", "delete"} => req[r].about = "none"
    /\ req[r].kind = "idle" => req[r].place = "idle"
    /\ req[r].kind = "request" =>
        \/ req[r].place = "commit" /\ req[r].about = "none"
            /\ req[r].on \in Evidence /\ req[r].by \in Identities
        \/ req[r].place = "review" /\ req[r].about \in Dispositions
    /\ req[r].kind \in {"approve", "reject"} => req[r].about \in Dispositions
    /\ req[r].kind = "approve" =>
        /\ req[r].place \in {"commit", "review", "enqueue"}
        /\ req[r].by \in Identities
        /\ MayApprove(req[r].about, req[r].by)
    /\ req[r].kind = "reject" => req[r].place \in {"commit", "review"}
    /\ req[r].kind \in {"govern", "delete"} => req[r].on \in Evidence
    /\ req[r].kind = "govern" => req[r].place = "commit" /\ req[r].set # "none"
    /\ req[r].kind = "delete" =>
        req[r].place \in {"delete", "commit"} /\ ~conf.approval
    /\ req[r].kind = "assign" =>
        /\ req[r].place = "commit"
        /\ req[r].task \in Tasks
        /\ req[r].about \in Dispositions
        /\ tasks[req[r].task].subject = req[r].about
    /\ req[r].about \in Dispositions => disp[req[r].about].status # "absent"

RequestsCarry == \A r \in Requests : RequestCarries(r)

\* Two requests on one disposition have met; one that was alone, and has not
\* committed a decision, still finds it pending.
RequestsMeet ==
    /\ \A r, q \in Requests :
        r # q /\ req[r].about = req[q].about /\ req[r].about # "none"
            => req[r].about \in hist.met
    /\ \A r \in Requests :
        /\ \/ req[r].kind \in {"approve", "reject"} /\ req[r].place = "commit"
           \/ req[r].kind = "request" /\ req[r].place = "review"
           \/ req[r].kind = "assign" /\ hist.crashes = 0
        => disp[req[r].about].status = "pending" \/ req[r].about \in hist.met

\* A decided disposition with the approval of a second identity.
Sanctioned(d) ==
    /\ disp[d].status \in {"approved", "executed", "rejected"}
    /\ disp[d].approver # NoOne
    /\ disp[d].approver # disp[d].by \/ disp[d].by = Development
    /\ d \in hist.rejected => d \in hist.met

DispositionsDecided ==
    \A d \in Dispositions :
        /\ disp[d].status # "absent" => disp[d].evidence \in Evidence
        /\ disp[d].status \in {"approved", "executed"} => Sanctioned(d)
        /\ d \in hist.rejected => disp[d].status = "rejected" \/ d \in hist.met

\* What a handler past its tests still knows.
JobKnows(j) ==
    /\ queue[j].status # "absent" => payload[j] \in Dispositions \cup {"retention"}
    /\ exec[j].place # "idle" => queue[j].status = "running"
    /\ exec[j].place \in {"verify", "delete", "commit"} =>
        IF payload[j] = "retention"
        THEN ~conf.approval
        ELSE /\ Sanctioned(payload[j])
             /\ \A e \in exec[j].batch : e = disp[payload[j]].evidence

JobsSanctioned == \A j \in Jobs : JobKnows(j)

\* Between its test and its deletion a record is held only by a late hold.
HoldsSeen ==
    \A e \in Evidence : Deleting(e) => ~records[e].hold \/ e \in hist.late

DeletedWasSanctioned ==
    conf.approval =>
        \A e \in Evidence : ~object[e].exists =>
            \E d \in Dispositions : disp[d].evidence = e /\ Sanctioned(d)

TasksHaveSubjects ==
    \A t \in Tasks : tasks[t].subject \in Dispositions =>
        disp[tasks[t].subject].status # "absent"

QueueCounts == \A j \in Jobs : queue[j].status = "pending" => queue[j].attempts < MaxAttempts

EvidenceInv ==
    /\ Types
    /\ RequestsCarry
    /\ RequestsMeet
    /\ DispositionsDecided
    /\ JobsSanctioned
    /\ HoldsSeen
    /\ DeletedWasSanctioned
    /\ TasksHaveSubjects
    /\ QueueCounts
    /\ ReviewsClose


-----------------------------------------------------------------------------
LEMMA RowTypes ==
    /\ AbsentDisposition \in Disposition
    /\ Idle \in Handler
    /\ NoRequest \in RequestRow
    /\ NoTask \in Task
BY DEF AbsentDisposition, Disposition, DispositionStatuses, Idle, Handler, Places, NoRequest,
    RequestRow, Kinds, NoTask, Task, TaskStatuses, NoOne

\* What the queue does for one job.
LEMMA QueueSteps ==
    ASSUME QueueTypeOK, QueueCounts, NEW j \in Jobs,
           \/ Enqueue(j) \/ Claim(j) \/ Complete(j) \/ Fail(j) \/ Recover({j})
           \/ Cancel(j) \/ Retry(j)
    PROVE  /\ QueueTypeOK' /\ QueueCounts'
           /\ \A i \in Jobs \ {j} : queue'[i] = queue[i]
           /\ queue'[j].status # "absent"
<1> DEFINE Row == [status : JobStatuses, attempts : 0..MaxAttempts]
<1>0. /\ queue \in [Jobs -> Row] /\ queue[j] \in Row
      /\ queue[j].attempts \in 0..MaxAttempts
      /\ MaxAttempts \in Nat \ {0}
    BY EvidenceAssumption DEF QueueTypeOK
<1>a. ASSUME NEW new \in Row, new.status # "absent",
             new.status = "pending" => new.attempts < MaxAttempts,
             queue' = [queue EXCEPT ![j] = new]
      PROVE  /\ QueueTypeOK' /\ QueueCounts'
             /\ \A i \in Jobs \ {j} : queue'[i] = queue[i]
             /\ queue'[j].status # "absent"
    <2>1. /\ queue' \in [Jobs -> Row]
          /\ queue'[j] = new
          /\ \A i \in Jobs \ {j} : queue'[i] = queue[i]
        BY <1>0, <1>a
    <2> HIDE DEF Row
    <2>2. QueueCounts'
        BY <1>a, <2>1 DEF QueueCounts
    <2>3. QueueTypeOK'
        BY <2>1 DEF QueueTypeOK, Row
    <2> QED
        BY <1>a, <2>1, <2>2, <2>3
<1>f. /\ AfterFailure(queue[j]) \in Row
      /\ AfterFailure(queue[j]).status \in {"failed", "pending"}
      /\ AfterFailure(queue[j]).status = "pending" =>
            AfterFailure(queue[j]).attempts < MaxAttempts
    BY <1>0 DEF AfterFailure, JobStatuses
<1>1. CASE Enqueue(j)
    <2> DEFINE new == [status |-> "pending", attempts |-> 0]
    <2>1. /\ new \in Row /\ new.status # "absent"
          /\ new.status = "pending" => new.attempts < MaxAttempts
        BY <1>0, <1>1 DEF Enqueue, QueueCounts, JobStatuses
    <2>2. queue' = [queue EXCEPT ![j] = new]
        BY <1>1 DEF Enqueue
    <2> HIDE DEF Row, new
    <2> QED
        BY <1>a, <2>1, <2>2
<1>2. CASE Claim(j)
    <2> DEFINE new == [status |-> "running", attempts |-> queue[j].attempts + 1]
    <2>1. /\ new \in Row /\ new.status # "absent"
          /\ new.status = "pending" => new.attempts < MaxAttempts
        BY <1>0, <1>2 DEF Claim, QueueCounts, JobStatuses
    <2>2. queue' = [queue EXCEPT ![j] = new]
        BY <1>2 DEF Claim
    <2> HIDE DEF Row, new
    <2> QED
        BY <1>a, <2>1, <2>2
<1>3. CASE Complete(j)
    <2>1. [queue[j] EXCEPT !.status = "completed"] \in Row
        BY <1>0 DEF JobStatuses
    <2>2. [queue[j] EXCEPT !.status = "completed"].status = "completed"
        BY <1>0
    <2>3. queue' = [queue EXCEPT ![j] = [queue[j] EXCEPT !.status = "completed"]]
        BY <1>0, <1>3 DEF Complete
    <2> HIDE DEF Row
    <2> QED
        BY <1>a, <2>1, <2>2, <2>3
<1>4. CASE Fail(j)
    <2>1. queue' = [queue EXCEPT ![j] = AfterFailure(queue[j])]
        BY <1>4 DEF Fail
    <2> HIDE DEF Row
    <2> QED
        BY <1>a, <1>f, <2>1
<1>5. CASE Recover({j})
    <2>1. queue' = [queue EXCEPT ![j] = AfterFailure(queue[j])]
        <3>1. queue' = [i \in Jobs |-> IF i \in {j} THEN AfterFailure(queue[i]) ELSE queue[i]]
            BY <1>5 DEF Recover
        <3> HIDE DEF Row
        <3> QED
            BY <1>0, <3>1
    <2> HIDE DEF Row
    <2> QED
        BY <1>a, <1>f, <2>1
<1>6. CASE Cancel(j)
    <2>1. [queue[j] EXCEPT !.status = "cancelled"] \in Row
        BY <1>0 DEF JobStatuses
    <2>2. [queue[j] EXCEPT !.status = "cancelled"].status = "cancelled"
        BY <1>0
    <2>3. queue' = [queue EXCEPT ![j] = [queue[j] EXCEPT !.status = "cancelled"]]
        BY <1>0, <1>6 DEF Cancel
    <2> HIDE DEF Row
    <2> QED
        BY <1>a, <2>1, <2>2, <2>3
<1>7. CASE Retry(j)
    <2> DEFINE new == [status |-> "pending", attempts |-> 0]
    <2>1. /\ new \in Row /\ new.status # "absent"
          /\ new.status = "pending" => new.attempts < MaxAttempts
        BY <1>0, <1>7 DEF Retry, QueueCounts, JobStatuses
    <2>2. queue' = [queue EXCEPT ![j] = new]
        BY <1>7 DEF Retry
    <2> HIDE DEF Row, new
    <2> QED
        BY <1>a, <2>1, <2>2
<1> QED
    BY <1>1, <1>2, <1>3, <1>4, <1>5, <1>6, <1>7

\* How one slot of req changes.
LEMMA SlotChanges ==
    ASSUME Types, NEW r \in Requests, NEW new \in RequestRow,
           req' = [req EXCEPT ![r] = new]
    PROVE  /\ req' \in [Requests -> RequestRow]
           /\ req'[r] = new
           /\ \A q \in Requests \ {r} : req'[q] = req[q]
BY DEF Types

LEMMA SlotContinues ==
    ASSUME Types, NEW r \in Requests, NEW place \in {"commit", "review", "enqueue"},
           Continue(r, place)
    PROVE  /\ req' \in [Requests -> RequestRow]
           /\ req'[r].place = place
           /\ req'[r].kind = req[r].kind
           /\ req'[r].about = req[r].about
           /\ req'[r].on = req[r].on
           /\ req'[r].by = req[r].by
           /\ req'[r].task = req[r].task
           /\ req'[r].copy = req[r].copy
           /\ req'[r].set = req[r].set
           /\ \A q \in Requests \ {r} : req'[q] = req[q]
BY DEF Types, Continue, RequestRow

LEMMA SlotDone ==
    ASSUME Types, NEW r \in Requests, Done(r)
    PROVE  /\ req' \in [Requests -> RequestRow]
           /\ req'[r] = NoRequest
           /\ \A q \in Requests \ {r} : req'[q] = req[q]
BY RowTypes, SlotChanges DEF Done

\* What the endpoint tested before Begin started a request.
Fresh(new) ==
    \/ /\ new.kind = "request" /\ new.place = "commit" /\ new.about = "none"
       /\ new.on \in Evidence /\ new.by \in Identities
    \/ /\ new.kind \in {"approve", "reject"} /\ new.place = "commit"
       /\ new.about \in Dispositions /\ disp[new.about].status = "pending"
       /\ new.by \in Identities
       /\ new.kind = "approve" => MayApprove(new.about, new.by)
    \/ /\ new.kind = "govern" /\ new.place = "commit" /\ new.about = "none"
       /\ new.on \in Evidence /\ new.set # "none"
    \/ /\ new.kind = "delete" /\ new.place = "delete" /\ new.about = "none"
       /\ new.on \in Evidence
       /\ ~conf.approval /\ ~records[new.on].hold
    \/ /\ new.kind = "assign" /\ new.place = "commit"
       /\ new.task \in Tasks /\ new.about \in Dispositions
       /\ IsOpen(new.task, new.about)

BeginAny(r) ==
    \/ \E e \in Evidence, i \in Identities : BeginDisposition(r, e, i)
    \/ \E d \in Dispositions, i \in Identities : BeginApprove(r, d, i) \/ BeginReject(r, d, i)
    \/ \E e \in Evidence :
        \/ \E set \in {"hold", "release", "extend"} : BeginGovern(r, e, set)
        \/ BeginDelete(r, e)
    \/ \E t \in Tasks : BeginAssign(r, t)

LEMMA BeginsFresh ==
    ASSUME Types, NEW r \in Requests, BeginAny(r)
    PROVE  \E new \in RequestRow : Begin(r, new) /\ Fresh(new)
<1>1. ASSUME NEW e \in Evidence, NEW i \in Identities, BeginDisposition(r, e, i)
      PROVE  \E new \in RequestRow : Begin(r, new) /\ Fresh(new)
    <2> DEFINE new == [NoRequest EXCEPT !.kind = "request", !.place = "commit", !.on = e, !.by = i]
    <2>1. Begin(r, new)
        BY <1>1 DEF BeginDisposition
    <2>2. new \in RequestRow
        BY DEF NoRequest, RequestRow, Kinds, NoOne
    <2>3. Fresh(new)
        BY <1>1 DEF NoRequest, BeginDisposition, Fresh
    <2> QED
        BY <2>1, <2>2, <2>3
<1>2. ASSUME NEW d \in Dispositions, NEW i \in Identities, BeginApprove(r, d, i)
      PROVE  \E new \in RequestRow : Begin(r, new) /\ Fresh(new)
    <2> DEFINE new == [NoRequest EXCEPT !.kind = "approve", !.place = "commit", !.about = d, !.by = i]
    <2>1. Begin(r, new)
        BY <1>2 DEF BeginApprove
    <2>2. new \in RequestRow
        BY DEF NoRequest, RequestRow, Kinds, NoOne
    <2>3. Fresh(new)
        BY <1>2 DEF NoRequest, BeginApprove, Fresh, Approvable, MayApprove
    <2> QED
        BY <2>1, <2>2, <2>3
<1>3. ASSUME NEW d \in Dispositions, NEW i \in Identities, BeginReject(r, d, i)
      PROVE  \E new \in RequestRow : Begin(r, new) /\ Fresh(new)
    <2> DEFINE new == [NoRequest EXCEPT !.kind = "reject", !.place = "commit", !.about = d, !.by = i]
    <2>1. Begin(r, new)
        BY <1>3 DEF BeginReject
    <2>2. new \in RequestRow
        BY DEF NoRequest, RequestRow, Kinds, NoOne
    <2>3. Fresh(new)
        BY <1>3 DEF NoRequest, BeginReject, Fresh
    <2> QED
        BY <2>1, <2>2, <2>3
<1>4. ASSUME NEW e \in Evidence, NEW set \in {"hold", "release", "extend"}, BeginGovern(r, e, set)
      PROVE  \E new \in RequestRow : Begin(r, new) /\ Fresh(new)
    <2> DEFINE new == [NoRequest EXCEPT !.kind = "govern", !.place = "commit", !.on = e, !.set = set]
    <2>1. Begin(r, new)
        BY <1>4 DEF BeginGovern
    <2>2. new \in RequestRow
        BY DEF NoRequest, RequestRow, Kinds, NoOne
    <2>3. Fresh(new)
        BY <1>4 DEF NoRequest, BeginGovern, Fresh
    <2> QED
        BY <2>1, <2>2, <2>3
<1>5. ASSUME NEW e \in Evidence, BeginDelete(r, e)
      PROVE  \E new \in RequestRow : Begin(r, new) /\ Fresh(new)
    <2> DEFINE new == [NoRequest EXCEPT !.kind = "delete", !.place = "delete", !.on = e]
    <2>1. Begin(r, new)
        BY <1>5 DEF BeginDelete
    <2>2. new \in RequestRow
        BY DEF NoRequest, RequestRow, Kinds, NoOne
    <2>3. Fresh(new)
        BY <1>5 DEF NoRequest, BeginDelete, Fresh
    <2> QED
        BY <2>1, <2>2, <2>3
<1>6. ASSUME NEW t \in Tasks, BeginAssign(r, t)
      PROVE  \E new \in RequestRow : Begin(r, new) /\ Fresh(new)
    <2> DEFINE new == [NoRequest EXCEPT !.kind = "assign", !.place = "commit", !.task = t,
                                 !.about = tasks[t].subject, !.copy = tasks[t].status]
    <2>1. Begin(r, new)
        BY <1>6 DEF BeginAssign
    <2>0. /\ tasks[t].subject \in Dispositions
          /\ tasks[t].status \in OPEN_STATUSES
        BY <1>6 DEF BeginAssign, Types, TypeOK, Task
    <2>2. new \in RequestRow
        BY <2>0 DEF NoRequest, RequestRow, Kinds, NoOne
    <2>3. Fresh(new)
        BY <2>0 DEF NoRequest, BeginAssign, Fresh, IsOpen
    <2> QED
        BY <2>1, <2>2, <2>3
<1> QED
    BY <1>1, <1>2, <1>3, <1>4, <1>5, <1>6 DEF BeginAny

-----------------------------------------------------------------------------
Hist == [requests : 0..MaxRequests, crashes : 0..MaxCrashes, late : SUBSET Evidence,
         met : SUBSET Dispositions, rejected : SUBSET Dispositions, torn : SUBSET Evidence]

LEMMA HistTypes ==
    ASSUME NEW h \in Hist
    PROVE  /\ h.requests < MaxRequests => [h EXCEPT !.requests = @ + 1] \in Hist
           /\ h.crashes < MaxCrashes =>
                \A torn \in SUBSET Evidence :
                    [h EXCEPT !.crashes = @ + 1, !.torn = @ \cup torn] \in Hist
           /\ \A e \in Evidence : [h EXCEPT !.late = @ \cup {e}] \in Hist
           /\ \A d \in Dispositions : [h EXCEPT !.rejected = @ \cup {d}] \in Hist
<1>1. h.requests < MaxRequests => [h EXCEPT !.requests = @ + 1] \in Hist
    BY EvidenceAssumption DEF Hist
<1>2. ASSUME h.crashes < MaxCrashes, NEW torn \in SUBSET Evidence
      PROVE  [h EXCEPT !.crashes = @ + 1, !.torn = @ \cup torn] \in Hist
    <2>1. h.crashes + 1 \in 0..MaxCrashes /\ h.torn \cup torn \in SUBSET Evidence
        BY <1>2, EvidenceAssumption DEF Hist
    <2> QED
        BY <2>1 DEF Hist
<1>3. \A e \in Evidence : [h EXCEPT !.late = @ \cup {e}] \in Hist
    BY DEF Hist
<1>4. \A d \in Dispositions : [h EXCEPT !.rejected = @ \cup {d}] \in Hist
    BY DEF Hist
<1> QED
    BY <1>1, <1>2, <1>3, <1>4

\* The rows the commits write.
LEMMA RowChanges ==
    /\ \A row \in Disposition, i \in Identities :
        /\ [row EXCEPT !.status = "approved", !.approver = i] \in Disposition
        /\ [row EXCEPT !.status = "rejected"] \in Disposition
        /\ [row EXCEPT !.status = "executed"] \in Disposition
    /\ \A o \in Object : [o EXCEPT !.exists = FALSE] \in Object
    /\ \A record \in Record : /\ [record EXCEPT !.hold = TRUE] \in Record
                             /\ [record EXCEPT !.hold = FALSE] \in Record
                             /\ [record EXCEPT !.expired = FALSE] \in Record
                             /\ [record EXCEPT !.expired = TRUE] \in Record
                             /\ [record EXCEPT !.deleted = TRUE] \in Record
    /\ \A task \in Task, s \in TaskStatuses : [task EXCEPT !.status = s] \in Task
<1>1. \A row \in Disposition, i \in Identities :
        /\ [row EXCEPT !.status = "approved", !.approver = i] \in Disposition
        /\ [row EXCEPT !.status = "rejected"] \in Disposition
        /\ [row EXCEPT !.status = "executed"] \in Disposition
    BY DEF Disposition, DispositionStatuses
<1>2. \A o \in Object : [o EXCEPT !.exists = FALSE] \in Object
    BY DEF Object
<1>3. \A record \in Record : /\ [record EXCEPT !.hold = TRUE] \in Record
                           /\ [record EXCEPT !.hold = FALSE] \in Record
                           /\ [record EXCEPT !.expired = FALSE] \in Record
                           /\ [record EXCEPT !.expired = TRUE] \in Record
                           /\ [record EXCEPT !.deleted = TRUE] \in Record
    BY DEF Record
<1>4. \A task \in Task, s \in TaskStatuses : [task EXCEPT !.status = s] \in Task
    BY DEF Task
<1> QED
    BY <1>1, <1>2, <1>3, <1>4

\* The types, variable by variable.
LEMMA TypesUnfold ==
    Types <=>
        /\ QueueTypeOK
        /\ conf \in [backend : {"local", "s3"}, approval : BOOLEAN]
        /\ records \in [Evidence -> Record]
        /\ object \in [Evidence -> Object]
        /\ disp \in [Dispositions -> Disposition]
        /\ tasks \in [Tasks -> Task]
        /\ payload \in [Jobs -> Dispositions \cup {"none", "retention"}]
        /\ cancels \in SUBSET Jobs
        /\ exec \in [Jobs -> Handler]
        /\ req \in [Requests -> RequestRow]
        /\ hist \in Hist
BY DEF Types, TypeOK, Hist, RequestRow

LEMMA TypesPrimed ==
    /\ QueueTypeOK'
    /\ conf' \in [backend : {"local", "s3"}, approval : BOOLEAN]
    /\ records' \in [Evidence -> Record]
    /\ object' \in [Evidence -> Object]
    /\ disp' \in [Dispositions -> Disposition]
    /\ tasks' \in [Tasks -> Task]
    /\ payload' \in [Jobs -> Dispositions \cup {"none", "retention"}]
    /\ cancels' \in SUBSET Jobs
    /\ exec' \in [Jobs -> Handler]
    /\ req' \in [Requests -> RequestRow]
    /\ hist' \in Hist
    => Types'
BY DEF Types, TypeOK, Hist, RequestRow

LEMMA TypesUnchanged ==
    QueueTypeOK /\ UNCHANGED queue => QueueTypeOK'
BY DEF QueueTypeOK

\* The requests keep the types.
LEMMA RequestTypes ==
    ASSUME EvidenceInv, NEW r \in Requests, BeginAny(r) \/ RequestStep(r) \/ RequestDies(r)
    PROVE  Types'
<1>0. /\ Types /\ QueueTypeOK /\ RequestsCarry /\ QueueCounts
      /\ conf \in [backend : {"local", "s3"}, approval : BOOLEAN]
      /\ records \in [Evidence -> Record]
      /\ object \in [Evidence -> Object]
      /\ disp \in [Dispositions -> Disposition]
      /\ tasks \in [Tasks -> Task]
      /\ payload \in [Jobs -> Dispositions \cup {"none", "retention"}]
      /\ cancels \in SUBSET Jobs
      /\ exec \in [Jobs -> Handler]
      /\ req \in [Requests -> RequestRow]
      /\ hist \in Hist
    BY TypesUnfold DEF EvidenceInv
<1>r. /\ req[r] \in RequestRow
      /\ Done(r) => req' \in [Requests -> RequestRow]
      /\ \A place \in {"commit", "review", "enqueue"} :
            Continue(r, place) => req' \in [Requests -> RequestRow]
    BY <1>0, SlotDone, SlotContinues
<1>1. CASE BeginAny(r)
    <2>1. PICK new \in RequestRow : Begin(r, new) /\ Fresh(new)
        BY <1>0, <1>1, BeginsFresh
    <2>2. req' \in [Requests -> RequestRow]
        BY <1>0, <2>1 DEF Begin
    <2>3. hist' \in Hist
        <3>1. hist.requests < MaxRequests /\ hist.requests \in Nat
            BY <1>0, <2>1 DEF Begin, Hist
        <3>2. new.about \in Dispositions \cup {"none"}
            BY DEF RequestRow
        <3> DEFINE met == IF Meets(r, new.about) THEN hist.met \cup {new.about} ELSE hist.met
        <3>3. met \in SUBSET Dispositions
            BY <1>0, <3>2 DEF Meets, Hist
        <3>4. hist' = [hist EXCEPT !.requests = @ + 1, !.met = met]
            BY <2>1 DEF Begin
        <3> HIDE DEF met
        <3>5. hist.requests + 1 \in 0..MaxRequests
            BY <3>1, EvidenceAssumption
        <3> QED
            BY <1>0, <3>3, <3>4, <3>5 DEF Hist
    <2> QED
        BY <1>0, <2>1, <2>2, <2>3, TypesPrimed, TypesUnchanged DEF Begin
<1>2. CASE create_disposition(r)
    <2>1. req[r].kind = "request" /\ req[r].place = "commit"
        BY <1>2 DEF create_disposition
    <2>2. req[r].on \in Evidence /\ req[r].by \in Identities
        BY <1>0, <2>1 DEF RequestsCarry, RequestCarries
    <2>3. PICK d \in Dispositions :
            /\ disp' = [disp EXCEPT ![d] = [AbsentDisposition EXCEPT
                            !.status = "pending", !.evidence = req[r].on, !.by = req[r].by]]
            /\ req' = [req EXCEPT ![r].place = "review", ![r].about = d]
        BY <1>2 DEF create_disposition
    <2>4. [AbsentDisposition EXCEPT !.status = "pending", !.evidence = req[r].on,
                                    !.by = req[r].by] \in Disposition
        BY <2>2 DEF AbsentDisposition, Disposition, DispositionStatuses
    <2>5. disp' \in [Dispositions -> Disposition]
        BY <1>0, <2>3, <2>4
    <2>6. req' \in [Requests -> RequestRow]
        <3> DEFINE row == [req[r] EXCEPT !.place = "review", !.about = d]
        <3>1. row \in RequestRow
            BY <1>r DEF RequestRow
        <3>2. req' = [req EXCEPT ![r] = row]
            BY <1>0, <2>3
        <3> HIDE DEF row
        <3> QED
            BY <1>0, <3>1, <3>2
    <2> QED
        BY <1>0, <1>2, <2>5, <2>6, TypesPrimed, TypesUnchanged DEF create_disposition
<1>3. CASE approve_disposition(r)
    <2> DEFINE d == req[r].about
               row == [disp[d] EXCEPT !.status = "approved", !.approver = req[r].by]
    <2>1. d \in Dispositions /\ req[r].by \in Identities
        BY <1>0, <1>3 DEF RequestsCarry, RequestCarries, approve_disposition
    <2>2. disp' \in [Dispositions -> Disposition]
        <3>1. disp' = [disp EXCEPT ![d] = row]
            BY <1>0, <1>3 DEF approve_disposition
        <3>2. row \in Disposition
            BY <1>0, <2>1, RowChanges
        <3> HIDE DEF d, row
        <3> QED
            BY <1>0, <2>1, <3>1, <3>2
    <2> QED
        BY <1>0, <1>3, <1>r, <2>2, TypesPrimed, TypesUnchanged DEF approve_disposition
<1>4. CASE reject_disposition(r)
    <2>1. disp' \in [Dispositions -> Disposition]
        BY <1>0, <1>4, RowChanges, EvidenceAssumption DEF reject_disposition, RequestsCarry,
            RequestCarries
    <2>2. hist' \in Hist
        BY <1>0, <1>4, HistTypes DEF reject_disposition, RequestsCarry, RequestCarries
    <2> QED
        BY <1>0, <1>4, <1>r, <2>1, <2>2, TypesPrimed, TypesUnchanged DEF reject_disposition
<1>5. CASE update_evidence_governance(r)
    <2>0. req[r].on \in Evidence /\ req[r].set \in {"hold", "release", "extend"}
        BY <1>0, <1>5, <1>r DEF update_evidence_governance, RequestsCarry, RequestCarries,
            RequestRow
    <2>1. Governed(records[req[r].on], req[r].set) \in Record
        BY <1>0, <2>0 DEF Governed, Record
    <2>2. records' \in [Evidence -> Record]
        BY <1>0, <1>5, <2>0, <2>1 DEF update_evidence_governance
    <2>3. hist' \in Hist
        BY <1>0, <1>5, <2>0, HistTypes DEF update_evidence_governance
    <2> QED
        BY <1>0, <1>5, <1>r, <2>2, <2>3, TypesPrimed, TypesUnchanged
            DEF update_evidence_governance
<1>6. CASE AssignTask(r)
    <2>1. tasks' \in [Tasks -> Task]
        <3> DEFINE t == req[r].task
                   s == IF req[r].copy = "in-progress" THEN tasks[t].status ELSE "in-progress"
        <3>1. t \in Tasks
            BY <1>0, <1>6 DEF AssignTask, RequestsCarry, RequestCarries
        <3>2. s \in TaskStatuses
            BY <1>0, <3>1 DEF Task, TaskStatuses
        <3>3. tasks' = [tasks EXCEPT ![t].status = s]
            BY <1>6 DEF AssignTask, assign_review_task
        <3> HIDE DEF t, s
        <3> QED
            BY <1>0, <3>1, <3>2, <3>3, RowChanges
    <2> QED
        BY <1>0, <1>6, <1>r, <2>1, TypesPrimed, TypesUnchanged DEF AssignTask
<1>7. CASE DeleteNow(r)
    <2>1. object' \in [Evidence -> Object]
        <3>1. CASE object' = [object EXCEPT ![req[r].on].exists = FALSE]
            BY <1>0, <3>1, RowChanges
        <3> QED
            BY <1>0, <1>7, <3>1 DEF DeleteNow
    <2> QED
        BY <1>0, <1>7, <1>r, <2>1, TypesPrimed, TypesUnchanged DEF DeleteNow
<1>8. CASE delete_evidence_record(r)
    <2>1. records' \in [Evidence -> Record]
        BY <1>0, <1>8 DEF delete_evidence_record, Record
    <2> QED
        BY <1>0, <1>8, <1>r, <2>1, TypesPrimed, TypesUnchanged DEF delete_evidence_record
<1>9. CASE Review(r)
    <2>1. req[r].about \in Dispositions
        BY <1>0, <1>9, <1>r DEF Review, RequestsCarry, RequestCarries, RequestRow, Kinds
    <2>2. tasks' \in [Tasks -> Task]
        <3>1. CASE create_review_task(req[r].about)
            BY <1>0, <2>1, <3>1 DEF create_review_task, Task, TaskStatuses
        <3>2. CASE complete_review_task(req[r].about)
            BY <1>0, <3>2 DEF complete_review_task, Task, TaskStatuses
        <3> QED
            BY <1>9, <3>1, <3>2 DEF Review
    <2> QED
        BY <1>0, <1>9, <1>r, <2>2, TypesPrimed, TypesUnchanged DEF Review
<1>10. CASE EnqueueDisposition(r)
    <2>1. PICK j \in Jobs : Enqueue(j) /\ payload' = [payload EXCEPT ![j] = req[r].about]
        BY <1>10 DEF EnqueueDisposition
    <2>2. QueueTypeOK'
        BY <1>0, <2>1, QueueSteps
    <2>3. payload' \in [Jobs -> Dispositions \cup {"none", "retention"}]
        BY <1>0, <1>r, <2>1 DEF RequestRow
    <2> QED
        BY <1>0, <1>10, <1>r, <2>2, <2>3, TypesPrimed DEF EnqueueDisposition
<1>11. CASE RequestDies(r)
    <2>1. hist' \in Hist
        <3>1. Torn(r) \in SUBSET Evidence
            BY <1>0, <1>11 DEF Torn, RequestsCarry, RequestCarries
        <3> QED
            BY <1>0, <1>11, <3>1, HistTypes DEF RequestDies
    <2> QED
        BY <1>0, <1>11, <1>r, <2>1, TypesPrimed, TypesUnchanged DEF RequestDies
<1> QED
    BY <1>1, <1>2, <1>3, <1>4, <1>5, <1>6, <1>7, <1>8, <1>9, <1>10, <1>11 DEF RequestStep

LEMMA HandlerChanges ==
    \A h \in Handler, place \in Places, batch \in SUBSET Evidence, gone \in SUBSET Evidence :
        /\ [h EXCEPT !.place = place] \in Handler
        /\ [h EXCEPT !.batch = batch, !.place = place] \in Handler
        /\ [h EXCEPT !.place = place, !.batch = batch] \in Handler
        /\ [h EXCEPT !.batch = batch, !.gone = gone, !.place = place] \in Handler
BY DEF Handler

\* A handler's job is running, and names a disposition or the retention job.
LEMMA HandlersNameWork ==
    ASSUME EvidenceInv, NEW j \in Jobs, exec[j].place # "idle", payload[j] # "retention"
    PROVE  payload[j] \in Dispositions
BY DEF EvidenceInv, JobsSanctioned, JobKnows

\* The jobs, the clock and the deaths of workers keep the types.
LEMMA JobTypes ==
    ASSUME EvidenceInv,
           \/ \E j \in Jobs : \/ JobStep(j) \/ WorkerDies(j) \/ RecoverJob(j)
                              \/ cancel_job(j) \/ retry_job(j)
           \/ enqueue_evidence_retention
           \/ \E e \in Evidence : RetentionEnds(e)
    PROVE  Types'
<1>0. /\ Types /\ QueueTypeOK /\ JobsSanctioned /\ DispositionsDecided /\ QueueCounts
      /\ conf \in [backend : {"local", "s3"}, approval : BOOLEAN]
      /\ records \in [Evidence -> Record]
      /\ object \in [Evidence -> Object]
      /\ disp \in [Dispositions -> Disposition]
      /\ tasks \in [Tasks -> Task]
      /\ payload \in [Jobs -> Dispositions \cup {"none", "retention"}]
      /\ cancels \in SUBSET Jobs
      /\ exec \in [Jobs -> Handler]
      /\ req \in [Requests -> RequestRow]
      /\ hist \in Hist
    BY TypesUnfold DEF EvidenceInv
<1>1. ASSUME enqueue_evidence_retention PROVE Types'
    <2>1. PICK j \in Jobs : Enqueue(j) /\ payload' = [payload EXCEPT ![j] = "retention"]
        BY <1>1 DEF enqueue_evidence_retention
    <2>2. QueueTypeOK'
        BY <1>0, <2>1, QueueSteps
    <2>3. payload' \in [Jobs -> Dispositions \cup {"none", "retention"}]
        BY <1>0, <2>1
    <2>4. hist' \in Hist
        BY <1>0, <1>1, HistTypes DEF enqueue_evidence_retention
    <2> QED
        BY <1>0, <1>1, <2>2, <2>3, <2>4, TypesPrimed DEF enqueue_evidence_retention
<1>2. ASSUME NEW e \in Evidence, RetentionEnds(e) PROVE Types'
    <2>1. records' \in [Evidence -> Record]
        BY <1>0, <1>2, RowChanges DEF RetentionEnds
    <2> QED
        BY <1>0, <1>2, <2>1, TypesPrimed, TypesUnchanged DEF RetentionEnds
<1> SUFFICES ASSUME NEW j \in Jobs, \/ JobStep(j) \/ WorkerDies(j) \/ RecoverJob(j)
                                      \/ cancel_job(j) \/ retry_job(j)
             PROVE  Types'
    BY <1>1, <1>2
<1>h. /\ exec[j] \in Handler /\ exec[j].batch \in SUBSET Evidence
      /\ exec[j].gone \in SUBSET Evidence /\ exec[j].place \in Places
    BY <1>0 DEF Handler
<1>g. \A place \in Places : Go(j, place) => exec' \in [Jobs -> Handler]
    <2>1. \A place \in Places : [exec[j] EXCEPT !.place = place] \in Handler
        BY <1>h, HandlerChanges
    <2> QED
        BY <1>0, <2>1 DEF Go
<1>p. {"idle", "begin", "verify", "delete", "commit", "request", "return", "raise", "dead"}
        \subseteq Places
    BY DEF Places
<1>3. CASE StartJob(j)
    <2>1. exec' \in [Jobs -> Handler]
        BY <1>0, <1>3, RowTypes DEF StartJob, Idle, Handler, Places
    <2> QED
        BY <1>0, <1>3, <2>1, QueueSteps, TypesPrimed DEF StartJob
<1>4. CASE LoadDisposition(j)
    <2>0. exec[j].place = "begin" /\ payload[j] # "retention"
        BY <1>4 DEF LoadDisposition
    <2> DEFINE d == payload[j]
               e == disp[d].evidence
    <2>1. d \in Dispositions
        BY <2>0, HandlersNameWork
    <2>2. disp[d].status = "approved" => e \in Evidence
        BY <1>0, <2>1 DEF DispositionsDecided
    <2> DEFINE place == IF conf.backend = "s3" THEN "verify" ELSE "delete"
               next == CASE disp[d].status = "executed" -> [exec[j] EXCEPT !.place = "return"]
                         [] disp[d].status = "approved" /\ ~records[e].hold ->
                                [exec[j] EXCEPT !.batch = {e}, !.place = place]
                         [] OTHER -> [exec[j] EXCEPT !.place = "raise"]
    <2>3. exec' = [exec EXCEPT ![j] = next]
        BY <1>4 DEF LoadDisposition
    <2>4. place \in Places
        BY DEF Places
    <2>5. [exec[j] EXCEPT !.place = "return"] \in Handler
          /\ [exec[j] EXCEPT !.place = "raise"] \in Handler
        BY <1>h, <1>p, HandlerChanges
    <2>6. disp[d].status = "approved" => [exec[j] EXCEPT !.batch = {e}, !.place = place] \in Handler
        <3> HIDE DEF place, e
        <3>1. SUFFICES ASSUME disp[d].status = "approved"
                       PROVE  [exec[j] EXCEPT !.batch = {e}, !.place = place] \in Handler
            OBVIOUS
        <3> QED
            BY <1>h, <2>2, <2>4, <3>1 DEF Handler
    <2>7. next \in Handler
        <3> HIDE DEF place, e
        <3>1. CASE disp[d].status = "executed"
            BY <2>5, <3>1
        <3>2. CASE disp[d].status = "approved" /\ ~records[e].hold
            BY <2>6, <3>2
        <3>3. CASE disp[d].status # "executed" /\ ~(disp[d].status = "approved" /\ ~records[e].hold)
            BY <2>5, <3>3
        <3> QED
            BY <3>1, <3>2, <3>3
    <2> HIDE DEF next
    <2>8. exec' \in [Jobs -> Handler]
        BY <1>0, <2>3, <2>7
    <2> QED
        BY <1>0, <1>4, <2>8, TypesPrimed, TypesUnchanged DEF LoadDisposition
<1>5. CASE verify_object_lock(j)
    <2>1. exec' \in [Jobs -> Handler]
        BY <1>5, <1>g, <1>p DEF verify_object_lock
    <2> QED
        BY <1>0, <1>5, <2>1, TypesPrimed, TypesUnchanged DEF verify_object_lock
<1>6. CASE delete_evidence(j)
    <2>1. PICK e \in exec[j].batch :
            \/ /\ object' = [object EXCEPT ![e].exists = FALSE]
               /\ exec' = [exec EXCEPT ![j].batch = @ \ {e}, ![j].gone = @ \cup {e},
                                       ![j].place = IF exec[j].batch = {e} THEN "commit"
                                                                           ELSE @]
            \/ /\ exec' = [exec EXCEPT ![j] =
                    IF payload[j] # "retention" THEN [exec[j] EXCEPT !.place = "raise"]
                    ELSE [exec[j] EXCEPT !.batch = @ \ {e},
                            !.place = IF exec[j].batch = {e} THEN "commit" ELSE @]]
               /\ UNCHANGED object
        BY <1>6 DEF delete_evidence
    <2> DEFINE place == IF exec[j].batch = {e} THEN "commit" ELSE exec[j].place
               first == [exec[j] EXCEPT !.batch = @ \ {e}, !.gone = @ \cup {e}, !.place = place]
               second == IF payload[j] # "retention" THEN [exec[j] EXCEPT !.place = "raise"]
                         ELSE [exec[j] EXCEPT !.batch = @ \ {e}, !.place = place]
    <2>2. e \in Evidence /\ place \in Places
        BY <1>h, <1>p
    <2>3. first \in Handler /\ second \in Handler
        <3> HIDE DEF place
        <3>1. exec[j].batch \ {e} \in SUBSET Evidence /\ exec[j].gone \cup {e} \in SUBSET Evidence
            BY <1>h, <2>2
        <3> QED
            BY <1>h, <1>p, <2>2, <3>1, HandlerChanges
    <2>4. object' \in [Evidence -> Object]
        <3>1. object' = [object EXCEPT ![e].exists = FALSE] \/ object' = object
            BY <2>1
        <3>2. [object[e] EXCEPT !.exists = FALSE] \in Object
            BY <1>0, <2>2, RowChanges
        <3> HIDE DEF first, second
        <3> QED
            BY <1>0, <2>2, <3>1, <3>2
    <2>5. exec' = [exec EXCEPT ![j] = first] \/ exec' = [exec EXCEPT ![j] = second]
        BY <1>0, <2>1
    <2> HIDE DEF first, second
    <2>6. exec' \in [Jobs -> Handler]
        BY <1>0, <2>3, <2>5
    <2> QED
        BY <1>0, <1>6, <2>4, <2>6, TypesPrimed, TypesUnchanged DEF delete_evidence
<1>7. CASE execute_disposition(j)
    <2>1. records' \in [Evidence -> Record]
        BY <1>0, <1>7, RowChanges DEF execute_disposition, Deleted
    <2>2. disp' \in [Dispositions -> Disposition]
        <3>1. CASE payload[j] = "retention"
            BY <1>0, <1>7, <3>1 DEF execute_disposition
        <3>2. CASE payload[j] # "retention"
            <4>1. payload[j] \in Dispositions
                BY <1>7, <3>2, HandlersNameWork DEF execute_disposition
            <4>2. \E i \in Identities : TRUE
                BY EvidenceAssumption
            <4>3. disp' = [disp EXCEPT ![payload[j]].status = "executed"]
                BY <1>7, <3>2 DEF execute_disposition
            <4> QED
                BY <1>0, <4>1, <4>2, <4>3, RowChanges
        <3> QED
            BY <3>1, <3>2
    <2> QED
        BY <1>0, <1>7, <1>g, <1>p, <2>1, <2>2, TypesPrimed, TypesUnchanged DEF execute_disposition
<1>8. CASE SelectExpired(j)
    <2> DEFINE due == {e \in Evidence : Purgeable(e)}
               batch == IF conf.approval THEN {e \in due : ~HasActive(e)} ELSE due
               place == IF conf.approval THEN "request" ELSE "delete"
               next == IF batch = {} THEN [exec[j] EXCEPT !.place = "return"]
                       ELSE [exec[j] EXCEPT !.batch = batch, !.place = place]
    <2>1. batch \in SUBSET Evidence /\ place \in Places
        BY DEF Places
    <2>2. exec' = [exec EXCEPT ![j] = next]
        BY <1>8 DEF SelectExpired
    <2> HIDE DEF batch, place
    <2>3. next \in Handler
        BY <1>h, <1>p, <2>1, HandlerChanges
    <2> HIDE DEF next
    <2>4. exec' \in [Jobs -> Handler]
        BY <1>0, <2>2, <2>3
    <2> QED
        BY <1>0, <1>8, <2>4, TypesPrimed, TypesUnchanged DEF SelectExpired
<1>9. CASE purge_expired_evidence(j)
    <2>1. PICK written \in [exec[j].batch -> Dispositions] :
            disp' = [d \in Dispositions |->
                IF \E e \in exec[j].batch : written[e] = d
                THEN [AbsentDisposition EXCEPT !.status = "pending", !.by = "retention",
                        !.evidence = CHOOSE e \in exec[j].batch : written[e] = d]
                ELSE disp[d]]
        BY <1>9 DEF purge_expired_evidence
    <2>2. \A e \in Evidence :
            [AbsentDisposition EXCEPT !.status = "pending", !.by = "retention",
                                      !.evidence = e] \in Disposition
        BY DEF AbsentDisposition, Disposition, DispositionStatuses
    <2>3. \A d \in Dispositions : (\E e \in exec[j].batch : written[e] = d) =>
            (CHOOSE e \in exec[j].batch : written[e] = d) \in Evidence
        BY <1>h
    <2>4. disp' \in [Dispositions -> Disposition]
        BY <1>0, <2>1, <2>2, <2>3
    <2>5. exec' \in [Jobs -> Handler]
        <3>1. [exec[j] EXCEPT !.place = "return", !.batch = {}] \in Handler
            BY <1>h, <1>p, HandlerChanges
        <3>2. exec' = [exec EXCEPT ![j] = [exec[j] EXCEPT !.place = "return", !.batch = {}]]
            BY <1>0, <1>9 DEF purge_expired_evidence
        <3> QED
            BY <1>0, <3>1, <3>2
    <2> QED
        BY <1>0, <1>9, <2>4, <2>5, TypesPrimed, TypesUnchanged DEF purge_expired_evidence
<1>10. CASE JobReturns(j)
    BY <1>0, <1>10, QueueSteps, RowTypes, TypesPrimed DEF JobReturns
<1>11. CASE JobRaises(j)
    BY <1>0, <1>11, QueueSteps, RowTypes, TypesPrimed DEF JobRaises
<1>12. CASE WorkerDies(j)
    <2>1. exec' \in [Jobs -> Handler]
        BY <1>0, <1>12, <1>p, RowTypes, HandlerChanges DEF WorkerDies
    <2>2. hist' \in Hist
        <3> DEFINE torn == IF payload[j] = "retention" THEN exec[j].gone ELSE {}
        <3>1. torn \in SUBSET Evidence
            BY <1>h
        <3>2. hist' = [hist EXCEPT !.crashes = @ + 1, !.torn = @ \cup torn]
            BY <1>0, <1>12 DEF WorkerDies, Hist
        <3>3. hist.crashes < MaxCrashes
            BY <1>12 DEF WorkerDies
        <3> HIDE DEF torn
        <3>4. [hist EXCEPT !.crashes = @ + 1, !.torn = @ \cup torn] \in Hist
            BY <1>0, <3>1, <3>3, HistTypes
        <3> QED
            BY <3>2, <3>4
    <2> QED
        BY <1>0, <1>12, <2>1, <2>2, TypesPrimed, TypesUnchanged DEF WorkerDies
<1>13. CASE RecoverJob(j)
    BY <1>0, <1>13, QueueSteps, RowTypes, TypesPrimed DEF RecoverJob
<1>14. CASE JobCancelled(j)
    BY <1>0, <1>14, QueueSteps, RowTypes, TypesPrimed DEF JobCancelled
<1>15. CASE cancel_job(j)
    <2>1. QueueTypeOK' /\ hist' \in Hist
        BY <1>0, <1>15, QueueSteps, HistTypes, TypesUnchanged DEF cancel_job
    <2> QED
        BY <1>0, <1>15, <2>1, TypesPrimed DEF cancel_job
<1>16. CASE retry_job(j)
    <2>1. QueueTypeOK' /\ hist' \in Hist
        BY <1>0, <1>16, QueueSteps, HistTypes DEF retry_job
    <2> QED
        BY <1>0, <1>16, <2>1, TypesPrimed DEF retry_job
<1> QED
    BY <1>3, <1>4, <1>5, <1>6, <1>7, <1>8, <1>9, <1>10, <1>11, <1>12, <1>13, <1>14, <1>15,
        <1>16 DEF JobStep

-----------------------------------------------------------------------------
\* What a step does to the history: it only grows, and only a rejection is
\* added to the rejected ones.
LEMMA HistGrows ==
    ASSUME Types, Next
    PROVE  /\ hist.met \subseteq hist'.met
           /\ hist.late \subseteq hist'.late
           /\ hist.crashes > 0 => hist'.crashes > 0
           /\ \/ hist'.rejected = hist.rejected
              \/ \E r \in Requests : reject_disposition(r)
<1>0. hist \in Hist /\ hist.crashes \in Nat
    BY TypesUnfold DEF Hist
<1> DEFINE Grows == /\ hist.met \subseteq hist'.met
                    /\ hist.late \subseteq hist'.late
                    /\ hist.crashes > 0 => hist'.crashes > 0
                    /\ \/ hist'.rejected = hist.rejected
                       \/ \E r \in Requests : reject_disposition(r)
<1>1. UNCHANGED hist => Grows
    OBVIOUS
<1>2. ASSUME NEW r \in Requests, BeginAny(r) PROVE Grows
    <2>1. PICK new \in RequestRow : Begin(r, new)
        BY <1>2, BeginsFresh
    <2> QED
        BY <1>0, <2>1 DEF Begin, Hist
<1>3. ASSUME NEW r \in Requests, reject_disposition(r) PROVE Grows
    BY <1>0, <1>3 DEF reject_disposition, Hist
<1>4. ASSUME NEW r \in Requests, update_evidence_governance(r) PROVE Grows
    BY <1>0, <1>4 DEF update_evidence_governance, Hist
<1>5. ASSUME NEW r \in Requests, RequestDies(r) PROVE Grows
    BY <1>0, <1>5 DEF RequestDies, Hist
<1>6. ASSUME enqueue_evidence_retention PROVE Grows
    BY <1>0, <1>6 DEF enqueue_evidence_retention, Hist
<1>7. ASSUME NEW j \in Jobs, WorkerDies(j) PROVE Grows
    BY <1>0, <1>7 DEF WorkerDies, Hist
<1>8. ASSUME NEW r \in Requests, RequestStep(r), ~UNCHANGED hist PROVE Grows
    BY <1>3, <1>4, <1>8 DEF RequestStep, create_disposition, approve_disposition, AssignTask,
        DeleteNow, delete_evidence_record, Review, EnqueueDisposition
<1>9. ASSUME NEW j \in Jobs, JobStep(j) \/ RecoverJob(j) PROVE Grows
    <2>1. UNCHANGED hist
        BY <1>9 DEF JobStep, RecoverJob, StartJob, LoadDisposition, verify_object_lock,
            delete_evidence, execute_disposition, SelectExpired, purge_expired_evidence,
            JobReturns, JobRaises, JobCancelled
    <2> QED
        BY <1>1, <2>1
<1>10. ASSUME NEW e \in Evidence, RetentionEnds(e) PROVE Grows
    BY <1>1, <1>10 DEF RetentionEnds
<1>11. ASSUME NEW j \in Jobs, cancel_job(j) \/ retry_job(j) PROVE Grows
    BY <1>0, <1>11 DEF cancel_job, retry_job, Hist
<1> HIDE DEF Grows
<1>12. Grows
    BY <1>1, <1>2, <1>5, <1>6, <1>7, <1>8, <1>9, <1>10, <1>11 DEF Next, BeginAny
<1> QED
    BY <1>12 DEF Grows

\* What a step does to one disposition.
Kept(d) == disp'[d] = disp[d] /\ (d \in hist'.rejected <=> d \in hist.rejected)

Requested(d) ==
    /\ disp[d].status = "absent"
    /\ disp'[d].status = "pending" /\ disp'[d].evidence \in Evidence
    /\ d \in hist'.rejected <=> d \in hist.rejected

Decided(d, r) ==
    /\ req[r].about = d /\ req[r].place = "commit"
    /\ req'[r].about = d /\ req'[r].place = "review"
    /\ disp'[d].evidence = disp[d].evidence /\ disp'[d].by = disp[d].by
    /\ \/ /\ req[r].kind = "approve"
          /\ disp'[d].status = "approved" /\ disp'[d].approver = req[r].by
          /\ d \in hist'.rejected <=> d \in hist.rejected
       \/ /\ req[r].kind = "reject"
          /\ disp'[d].status = "rejected" /\ disp'[d].approver = disp[d].approver
          /\ d \in hist'.rejected

Executed(d) ==
    /\ Sanctioned(d)
    /\ disp'[d].evidence = disp[d].evidence /\ disp'[d].by = disp[d].by
    /\ disp'[d].status = "executed" /\ disp'[d].approver = disp[d].approver
    /\ d \in hist'.rejected <=> d \in hist.rejected

LEMMA DispositionSteps ==
    ASSUME EvidenceInv, Next, NEW d \in Dispositions
    PROVE  Kept(d) \/ Requested(d) \/ (\E r \in Requests : Decided(d, r)) \/ Executed(d)
<1>0. /\ Types /\ RequestsCarry /\ JobsSanctioned
      /\ disp \in [Dispositions -> Disposition]
      /\ exec \in [Jobs -> Handler]
      /\ hist \in Hist
    BY TypesUnfold DEF EvidenceInv
<1> DEFINE Goal == Kept(d) \/ Requested(d) \/ (\E r \in Requests : Decided(d, r)) \/ Executed(d)
<1>1. ASSUME UNCHANGED disp, ~\E r \in Requests : reject_disposition(r) PROVE Goal
    BY <1>0, <1>1, HistGrows DEF Kept
<1>2. ASSUME NEW r \in Requests, create_disposition(r) PROVE Goal
    <2>1. req[r].on \in Evidence /\ UNCHANGED hist
        BY <1>0, <1>2 DEF create_disposition, RequestsCarry, RequestCarries
    <2>2. PICK c \in Dispositions :
            /\ disp[c].status = "absent"
            /\ disp' = [disp EXCEPT ![c] = [AbsentDisposition EXCEPT
                            !.status = "pending", !.evidence = req[r].on, !.by = req[r].by]]
        BY <1>2 DEF create_disposition, FreeDisposition
    <2>3. CASE c = d
        BY <1>0, <2>1, <2>2, <2>3 DEF Requested, AbsentDisposition
    <2>4. CASE c # d
        BY <1>0, <2>1, <2>2, <2>4 DEF Kept
    <2> QED
        BY <2>3, <2>4
<1>3. ASSUME NEW r \in Requests, approve_disposition(r) PROVE Goal
    <2> DEFINE c == req[r].about
               row == [disp[c] EXCEPT !.status = "approved", !.approver = req[r].by]
    <2>1. /\ req[r].kind = "approve" /\ req[r].place = "commit" /\ UNCHANGED hist
          /\ c \in Dispositions
          /\ disp' = [disp EXCEPT ![c] = row]
          /\ req'[r].about = c /\ req'[r].place = "review"
        BY <1>0, <1>3, SlotContinues DEF approve_disposition, RequestsCarry, RequestCarries
    <2>2. /\ row.status = "approved" /\ row.approver = req[r].by
          /\ row.evidence = disp[c].evidence /\ row.by = disp[c].by
        BY <1>0, <2>1 DEF Disposition
    <2> HIDE DEF row
    <2>3. CASE c = d
        BY <1>0, <2>1, <2>2, <2>3 DEF Decided
    <2>4. CASE c # d
        BY <1>0, <2>1, <2>4 DEF Kept
    <2> QED
        BY <2>3, <2>4
<1>4. ASSUME NEW r \in Requests, reject_disposition(r) PROVE Goal
    <2> DEFINE c == req[r].about
               row == [disp[c] EXCEPT !.status = "rejected"]
    <2>1. /\ req[r].kind = "reject" /\ req[r].place = "commit"
          /\ c \in Dispositions
          /\ disp' = [disp EXCEPT ![c] = row]
          /\ hist'.rejected = hist.rejected \cup {c}
          /\ req'[r].about = c /\ req'[r].place = "review"
        BY <1>0, <1>4, SlotContinues DEF reject_disposition, RequestsCarry, RequestCarries, Hist
    <2>2. /\ row.status = "rejected" /\ row.approver = disp[c].approver
          /\ row.evidence = disp[c].evidence /\ row.by = disp[c].by
        BY <1>0, <2>1 DEF Disposition
    <2> HIDE DEF row
    <2>3. CASE c = d
        BY <1>0, <2>1, <2>2, <2>3 DEF Decided
    <2>4. CASE c # d
        BY <1>0, <2>1, <2>4 DEF Kept
    <2> QED
        BY <2>3, <2>4
<1>5. ASSUME NEW j \in Jobs, execute_disposition(j) PROVE Goal
    <2>1. exec[j].place = "commit" /\ UNCHANGED hist
        BY <1>5 DEF execute_disposition
    <2>2. CASE payload[j] = "retention"
        BY <1>5, <2>1, <2>2 DEF execute_disposition, Kept
    <2>3. CASE payload[j] # "retention"
        <3> DEFINE c == payload[j]
                   row == [disp[c] EXCEPT !.status = "executed"]
        <3>1. c \in Dispositions /\ Sanctioned(c) /\ disp' = [disp EXCEPT ![c] = row]
            BY <1>0, <1>5, <2>1, <2>3, HandlersNameWork DEF JobsSanctioned, JobKnows,
                execute_disposition
        <3>2. /\ row.status = "executed" /\ row.approver = disp[c].approver
              /\ row.evidence = disp[c].evidence /\ row.by = disp[c].by
            BY <1>0, <3>1 DEF Disposition
        <3> HIDE DEF row
        <3>3. CASE c = d
            BY <1>0, <2>1, <3>1, <3>2, <3>3 DEF Executed
        <3>4. CASE c # d
            BY <1>0, <2>1, <3>1, <3>4 DEF Kept
        <3> QED
            BY <3>3, <3>4
    <2> QED
        BY <2>2, <2>3
<1>6. ASSUME NEW j \in Jobs, purge_expired_evidence(j) PROVE Goal
    <2>1. UNCHANGED hist /\ exec[j].batch \in SUBSET Evidence
        BY <1>0, <1>6 DEF purge_expired_evidence, Handler
    <2>2. PICK written \in [exec[j].batch -> Dispositions] :
            /\ \A e \in exec[j].batch : disp[written[e]].status = "absent"
            /\ disp' = [c \in Dispositions |->
                    IF \E e \in exec[j].batch : written[e] = c
                    THEN [AbsentDisposition EXCEPT !.status = "pending", !.by = "retention",
                            !.evidence = CHOOSE e \in exec[j].batch : written[e] = c]
                    ELSE disp[c]]
        BY <1>6 DEF purge_expired_evidence
    <2>3. CASE \E e \in exec[j].batch : written[e] = d
        <3> DEFINE f == CHOOSE e \in exec[j].batch : written[e] = d
        <3>1. f \in Evidence
            BY <2>1, <2>3
        <3>2. disp'[d] = [AbsentDisposition EXCEPT !.status = "pending", !.by = "retention",
                                                   !.evidence = f]
            BY <2>2, <2>3
        <3> HIDE DEF f
        <3>3. disp'[d].status = "pending" /\ disp'[d].evidence = f
            BY <3>2 DEF AbsentDisposition
        <3>4. disp[d].status = "absent"
            BY <2>2, <2>3
        <3> QED
            BY <2>1, <3>1, <3>3, <3>4 DEF Requested
    <2>4. CASE ~\E e \in exec[j].batch : written[e] = d
        BY <2>1, <2>2, <2>4 DEF Kept
    <2> QED
        BY <2>3, <2>4
<1>7. \/ UNCHANGED disp /\ ~\E r \in Requests : reject_disposition(r)
      \/ \E r \in Requests : \/ create_disposition(r) \/ approve_disposition(r)
                             \/ reject_disposition(r)
      \/ \E j \in Jobs : execute_disposition(j) \/ purge_expired_evidence(j)
    <2>1. ASSUME NEW r \in Requests, BeginAny(r) PROVE UNCHANGED disp
        <3>1. PICK new \in RequestRow : Begin(r, new)
            BY <1>0, <2>1, BeginsFresh
        <3> QED
            BY <3>1 DEF Begin
    <2> QED
        BY <2>1 DEF Next, BeginAny, RequestStep, JobStep, RequestDies, enqueue_evidence_retention,
            RetentionEnds, cancel_job, retry_job, WorkerDies, RecoverJob,
            update_evidence_governance, AssignTask,
            DeleteNow, delete_evidence_record, Review, EnqueueDisposition, StartJob,
            LoadDisposition, verify_object_lock, delete_evidence, SelectExpired,
            JobReturns, JobRaises, JobCancelled
<1> QED
    BY <1>1, <1>2, <1>3, <1>4, <1>5, <1>6, <1>7

\* A sanction is never lost, and a decision or execution needs one.
LEMMA SanctionsStay ==
    ASSUME EvidenceInv, Next, NEW d \in Dispositions
    PROVE  /\ Sanctioned(d) => Sanctioned(d)'
           /\ disp'[d].status \in {"approved", "executed"} => Sanctioned(d)'
           /\ d \in hist'.rejected => disp'[d].status = "rejected" \/ d \in hist'.met
           /\ disp'[d].status # "absent" => disp'[d].evidence \in Evidence
           /\ disp[d].status # "absent" =>
                /\ disp'[d].status # "absent"
                /\ disp'[d].evidence = disp[d].evidence
                /\ disp'[d].by = disp[d].by
<1>0. /\ Types /\ RequestsCarry /\ RequestsMeet /\ DispositionsDecided
      /\ disp \in [Dispositions -> Disposition]
    BY TypesUnfold DEF EvidenceInv
<1>m. hist.met \subseteq hist'.met
    BY <1>0, HistGrows
<1>1. CASE Kept(d)
    BY <1>0, <1>1, <1>m DEF Kept, Sanctioned, DispositionsDecided
<1>2. CASE Requested(d)
    BY <1>0, <1>2, <1>m DEF Requested, Sanctioned, DispositionsDecided
<1>3. ASSUME NEW r \in Requests, Decided(d, r)
      PROVE  /\ Sanctioned(d) => Sanctioned(d)'
             /\ disp'[d].status = "approved" => Sanctioned(d)'
             /\ disp'[d].status \in {"approved", "rejected"}
             /\ d \in hist'.rejected => disp'[d].status = "rejected" \/ d \in hist'.met
             /\ disp'[d].evidence = disp[d].evidence /\ disp'[d].by = disp[d].by
             /\ disp[d].status # "absent"
    <2>0. /\ req[r].about = d /\ req[r].place = "commit" /\ req[r].kind \in {"approve", "reject"}
          /\ disp'[d].evidence = disp[d].evidence /\ disp'[d].by = disp[d].by
        BY <1>3 DEF Decided
    <2>1. disp[d].status = "pending" \/ d \in hist.met
        BY <1>0, <2>0 DEF RequestsMeet
    <2>2. disp[d].status # "absent"
        BY <1>0, <2>0 DEF RequestsCarry, RequestCarries
    <2>3. CASE req[r].kind = "approve"
        <3>1. /\ disp'[d].status = "approved" /\ disp'[d].approver = req[r].by
              /\ d \in hist'.rejected <=> d \in hist.rejected
            BY <1>3, <2>3 DEF Decided
        <3>2. req[r].by \in Identities /\ MayApprove(d, req[r].by)
            BY <1>0, <2>0, <2>3 DEF RequestsCarry, RequestCarries
        <3>3. d \in hist.rejected => d \in hist.met
            BY <1>0, <2>1 DEF DispositionsDecided
        <3>4. Sanctioned(d)'
            BY <1>m, <2>0, <3>1, <3>2, <3>3, EvidenceAssumption DEF Sanctioned, MayApprove, NoOne
        <3> QED
            BY <1>m, <2>0, <2>2, <3>1, <3>3, <3>4
    <2>4. CASE req[r].kind = "reject"
        <3>1. disp'[d].status = "rejected" /\ disp'[d].approver = disp[d].approver
            BY <1>3, <2>4 DEF Decided
        <3>2. Sanctioned(d) => Sanctioned(d)'
            BY <1>m, <2>0, <2>1, <3>1 DEF Sanctioned
        <3> QED
            BY <2>0, <2>2, <3>1, <3>2
    <2> QED
        BY <2>0, <2>3, <2>4
<1>4. CASE Executed(d)
    BY <1>0, <1>4, <1>m DEF Executed, Sanctioned, DispositionsDecided
<1> QED
    BY <1>0, <1>1, <1>2, <1>3, <1>4, DispositionSteps DEF DispositionsDecided

LEMMA DispositionsDecidedKept ==
    ASSUME EvidenceInv, Next
    PROVE  DispositionsDecided'
BY SanctionsStay DEF DispositionsDecided

LEMMA ConfStays ==
    ASSUME Types, Next
    PROVE  conf' = conf
<1>1. ASSUME NEW r \in Requests, BeginAny(r) PROVE conf' = conf
    <2>1. PICK new \in RequestRow : Begin(r, new)
        BY <1>1, BeginsFresh
    <2> QED
        BY <2>1 DEF Begin
<1> QED
    BY <1>1 DEF Next, BeginAny, RequestStep, JobStep, RequestDies, enqueue_evidence_retention,
        RetentionEnds, cancel_job, retry_job, WorkerDies, RecoverJob,
        create_disposition, approve_disposition,
        reject_disposition, update_evidence_governance, AssignTask,
        DeleteNow, delete_evidence_record, Review, EnqueueDisposition, StartJob,
        LoadDisposition, verify_object_lock, delete_evidence, execute_disposition,
        SelectExpired, purge_expired_evidence, JobReturns, JobRaises, JobCancelled

-----------------------------------------------------------------------------
\* What a step of a job does to its handler and its row of the queue: past
\* the tests of LoadDisposition or SelectExpired, the batch only shrinks.
TestPasses(j) ==
    \/ /\ payload[j] # "retention"
       /\ disp[payload[j]].status = "approved"
       /\ ~records[disp[payload[j]].evidence].hold
       /\ exec'[j].batch = {disp[payload[j]].evidence}
    \/ /\ payload[j] = "retention" /\ ~conf.approval
       /\ \A e \in exec'[j].batch : e \in Evidence /\ ~records[e].hold

LEMMA HandlerSteps ==
    ASSUME EvidenceInv, NEW j \in Jobs, JobStep(j) \/ WorkerDies(j) \/ RecoverJob(j)
    PROVE  /\ UNCHANGED <<payload, req>>
           /\ \A i \in Jobs \ {j} : exec'[i] = exec[i] /\ queue'[i] = queue[i]
           /\ exec'[j].place # "idle" => queue'[j].status = "running"
           /\ queue[j].status # "absent"
           /\ exec'[j].place \in {"verify", "delete", "commit"} =>
                \/ exec[j].place = "begin" /\ TestPasses(j)
                \/ /\ exec[j].place \in {"verify", "delete"}
                   /\ exec'[j].batch \subseteq exec[j].batch
<1>0. /\ Types /\ JobsSanctioned /\ QueueTypeOK /\ QueueCounts
      /\ exec \in [Jobs -> Handler] /\ exec[j] \in Handler
    BY TypesUnfold DEF EvidenceInv
<1>q. \A i \in Jobs : exec[i].place # "idle" => queue[i].status = "running"
    BY <1>0 DEF JobsSanctioned, JobKnows
<1> DEFINE Goal == /\ UNCHANGED <<payload, req>>
                   /\ \A i \in Jobs \ {j} : exec'[i] = exec[i] /\ queue'[i] = queue[i]
                   /\ exec'[j].place # "idle" => queue'[j].status = "running"
                   /\ queue[j].status # "absent"
                   /\ exec'[j].place \in {"verify", "delete", "commit"} =>
                        \/ exec[j].place = "begin" /\ TestPasses(j)
                        \/ /\ exec[j].place \in {"verify", "delete"}
                           /\ exec'[j].batch \subseteq exec[j].batch
<1>1. CASE StartJob(j)
    <2>1. /\ \A i \in Jobs \ {j} : queue'[i] = queue[i]
          /\ queue[j].status = "pending" /\ queue'[j].status = "running"
        BY <1>0, <1>1 DEF StartJob, Claim, QueueTypeOK
    <2> QED
        BY <1>0, <1>1, <2>1 DEF StartJob, Idle
<1>2. CASE LoadDisposition(j)
    <2> DEFINE d == payload[j]
               e == disp[d].evidence
               place == IF conf.backend = "s3" THEN "verify" ELSE "delete"
               pass == disp[d].status = "approved" /\ ~records[e].hold
               next == CASE disp[d].status = "executed" -> [exec[j] EXCEPT !.place = "return"]
                         [] disp[d].status = "approved" /\ ~records[e].hold ->
                                [exec[j] EXCEPT !.batch = {e}, !.place = place]
                         [] OTHER -> [exec[j] EXCEPT !.place = "raise"]
    <2>1. /\ exec[j].place = "begin" /\ d # "retention"
          /\ exec' = [exec EXCEPT ![j] = next]
          /\ UNCHANGED <<queue, payload, req>>
        BY <1>2 DEF LoadDisposition
    <2>2. pass => next.batch = {e}
        BY <1>0 DEF Handler
    <2>3. ~pass => next.place \in {"return", "raise"}
        BY <1>0 DEF Handler
    <2> HIDE DEF next
    <2>4. exec'[j] = next /\ \A i \in Jobs \ {j} : exec'[i] = exec[i]
        BY <1>0, <2>1
    <2> QED
        BY <1>q, <2>1, <2>2, <2>3, <2>4 DEF TestPasses
<1>3. CASE verify_object_lock(j)
    BY <1>0, <1>3, <1>q DEF verify_object_lock, Go, Handler
<1>4. CASE delete_evidence(j)
    <2>1. exec[j].place = "delete" /\ UNCHANGED <<queue, payload, req>>
        BY <1>4 DEF delete_evidence
    <2>2. PICK e \in exec[j].batch :
            \/ exec' = [exec EXCEPT ![j].batch = @ \ {e}, ![j].gone = @ \cup {e},
                                    ![j].place = IF exec[j].batch = {e} THEN "commit"
                                                                        ELSE @]
            \/ exec' = [exec EXCEPT ![j] =
                    IF payload[j] # "retention" THEN [exec[j] EXCEPT !.place = "raise"]
                    ELSE [exec[j] EXCEPT !.batch = @ \ {e},
                            !.place = IF exec[j].batch = {e} THEN "commit" ELSE @]]
        BY <1>4 DEF delete_evidence
    <2> DEFINE place == IF exec[j].batch = {e} THEN "commit" ELSE exec[j].place
               first == [exec[j] EXCEPT !.batch = @ \ {e}, !.gone = @ \cup {e}, !.place = place]
               second == [exec[j] EXCEPT !.batch = @ \ {e}, !.place = place]
               third == [exec[j] EXCEPT !.place = "raise"]
    <2>3. \E next \in {first, second, third} : exec' = [exec EXCEPT ![j] = next]
        BY <1>0, <2>2
    <2>4. \A next \in {first, second, third} : next.batch \subseteq exec[j].batch
        <3> HIDE DEF place
        <3>1. first.batch = exec[j].batch \ {e}
            BY <1>0 DEF Handler
        <3>2. second.batch = exec[j].batch \ {e}
            BY <1>0 DEF Handler
        <3>3. third.batch = exec[j].batch
            BY <1>0 DEF Handler
        <3> HIDE DEF first, second, third
        <3> QED
            BY <3>1, <3>2, <3>3
    <2> HIDE DEF first, second, third
    <2>5. exec'[j].batch \subseteq exec[j].batch /\ \A i \in Jobs \ {j} : exec'[i] = exec[i]
        BY <1>0, <2>3, <2>4
    <2> QED
        BY <1>q, <2>1, <2>5
<1>5. CASE execute_disposition(j)
    BY <1>0, <1>5, <1>q DEF execute_disposition, Go, Handler
<1>6. CASE SelectExpired(j)
    <2> DEFINE due == {e \in Evidence : Purgeable(e)}
               batch == IF conf.approval THEN {e \in due : ~HasActive(e)} ELSE due
               place == IF conf.approval THEN "request" ELSE "delete"
               next == IF batch = {} THEN [exec[j] EXCEPT !.place = "return"]
                       ELSE [exec[j] EXCEPT !.batch = batch, !.place = place]
    <2>1. /\ exec[j].place = "begin" /\ payload[j] = "retention"
          /\ exec' = [exec EXCEPT ![j] = next]
          /\ UNCHANGED <<queue, payload, req>>
        BY <1>6 DEF SelectExpired
    <2>2. \A e \in batch : e \in Evidence /\ ~records[e].hold
        BY DEF Purgeable
    <2> HIDE DEF batch
    <2>3. \/ next.place = "return"
          \/ next.place = place /\ next.batch = batch
        BY <1>0 DEF Handler
    <2> HIDE DEF next
    <2>4. exec'[j] = next /\ \A i \in Jobs \ {j} : exec'[i] = exec[i]
        BY <1>0, <2>1
    <2> QED
        BY <1>q, <2>1, <2>2, <2>3, <2>4 DEF TestPasses
<1>7. CASE purge_expired_evidence(j)
    <2>1. /\ exec[j].place = "request" /\ UNCHANGED <<queue, payload, req>>
          /\ exec' = [exec EXCEPT ![j] = [exec[j] EXCEPT !.place = "return", !.batch = {}]]
        BY <1>0, <1>7 DEF purge_expired_evidence
    <2>2. [exec[j] EXCEPT !.place = "return", !.batch = {}].place = "return"
        BY <1>0 DEF Handler
    <2> QED
        BY <1>0, <1>q, <2>1, <2>2
<1>8. CASE JobReturns(j)
    BY <1>0, <1>8, <1>q, QueueSteps DEF JobReturns, Idle
<1>9. CASE JobRaises(j)
    BY <1>0, <1>9, <1>q, QueueSteps DEF JobRaises, Idle
<1>10. CASE WorkerDies(j)
    <2>1. exec' = [exec EXCEPT ![j] = [Idle EXCEPT !.place = "dead"]]
          /\ exec[j].place # "idle" /\ UNCHANGED <<queue, payload, req>>
        BY <1>10 DEF WorkerDies
    <2> QED
        BY <1>0, <1>q, <2>1 DEF Idle
<1>11. CASE RecoverJob(j)
    BY <1>0, <1>11, <1>q, QueueSteps DEF RecoverJob, Idle
<1>12. CASE JobCancelled(j)
    BY <1>0, <1>12, <1>q, QueueSteps DEF JobCancelled, Idle
<1> HIDE DEF Goal
<1>13. Goal
    BY <1>1, <1>2, <1>3, <1>4, <1>5, <1>6, <1>7, <1>8, <1>9, <1>10, <1>11, <1>12
        DEF JobStep, Goal
<1> QED
    BY <1>13 DEF Goal

\* A job without a handler is enqueued, or cancelled or retried by an operator.
EnqueuesJob(j) ==
    queue[j].status = "absent" /\ payload'[j] \in Dispositions \cup {"retention"}

OperatesJob(j) ==
    exec[j].place = "idle" /\ queue[j].status # "absent" /\ UNCHANGED payload[j]

\* A handler a step leaves alone knows what it knew.
LEMMA JobStillKnows ==
    ASSUME EvidenceInv, Next, NEW j \in Jobs, UNCHANGED exec[j],
           \/ UNCHANGED <<queue[j], payload[j]>>
           \/ EnqueuesJob(j) \/ OperatesJob(j)
    PROVE  JobKnows(j)'
<1>0. Types /\ JobsSanctioned
    BY DEF EvidenceInv
<1>1. CASE EnqueuesJob(j) \/ OperatesJob(j)
    <2>1. exec'[j].place = "idle" /\ payload'[j] \in Dispositions \cup {"retention"}
        BY <1>0, <1>1 DEF JobsSanctioned, JobKnows, EnqueuesJob, OperatesJob
    <2> QED
        BY <2>1 DEF JobKnows
<1>2. CASE UNCHANGED <<queue[j], payload[j]>>
    <2>1. conf' = conf
        BY <1>0, ConfStays
    <2>2. CASE exec[j].place \in {"verify", "delete", "commit"} /\ payload[j] # "retention"
        <3>1. payload[j] \in Dispositions /\ Sanctioned(payload[j])
            BY <1>0, <2>2 DEF JobsSanctioned, JobKnows
        <3>2. Sanctioned(payload[j])' /\ disp'[payload[j]].evidence = disp[payload[j]].evidence
            BY <1>2, <3>1, SanctionsStay DEF Sanctioned
        <3> QED
            BY <1>0, <1>2, <2>2, <3>2 DEF JobsSanctioned, JobKnows
    <2>3. CASE ~(exec[j].place \in {"verify", "delete", "commit"} /\ payload[j] # "retention")
        BY <1>0, <1>2, <2>1, <2>3 DEF JobsSanctioned, JobKnows
    <2> QED
        BY <2>2, <2>3
<1> QED
    BY <1>1, <1>2

\* Requests and the clock leave the handlers alone and enqueue at most one job.
LEMMA OthersKeepHandlers ==
    ASSUME EvidenceInv,
           \/ \E r \in Requests : BeginAny(r) \/ RequestStep(r) \/ RequestDies(r)
           \/ enqueue_evidence_retention
           \/ \E e \in Evidence : RetentionEnds(e)
           \/ \E j \in Jobs : cancel_job(j) \/ retry_job(j)
           \/ UNCHANGED vars
    PROVE  /\ UNCHANGED exec
           /\ QueueCounts'
           /\ \A j \in Jobs :
                \/ UNCHANGED <<queue[j], payload[j]>>
                \/ EnqueuesJob(j) \/ OperatesJob(j)
<1>0. /\ Types /\ QueueTypeOK /\ QueueCounts /\ RequestsCarry /\ JobsSanctioned
      /\ payload \in [Jobs -> Dispositions \cup {"none", "retention"}]
      /\ req \in [Requests -> RequestRow]
    BY TypesUnfold DEF EvidenceInv
<1> DEFINE Goal == /\ UNCHANGED exec
                   /\ QueueCounts'
                   /\ \A j \in Jobs :
                        \/ UNCHANGED <<queue[j], payload[j]>>
                        \/ EnqueuesJob(j) \/ OperatesJob(j)
<1>1. ASSUME UNCHANGED <<exec, queue, payload>> PROVE Goal
    BY <1>0, <1>1 DEF QueueCounts
<1>2. ASSUME NEW j \in Jobs, NEW what \in Dispositions \cup {"retention"}, Enqueue(j),
             payload' = [payload EXCEPT ![j] = what], UNCHANGED exec
      PROVE  Goal
    <2>1. queue[j].status = "absent" /\ QueueCounts' /\ \A i \in Jobs \ {j} : queue'[i] = queue[i]
        BY <1>0, <1>2, QueueSteps DEF Enqueue
    <2>2. payload'[j] = what /\ \A i \in Jobs \ {j} : payload'[i] = payload[i]
        BY <1>0, <1>2
    <2> QED
        BY <1>2, <2>1, <2>2 DEF EnqueuesJob
<1>3. ASSUME enqueue_evidence_retention PROVE Goal
    BY <1>2, <1>3 DEF enqueue_evidence_retention
<1>4. ASSUME NEW r \in Requests, EnqueueDisposition(r) PROVE Goal
    <2>1. req[r].about \in Dispositions
        BY <1>0, <1>4 DEF EnqueueDisposition, RequestsCarry, RequestCarries, RequestRow, Kinds
    <2> QED
        BY <1>2, <1>4, <2>1 DEF EnqueueDisposition
<1>5. ASSUME NEW r \in Requests, BeginAny(r) PROVE Goal
    <2>1. PICK new \in RequestRow : Begin(r, new)
        BY <1>0, <1>5, BeginsFresh
    <2> QED
        BY <1>1, <2>1 DEF Begin
<1>6. ASSUME NEW r \in Requests, RequestStep(r) \/ RequestDies(r), ~EnqueueDisposition(r)
      PROVE  Goal
    <2>1. UNCHANGED <<exec, queue, payload>>
        BY <1>6 DEF RequestStep, RequestDies, create_disposition, approve_disposition,
            reject_disposition, update_evidence_governance, AssignTask,
            DeleteNow, delete_evidence_record, Review
    <2> QED
        BY <1>1, <2>1
<1>7. ASSUME NEW e \in Evidence, RetentionEnds(e) PROVE Goal
    BY <1>1, <1>7 DEF RetentionEnds
<1>8. ASSUME UNCHANGED vars PROVE Goal
    BY <1>1, <1>8 DEF vars
<1>9. ASSUME NEW j \in Jobs, cancel_job(j) \/ retry_job(j) PROVE Goal
    <2>1. CASE UNCHANGED queue
        BY <1>1, <1>9, <2>1 DEF cancel_job, retry_job
    <2>2. CASE (Cancel(j) /\ queue[j].status = "pending") \/ Retry(j)
        <3>1. QueueCounts' /\ \A i \in Jobs \ {j} : queue'[i] = queue[i]
            BY <1>0, <2>2, QueueSteps
        <3>2. queue[j].status \in {"pending", "failed", "cancelled"}
            BY <2>2 DEF Retry
        <3>3. exec[j].place = "idle" /\ UNCHANGED <<exec, payload>>
            BY <1>0, <1>9, <3>2 DEF JobsSanctioned, JobKnows, cancel_job, retry_job
        <3> QED
            BY <3>1, <3>2, <3>3 DEF OperatesJob
    <2> QED
        BY <1>9, <2>1, <2>2 DEF cancel_job, retry_job
<1> HIDE DEF Goal
<1>10. Goal
    BY <1>3, <1>4, <1>5, <1>6, <1>7, <1>8, <1>9
<1> QED
    BY <1>10 DEF Goal

LEMMA JobsSanctionedKept ==
    ASSUME EvidenceInv, Next
    PROVE  JobsSanctioned'
<1>0. /\ Types /\ JobsSanctioned /\ DispositionsDecided
    BY DEF EvidenceInv
<1> SUFFICES ASSUME NEW i \in Jobs PROVE JobKnows(i)'
    BY DEF JobsSanctioned, JobKnows
<1>1. ASSUME NEW j \in Jobs, JobStep(j) \/ WorkerDies(j) \/ RecoverJob(j)
      PROVE  JobKnows(i)'
    <2>0. /\ UNCHANGED <<payload, req>>
          /\ \A k \in Jobs \ {j} : exec'[k] = exec[k] /\ queue'[k] = queue[k]
          /\ exec'[j].place # "idle" => queue'[j].status = "running"
          /\ queue[j].status # "absent"
          /\ exec'[j].place \in {"verify", "delete", "commit"} =>
                \/ exec[j].place = "begin" /\ TestPasses(j)
                \/ /\ exec[j].place \in {"verify", "delete"}
                   /\ exec'[j].batch \subseteq exec[j].batch
        BY <1>1, HandlerSteps
    <2>1. CASE i # j
        BY <2>0, <2>1, JobStillKnows
    <2>2. CASE i = j
        <3>1. conf' = conf
            BY <1>0, ConfStays
        <3>2. payload[j] \in Dispositions \cup {"retention"}
            BY <1>0, <2>0 DEF JobsSanctioned, JobKnows
        <3>3. ASSUME exec'[j].place \in {"verify", "delete", "commit"}
              PROVE  IF payload'[j] = "retention"
                     THEN ~conf'.approval
                     ELSE /\ Sanctioned(payload[j])'
                          /\ \A e \in exec'[j].batch : e = disp'[payload[j]].evidence
            <4>1. CASE payload[j] = "retention"
                <5>1. ~conf.approval
                    BY <1>0, <2>0, <3>3, <4>1 DEF TestPasses, JobsSanctioned, JobKnows
                <5> QED
                    BY <2>0, <3>1, <4>1, <5>1
            <4>2. CASE payload[j] # "retention"
                <5>1. payload[j] \in Dispositions
                    BY <3>2, <4>2
                <5>2. /\ Sanctioned(payload[j])
                      /\ \A e \in exec'[j].batch : e = disp[payload[j]].evidence
                    BY <1>0, <2>0, <3>3, <4>2, <5>1
                        DEF TestPasses, JobsSanctioned, JobKnows, DispositionsDecided
                <5>3. Sanctioned(payload[j])' /\ disp'[payload[j]].evidence = disp[payload[j]].evidence
                    BY <2>0, <5>1, <5>2, SanctionsStay DEF Sanctioned
                <5> QED
                    BY <2>0, <4>2, <5>2, <5>3
            <4> QED
                BY <4>1, <4>2
        <3> QED
            BY <2>0, <2>2, <3>2, <3>3 DEF JobKnows
    <2> QED
        BY <2>1, <2>2
<1>2. ASSUME \/ \E r \in Requests : BeginAny(r) \/ RequestStep(r) \/ RequestDies(r)
             \/ enqueue_evidence_retention
             \/ \E e \in Evidence : RetentionEnds(e)
             \/ \E j \in Jobs : cancel_job(j) \/ retry_job(j)
      PROVE  JobKnows(i)'
    <2>1. /\ UNCHANGED exec[i]
          /\ \/ UNCHANGED <<queue[i], payload[i]>>
             \/ EnqueuesJob(i) \/ OperatesJob(i)
        BY <1>2, OthersKeepHandlers
    <2> QED
        BY <2>1, JobStillKnows
<1> QED
    BY <1>1, <1>2 DEF Next, BeginAny

LEMMA QueueCountsKept ==
    ASSUME EvidenceInv, Next
    PROVE  QueueCounts'
<1>0. /\ Types /\ QueueTypeOK /\ QueueCounts
    BY TypesUnfold DEF EvidenceInv
<1>1. ASSUME NEW j \in Jobs, JobStep(j) \/ WorkerDies(j) \/ RecoverJob(j)
      PROVE  QueueCounts'
    <2>1. CASE Claim(j) \/ Complete(j) \/ Fail(j) \/ Recover({j}) \/ Cancel(j)
        BY <1>0, <2>1, QueueSteps
    <2>2. CASE UNCHANGED queue
        BY <1>0, <2>2 DEF QueueCounts
    <2> QED
        BY <1>1, <2>1, <2>2 DEF JobStep, WorkerDies, RecoverJob, StartJob, LoadDisposition,
            verify_object_lock, delete_evidence, execute_disposition, SelectExpired,
            purge_expired_evidence, JobReturns, JobRaises, JobCancelled
<1> QED
    BY <1>1, OthersKeepHandlers DEF Next, BeginAny

-----------------------------------------------------------------------------
\* An object is deleted by a handler whose tests passed, or by a direct
\* deletion, which needs the settings to allow it.
DeletesNow(e) ==
    \/ \E j \in Jobs : exec[j].place = "delete" /\ e \in exec[j].batch
    \/ \E r \in Requests : /\ req[r].kind = "delete" /\ req[r].place = "delete"
                           /\ req[r].on = e

LEMMA ObjectSteps ==
    ASSUME Types, Next, NEW e \in Evidence, object[e].exists, ~object'[e].exists
    PROVE  DeletesNow(e)
<1>0. object \in [Evidence -> Object] /\ exec \in [Jobs -> Handler]
    BY TypesUnfold
<1>1. ASSUME NEW f \in Evidence, object' = [object EXCEPT ![f].exists = FALSE]
      PROVE  e = f
    BY <1>0, <1>1 DEF Object
<1>2. ASSUME NEW j \in Jobs, delete_evidence(j)
      PROVE  DeletesNow(e)
    <2>1. PICK f \in exec[j].batch : object' = [object EXCEPT ![f].exists = FALSE]
                                     \/ UNCHANGED object
        BY <1>2 DEF delete_evidence
    <2>2. f \in Evidence /\ exec[j].place = "delete"
        BY <1>0, <1>2 DEF Handler, delete_evidence
    <2> QED
        BY <1>1, <2>1, <2>2 DEF DeletesNow
<1>3. ASSUME NEW r \in Requests, DeleteNow(r)
      PROVE  DeletesNow(e)
    <2>1. CASE object' = [object EXCEPT ![req[r].on].exists = FALSE]
        <3>1. req[r].on = e
            BY <1>0, <2>1 DEF Object
        <3> QED
            BY <1>3, <3>1 DEF DeleteNow, DeletesNow
    <2> QED
        BY <1>3, <2>1 DEF DeleteNow
<1>4. ASSUME NEW r \in Requests, BeginAny(r) PROVE UNCHANGED object
    <2>1. PICK new \in RequestRow : Begin(r, new)
        BY <1>4, BeginsFresh
    <2> QED
        BY <2>1 DEF Begin
<1>5. \/ UNCHANGED object
      \/ \E j \in Jobs : delete_evidence(j)
      \/ \E r \in Requests : DeleteNow(r)
    BY <1>4 DEF Next, BeginAny, RequestStep, JobStep, RequestDies, enqueue_evidence_retention,
        RetentionEnds, cancel_job, retry_job, WorkerDies, RecoverJob,
        create_disposition, approve_disposition,
        reject_disposition, update_evidence_governance, AssignTask,
        delete_evidence_record, Review, EnqueueDisposition, StartJob,
        LoadDisposition, verify_object_lock, execute_disposition,
        SelectExpired, purge_expired_evidence, JobReturns, JobRaises, JobCancelled
<1> QED
    BY <1>2, <1>3, <1>5

LEMMA DeletedWasSanctionedKept ==
    ASSUME EvidenceInv, Next
    PROVE  DeletedWasSanctioned'
<1>0. /\ Types /\ RequestsCarry /\ JobsSanctioned /\ DeletedWasSanctioned
    BY DEF EvidenceInv
<1>c. conf' = conf
    BY <1>0, ConfStays
<1> SUFFICES ASSUME conf.approval, NEW e \in Evidence, ~object'[e].exists
             PROVE  \E d \in Dispositions : disp'[d].evidence = e /\ Sanctioned(d)'
    BY <1>c DEF DeletedWasSanctioned
<1>1. \E d \in Dispositions : disp[d].evidence = e /\ Sanctioned(d)
    <2>1. CASE ~object[e].exists
        BY <1>0, <2>1 DEF DeletedWasSanctioned
    <2>2. CASE object[e].exists
        <3>1. DeletesNow(e)
            BY <1>0, <2>2, ObjectSteps
        <3>2. PICK j \in Jobs : exec[j].place = "delete" /\ e \in exec[j].batch
            BY <1>0, <3>1 DEF DeletesNow, RequestsCarry, RequestCarries
        <3>3. payload[j] \in Dispositions
            BY <1>0, <3>2, HandlersNameWork DEF JobsSanctioned, JobKnows
        <3> QED
            BY <1>0, <3>2, <3>3 DEF JobsSanctioned, JobKnows
    <2> QED
        BY <2>1, <2>2
<1>2. PICK d \in Dispositions : disp[d].evidence = e /\ Sanctioned(d)
    BY <1>1
<1>3. disp'[d].evidence = e /\ Sanctioned(d)'
    BY <1>2, SanctionsStay DEF Sanctioned
<1> QED
    BY <1>3

-----------------------------------------------------------------------------
\* What a step does to one slot of the requests.
SlotBegins(q) == \E new \in RequestRow : Begin(q, new) /\ Fresh(new) /\ req'[q] = new

SlotCreates(q) ==
    /\ req[q].kind = "request" /\ req[q].place = "commit"
    /\ req'[q].kind = "request" /\ req'[q].place = "review"
    /\ req'[q].about \in Dispositions
    /\ disp[req'[q].about].status = "absent" /\ disp'[req'[q].about].status = "pending"
    /\ UNCHANGED <<hist, tasks>> /\ \A p \in Requests \ {q} : req'[p] = req[p]

SlotMoves(q) ==
    /\ \/ /\ req[q].kind \in {"approve", "reject"}
          /\ req[q].place = "commit" /\ req'[q].place = "review"
       \/ req[q].kind = "approve" /\ req[q].place = "review" /\ req'[q].place = "enqueue"
       \/ req[q].kind = "delete" /\ req[q].place = "delete" /\ req'[q].place = "commit"
    /\ UNCHANGED <<req[q].kind, req[q].about, req[q].on, req[q].by, req[q].task, req[q].copy,
                   req[q].set>>

LEMMA SlotSteps ==
    ASSUME Types, Next, NEW q \in Requests
    PROVE  \/ UNCHANGED req[q]
           \/ /\ \A p \in Requests \ {q} : UNCHANGED req[p]
              /\ \/ req'[q] = NoRequest
                 \/ SlotBegins(q)
                 \/ SlotCreates(q)
                 \/ SlotMoves(q)
<1>0. /\ req \in [Requests -> RequestRow] /\ disp \in [Dispositions -> Disposition]
    BY TypesUnfold
<1> DEFINE Goal == \/ UNCHANGED req[q]
                   \/ /\ \A p \in Requests \ {q} : UNCHANGED req[p]
                      /\ \/ req'[q] = NoRequest
                         \/ SlotBegins(q)
                         \/ SlotCreates(q)
                         \/ SlotMoves(q)
<1>1. ASSUME NEW r \in Requests, BeginAny(r) PROVE Goal
    <2>1. PICK new \in RequestRow : Begin(r, new) /\ Fresh(new)
        BY <1>1, BeginsFresh
    <2>2. req'[r] = new /\ \A p \in Requests \ {r} : req'[p] = req[p]
        BY <2>1, SlotChanges DEF Begin
    <2> QED
        BY <2>1, <2>2 DEF SlotBegins
<1>2. ASSUME NEW r \in Requests, create_disposition(r) PROVE Goal
    <2>1. PICK d \in Dispositions :
            /\ disp[d].status = "absent"
            /\ disp' = [disp EXCEPT ![d] = [AbsentDisposition EXCEPT
                            !.status = "pending", !.evidence = req[r].on, !.by = req[r].by]]
            /\ req' = [req EXCEPT ![r].place = "review", ![r].about = d]
        BY <1>2 DEF create_disposition, FreeDisposition
    <2>2. /\ req'[r].kind = req[r].kind /\ req'[r].place = "review" /\ req'[r].about = d
          /\ \A p \in Requests \ {r} : req'[p] = req[p]
        BY <1>0, <2>1 DEF RequestRow
    <2>3. disp'[d].status = "pending"
        BY <1>0, <2>1 DEF AbsentDisposition
    <2>4. /\ req[r].kind = "request" /\ req[r].place = "commit"
          /\ UNCHANGED <<hist, tasks>>
        BY <1>2 DEF create_disposition
    <2>5. SlotCreates(r)
        BY <2>1, <2>2, <2>3, <2>4 DEF SlotCreates
    <2> QED
        BY <2>2, <2>5
<1>3. ASSUME NEW r \in Requests, approve_disposition(r) \/ reject_disposition(r) PROVE Goal
    <2>1. /\ req[r].kind \in {"approve", "reject"} /\ req[r].place = "commit"
          /\ Continue(r, "review")
        BY <1>3 DEF approve_disposition, reject_disposition
    <2> QED
        BY <2>1, SlotContinues DEF SlotMoves
<1>4. ASSUME NEW r \in Requests, Review(r) PROVE Goal
    <2>1. CASE req[r].kind = "approve"
        BY <1>4, <2>1, SlotContinues DEF Review, SlotMoves
    <2>2. CASE req[r].kind # "approve"
        BY <1>4, <2>2, SlotDone DEF Review
    <2> QED
        BY <2>1, <2>2
<1>5. ASSUME NEW r \in Requests, DeleteNow(r) PROVE Goal
    <2>1. CASE Continue(r, "commit")
        BY <1>5, <2>1, SlotContinues DEF DeleteNow, SlotMoves
    <2>2. CASE Done(r)
        BY <2>2, SlotDone
    <2> QED
        BY <1>5, <2>1, <2>2 DEF DeleteNow
<1>6. ASSUME NEW r \in Requests, Done(r) PROVE Goal
    BY <1>6, SlotDone
<1>7. UNCHANGED req => Goal
    OBVIOUS
<1>8. \/ UNCHANGED req
      \/ \E r \in Requests : \/ BeginAny(r) \/ create_disposition(r) \/ approve_disposition(r)
                             \/ reject_disposition(r) \/ Review(r) \/ DeleteNow(r) \/ Done(r)
    BY DEF Next, BeginAny, RequestStep, JobStep, RequestDies, enqueue_evidence_retention,
        RetentionEnds, cancel_job, retry_job, WorkerDies, RecoverJob,
        update_evidence_governance, AssignTask,
        delete_evidence_record, EnqueueDisposition, StartJob,
        LoadDisposition, verify_object_lock, delete_evidence, execute_disposition,
        SelectExpired, purge_expired_evidence, JobReturns, JobRaises, JobCancelled
<1> HIDE DEF Goal
<1>9. Goal
    BY <1>1, <1>2, <1>3, <1>4, <1>5, <1>6, <1>7, <1>8
<1> QED
    BY <1>9 DEF Goal

\* A hold placed on a record that is being deleted is late.
LEMMA HoldSteps ==
    ASSUME Types, RequestsCarry, Next, NEW e \in Evidence, ~records[e].hold, records'[e].hold
    PROVE  /\ Deleting(e) => e \in hist'.late
           /\ UNCHANGED exec
           /\ \E r \in Requests : Done(r)
<1>0. /\ records \in [Evidence -> Record] /\ hist \in Hist
    BY TypesUnfold
<1>1. ASSUME NEW r \in Requests, update_evidence_governance(r)
      PROVE  /\ Deleting(e) => e \in hist'.late
             /\ UNCHANGED exec
             /\ Done(r)
    <2>1. /\ req[r].on \in Evidence
          /\ records' = [records EXCEPT ![req[r].on] = Governed(@, req[r].set)]
          /\ hist' = IF Deleting(req[r].on) /\ records'[req[r].on] # records[req[r].on]
                     THEN [hist EXCEPT !.late = @ \cup {req[r].on}] ELSE hist
          /\ UNCHANGED exec /\ Done(r)
        BY <1>1 DEF update_evidence_governance, RequestsCarry, RequestCarries
    <2>2. req[r].on = e
        BY <1>0, <2>1
    <2>3. records'[e] # records[e]
        OBVIOUS
    <2>4. Deleting(e) => hist'.late = hist.late \cup {e}
        BY <1>0, <2>1, <2>2, <2>3 DEF Hist
    <2> QED
        BY <2>1, <2>4
<1>2. ASSUME NEW r \in Requests, delete_evidence_record(r) PROVE FALSE
    BY <1>0, <1>2 DEF delete_evidence_record, Record
<1>3. ASSUME NEW j \in Jobs, execute_disposition(j) PROVE FALSE
    BY <1>0, <1>3 DEF execute_disposition, Deleted, Record
<1>4. ASSUME NEW f \in Evidence, RetentionEnds(f) PROVE FALSE
    BY <1>0, <1>4 DEF RetentionEnds, Record
<1>5. ASSUME NEW r \in Requests, BeginAny(r) PROVE FALSE
    <2>1. PICK new \in RequestRow : Begin(r, new)
        BY <1>5, BeginsFresh
    <2> QED
        BY <2>1 DEF Begin
<1>6. ~UNCHANGED records
    OBVIOUS
<1>7. \E r \in Requests : update_evidence_governance(r)
    BY <1>2, <1>3, <1>4, <1>5, <1>6 DEF Next, BeginAny, RequestStep, JobStep, RequestDies,
        enqueue_evidence_retention, cancel_job, retry_job, WorkerDies, RecoverJob,
        create_disposition,
        approve_disposition, reject_disposition, AssignTask, DeleteNow, Review,
        EnqueueDisposition, StartJob, LoadDisposition, verify_object_lock, delete_evidence,
        SelectExpired, purge_expired_evidence, JobReturns, JobRaises, JobCancelled
<1> QED
    BY <1>1, <1>7

\* Whoever is about to delete a record was about to, or has just seen it free.
LEMMA DeletingSteps ==
    ASSUME EvidenceInv, Next, NEW e \in Evidence, Deleting(e)'
    PROVE  Deleting(e) \/ (~records[e].hold /\ UNCHANGED records)
<1>0. /\ Types /\ DispositionsDecided /\ exec \in [Jobs -> Handler]
      /\ req \in [Requests -> RequestRow]
    BY TypesUnfold DEF EvidenceInv
<1>1. ASSUME NEW r \in Requests, req'[r].place = "delete", req'[r].on = e
      PROVE  Deleting(e) \/ (~records[e].hold /\ UNCHANGED records)
    <2>1. CASE UNCHANGED req[r]
        BY <1>1, <2>1 DEF Deleting
    <2>2. CASE SlotBegins(r)
        BY <1>1, <2>2 DEF SlotBegins, Begin, Fresh
    <2>3. CASE req'[r] = NoRequest \/ SlotCreates(r) \/ SlotMoves(r)
        BY <1>1, <2>3 DEF NoRequest, SlotCreates, SlotMoves
    <2> QED
        BY <1>0, <2>1, <2>2, <2>3, SlotSteps
<1>2. ASSUME NEW i \in Jobs, exec'[i].place \in {"verify", "delete"}, e \in exec'[i].batch
      PROVE  Deleting(e) \/ (~records[e].hold /\ UNCHANGED records)
    <2>1. CASE UNCHANGED exec[i]
        BY <1>2, <2>1 DEF Deleting
    <2>2. ASSUME NEW j \in Jobs, JobStep(j) \/ WorkerDies(j) \/ RecoverJob(j)
          PROVE  Deleting(e) \/ (~records[e].hold /\ UNCHANGED records)
        <3>1. /\ \A k \in Jobs \ {j} : exec'[k] = exec[k]
              /\ exec'[j].place \in {"verify", "delete", "commit"} =>
                    \/ exec[j].place = "begin" /\ TestPasses(j)
                    \/ /\ exec[j].place \in {"verify", "delete"}
                       /\ exec'[j].batch \subseteq exec[j].batch
            BY <2>2, HandlerSteps
        <3>2. CASE i # j
            BY <2>1, <3>1, <3>2
        <3>3. CASE i = j /\ exec[j].place = "begin" /\ TestPasses(j)
            <4>1. ~records[e].hold
                BY <1>2, <3>3 DEF TestPasses
            <4>2. UNCHANGED records
                BY <2>2, <3>3 DEF JobStep, WorkerDies, RecoverJob, StartJob, LoadDisposition,
                    verify_object_lock, delete_evidence, execute_disposition, SelectExpired,
                    purge_expired_evidence, JobReturns, JobRaises, JobCancelled
            <4> QED
                BY <4>1, <4>2
        <3>4. CASE /\ i = j /\ exec[j].place \in {"verify", "delete"}
                   /\ exec'[j].batch \subseteq exec[j].batch
            BY <1>2, <3>4 DEF Deleting
        <3> QED
            BY <1>2, <3>1, <3>2, <3>3, <3>4
    <2>3. ASSUME \/ \E r \in Requests : BeginAny(r) \/ RequestStep(r) \/ RequestDies(r)
                 \/ enqueue_evidence_retention
                 \/ \E f \in Evidence : RetentionEnds(f)
                 \/ \E j \in Jobs : cancel_job(j) \/ retry_job(j)
          PROVE  UNCHANGED exec[i]
        BY <2>3, OthersKeepHandlers
    <2> QED
        BY <2>1, <2>2, <2>3 DEF Next, BeginAny
<1> QED
    BY <1>1, <1>2 DEF Deleting

LEMMA HoldsSeenKept ==
    ASSUME EvidenceInv, Next
    PROVE  HoldsSeen'
<1>0. Types /\ HoldsSeen /\ RequestsCarry
    BY DEF EvidenceInv
<1>1. SUFFICES ASSUME NEW e \in Evidence, Deleting(e)', records'[e].hold
               PROVE  e \in hist'.late
    BY DEF HoldsSeen
<1>2. Deleting(e)
    <2>1. Deleting(e) \/ (~records[e].hold /\ UNCHANGED records)
        BY <1>1, DeletingSteps
    <2> QED
        BY <1>1, <2>1
<1>3. CASE records[e].hold
    BY <1>0, <1>2, <1>3, HistGrows DEF HoldsSeen
<1>4. CASE ~records[e].hold
    BY <1>0, <1>1, <1>2, <1>4, HoldSteps
<1> QED
    BY <1>3, <1>4

-----------------------------------------------------------------------------
\* What a step does to one review task: a request opens it, a decision
\* completes it, an assignment overwrites its status; its subject stays.
TaskOpened(t) ==
    /\ tasks[t].subject = "none"
    /\ \E r \in Requests :
        /\ req[r].kind = "request" /\ req[r].place = "review"
        /\ tasks'[t].subject = req[r].about

TaskAssigned(t) ==
    /\ \E r \in Requests : req[r].kind = "assign" /\ req[r].task = t
    /\ tasks'[t].subject = tasks[t].subject

TaskCompleted(t) ==
    /\ tasks'[t].subject = tasks[t].subject
    /\ tasks'[t].status = "completed"

LEMMA TaskSteps ==
    ASSUME Types, RequestsCarry, Next, NEW t \in Tasks
    PROVE  \/ UNCHANGED tasks[t]
           \/ TaskCompleted(t)
           \/ /\ TaskOpened(t) \/ TaskAssigned(t)
              /\ UNCHANGED <<disp, hist>>
<1>0. tasks \in [Tasks -> Task] /\ req \in [Requests -> RequestRow]
    BY TypesUnfold
<1> DEFINE Goal == \/ UNCHANGED tasks[t]
                   \/ TaskCompleted(t)
                   \/ /\ TaskOpened(t) \/ TaskAssigned(t)
                      /\ UNCHANGED <<disp, hist>>
<1>1. ASSUME NEW r \in Requests, Review(r), req[r].kind = "request" PROVE Goal
    <2>1. create_review_task(req[r].about) /\ req[r].place = "review" /\ UNCHANGED <<disp, hist>>
        BY <1>1 DEF Review
    <2>2. CASE UNCHANGED tasks
        BY <2>2
    <2>3. ASSUME NEW s \in Tasks, tasks[s].subject = "none",
                 tasks' = [tasks EXCEPT ![s] = [subject |-> req[r].about, status |-> "open"]]
          PROVE  Goal
        <3>1. CASE s = t
            <4>1. tasks'[t].subject = req[r].about
                BY <1>0, <2>3, <3>1
            <4> QED
                BY <1>1, <2>1, <2>3, <3>1, <4>1 DEF TaskOpened
        <3>2. CASE s # t
            BY <1>0, <2>3, <3>2
        <3> QED
            BY <3>1, <3>2
    <2> QED
        BY <2>1, <2>2, <2>3 DEF create_review_task
<1>2. ASSUME NEW r \in Requests, Review(r), req[r].kind # "request" PROVE Goal
    <2>1. tasks' = [x \in Tasks |-> IF x \in OpenFor(req[r].about)
                                    THEN [tasks[x] EXCEPT !.status = "completed"]
                                    ELSE tasks[x]]
        BY <1>2 DEF Review, complete_review_task
    <2>2. CASE t \in OpenFor(req[r].about)
        <3>1. tasks'[t] = [tasks[t] EXCEPT !.status = "completed"]
            BY <2>1, <2>2
        <3> QED
            BY <1>0, <3>1 DEF TaskCompleted, Task
    <2> QED
        BY <2>1, <2>2
<1>3. ASSUME NEW r \in Requests, AssignTask(r) PROVE Goal
    <2>1. /\ req[r].kind = "assign" /\ req[r].task \in Tasks /\ UNCHANGED <<disp, hist>>
          /\ assign_review_task(req[r].task, req[r].copy)
        BY <1>3 DEF AssignTask, RequestsCarry, RequestCarries
    <2> DEFINE s == IF req[r].copy = "in-progress" THEN tasks[req[r].task].status
                    ELSE "in-progress"
    <2>2. tasks' = [tasks EXCEPT ![req[r].task].status = s]
        BY <2>1 DEF assign_review_task
    <2> HIDE DEF s
    <2>3. CASE req[r].task = t
        BY <1>0, <2>1, <2>2, <2>3 DEF TaskAssigned, Task
    <2>4. CASE req[r].task # t
        BY <1>0, <2>1, <2>2, <2>4
    <2> QED
        BY <2>3, <2>4
<1>4. ASSUME NEW r \in Requests, BeginAny(r) PROVE UNCHANGED tasks
    <2>1. PICK new \in RequestRow : Begin(r, new)
        BY <1>4, BeginsFresh
    <2> QED
        BY <2>1 DEF Begin
<1>5. \/ UNCHANGED tasks
      \/ \E r \in Requests : Review(r) \/ AssignTask(r)
    BY <1>4 DEF Next, BeginAny, RequestStep, JobStep, RequestDies, enqueue_evidence_retention,
        RetentionEnds, cancel_job, retry_job, WorkerDies, RecoverJob,
        create_disposition, approve_disposition,
        reject_disposition, update_evidence_governance,
        DeleteNow, delete_evidence_record, EnqueueDisposition, StartJob,
        LoadDisposition, verify_object_lock, delete_evidence, execute_disposition,
        SelectExpired, purge_expired_evidence, JobReturns, JobRaises, JobCancelled
<1>6. UNCHANGED tasks => Goal
    OBVIOUS
<1> HIDE DEF Goal
<1>7. Goal
    BY <1>1, <1>2, <1>3, <1>5, <1>6
<1> QED
    BY <1>7 DEF Goal

LEMMA SubjectsStay ==
    ASSUME EvidenceInv, Next, NEW t \in Tasks, tasks[t].subject \in Dispositions
    PROVE  tasks'[t].subject = tasks[t].subject
BY TaskSteps, EvidenceAssumption DEF EvidenceInv, TaskCompleted, TaskOpened, TaskAssigned

LEMMA TasksHaveSubjectsKept ==
    ASSUME EvidenceInv, Next
    PROVE  TasksHaveSubjects'
<1>0. /\ Types /\ RequestsCarry /\ TasksHaveSubjects
    BY DEF EvidenceInv
<1> SUFFICES ASSUME NEW t \in Tasks, tasks'[t].subject \in Dispositions
             PROVE  disp'[tasks'[t].subject].status # "absent"
    BY DEF TasksHaveSubjects
<1>1. CASE tasks'[t].subject = tasks[t].subject
    BY <1>0, <1>1, SanctionsStay DEF TasksHaveSubjects
<1>2. CASE TaskOpened(t)
    <2>1. disp[tasks'[t].subject].status # "absent"
        BY <1>0, <1>2 DEF TaskOpened, RequestsCarry, RequestCarries
    <2> QED
        BY <2>1, SanctionsStay
<1> QED
    BY <1>0, <1>1, <1>2, TaskSteps DEF TaskAssigned, TaskCompleted

\* A request whose fields stay still carries them.
LEMMA CarriesOn ==
    ASSUME EvidenceInv, Next, NEW r \in Requests, RequestCarries(r),
           UNCHANGED <<req[r].kind, req[r].about, req[r].on, req[r].by, req[r].task, req[r].copy,
                       req[r].set>>,
           UNCHANGED req[r].place \/ SlotMoves(r)
    PROVE  RequestCarries(r)'
<1>1. conf' = conf
    BY ConfStays DEF EvidenceInv
<1>2. req[r].about \in Dispositions =>
        /\ disp'[req[r].about].status # "absent"
        /\ disp'[req[r].about].by = disp[req[r].about].by
    BY SanctionsStay DEF RequestCarries
<1>3. req[r].kind = "assign" => tasks'[req[r].task].subject = req[r].about
    BY SubjectsStay DEF RequestCarries
<1>4. UNCHANGED req[r].place => RequestCarries(r)'
    BY <1>1, <1>2, <1>3 DEF RequestCarries, MayApprove
<1>5. SlotMoves(r) => RequestCarries(r)'
    BY <1>1, <1>2, <1>3 DEF RequestCarries, MayApprove, SlotMoves
<1> QED
    BY <1>4, <1>5

LEMMA RequestsCarryKept ==
    ASSUME EvidenceInv, Next
    PROVE  RequestsCarry'
<1>0. Types /\ RequestsCarry /\ TasksHaveSubjects
    BY DEF EvidenceInv
<1> SUFFICES ASSUME NEW r \in Requests PROVE RequestCarries(r)'
    BY DEF RequestsCarry, RequestCarries
<1>1. RequestCarries(r)
    BY <1>0 DEF RequestsCarry, RequestCarries
<1>2. CASE UNCHANGED req[r]
    BY <1>1, <1>2, CarriesOn
<1>3. CASE req'[r] = NoRequest
    BY <1>3, EvidenceAssumption DEF NoRequest, RequestCarries, NoOne
<1>4. CASE SlotBegins(r)
    <2>1. PICK new \in RequestRow : Begin(r, new) /\ Fresh(new) /\ req'[r] = new
        BY <1>4 DEF SlotBegins
    <2>2. UNCHANGED <<conf, disp, tasks>>
        BY <2>1 DEF Begin
    <2>3. new.kind = "assign" =>
            /\ tasks[new.task].subject = new.about
            /\ disp[new.about].status # "absent"
        BY <1>0, <2>1 DEF Fresh, IsOpen, TasksHaveSubjects
    <2> QED
        BY <2>1, <2>2, <2>3, EvidenceAssumption DEF Fresh, RequestCarries, MayApprove
<1>5. CASE SlotCreates(r)
    BY <1>5 DEF SlotCreates, RequestCarries
<1>6. CASE SlotMoves(r)
    BY <1>1, <1>6, CarriesOn DEF SlotMoves
<1> QED
    BY <1>0, <1>2, <1>3, <1>4, <1>5, <1>6, SlotSteps

-----------------------------------------------------------------------------
\* A pending disposition is decided by a request about it and no other way.
LEMMA PendingSteps ==
    ASSUME EvidenceInv, Next, NEW d \in Dispositions, disp[d].status = "pending"
    PROVE  \/ disp'[d].status = "pending"
           \/ \E r \in Requests : Decided(d, r)
<1>1. ~Requested(d) /\ ~Executed(d)
    BY DEF Requested, Executed, Sanctioned
<1> QED
    BY <1>1, DispositionSteps DEF Kept

\* Two requests on one disposition met when the later one began.
LEMMA MeetingsKept ==
    ASSUME EvidenceInv, Next, NEW r \in Requests, NEW q \in Requests, r # q,
           req'[r].about = req'[q].about, req'[r].about # "none"
    PROVE  req'[r].about \in hist'.met
<1>0. /\ Types /\ RequestsMeet /\ RequestsCarry /\ hist \in Hist
      /\ req \in [Requests -> RequestRow]
      /\ hist.met \subseteq hist'.met
    BY TypesUnfold, HistGrows DEF EvidenceInv
<1>1. ASSUME NEW a \in Requests, NEW b \in Requests, a # b, UNCHANGED req[b],
             req'[a].about = req'[b].about, req'[a].about # "none"
      PROVE  req'[a].about \in hist'.met
    <2>1. CASE UNCHANGED req[a] \/ SlotMoves(a)
        BY <1>0, <1>1, <2>1 DEF RequestsMeet, SlotMoves
    <2>2. CASE req'[a] = NoRequest
        BY <1>1, <2>2 DEF NoRequest
    <2>3. CASE SlotBegins(a)
        <3>1. PICK new \in RequestRow : Begin(a, new) /\ req'[a] = new
            BY <2>3 DEF SlotBegins
        <3>2. Meets(a, new.about)
            BY <1>1, <3>1 DEF Meets
        <3>3. hist' = [hist EXCEPT !.requests = @ + 1, !.met = @ \cup {new.about}]
            BY <3>1, <3>2 DEF Begin
        <3> QED
            BY <1>0, <3>1, <3>3 DEF Hist
    <2>4. CASE SlotCreates(a)
        BY <1>0, <1>1, <2>4 DEF SlotCreates, RequestsCarry, RequestCarries
    <2> QED
        BY <1>0, <2>1, <2>2, <2>3, <2>4, SlotSteps
<1>2. UNCHANGED req[r] \/ UNCHANGED req[q]
    BY <1>0, SlotSteps
<1> QED
    BY <1>1, <1>2

\* A request that still has to rely on its disposition being pending.
Relies(r) ==
    \/ req[r].kind \in {"approve", "reject"} /\ req[r].place = "commit"
    \/ req[r].kind = "request" /\ req[r].place = "review"
    \/ req[r].kind = "assign" /\ hist.crashes = 0

LEMMA ReliancesKept ==
    ASSUME EvidenceInv, Next, NEW r \in Requests, Relies(r)'
    PROVE  disp'[req'[r].about].status = "pending" \/ req'[r].about \in hist'.met
<1>0. /\ Types /\ RequestsMeet /\ RequestsCarry /\ ReviewsClose /\ hist \in Hist
      /\ req \in [Requests -> RequestRow]
      /\ hist.met \subseteq hist'.met
      /\ hist.crashes \in Nat /\ (hist.crashes > 0 => hist'.crashes > 0)
    BY TypesUnfold, HistGrows DEF EvidenceInv, Hist
<1>1. CASE UNCHANGED req[r]
    <2>1. Relies(r)
        BY <1>0, <1>1 DEF Relies
    <2>2. /\ req[r].about \in Dispositions
          /\ disp[req[r].about].status = "pending" \/ req[r].about \in hist.met
        BY <1>0, <2>1 DEF Relies, RequestsMeet, RequestsCarry, RequestCarries
    <2>3. ASSUME NEW q \in Requests, Decided(req[r].about, q)
          PROVE  req[r].about \in hist.met
        <3>1. q # r
            BY <1>1, <2>3 DEF Decided
        <3> QED
            BY <1>0, <2>2, <2>3, <3>1, EvidenceAssumption DEF Decided, RequestsMeet
    <2> QED
        BY <1>0, <1>1, <2>2, <2>3, PendingSteps
<1>2. CASE req'[r] = NoRequest
    BY <1>2 DEF NoRequest, Relies
<1>3. CASE SlotBegins(r)
    <2>1. PICK new \in RequestRow : Begin(r, new) /\ Fresh(new) /\ req'[r] = new
        BY <1>3 DEF SlotBegins
    <2>2. /\ UNCHANGED disp /\ hist'.crashes = hist.crashes
          /\ req[r].kind = "idle" /\ req[r].place = "idle"
          /\ Meets(r, new.about) => new.about \in hist'.met
        BY <1>0, <2>1 DEF Begin, Hist, RequestsCarry, RequestCarries
    <2>3. CASE new.kind \in {"approve", "reject"}
        BY <2>1, <2>2, <2>3 DEF Fresh
    <2>4. CASE new.kind = "assign" /\ hist.crashes = 0
        <3>1. new.task \in Tasks /\ new.about \in Dispositions /\ IsOpen(new.task, new.about)
            BY <2>1, <2>4 DEF Fresh
        <3>2. \/ disp[new.about].status = "pending"
              \/ \E q \in Requests : req[q].about = new.about /\ req[q].place = "review"
              \/ new.about \in hist.met
            BY <1>0, <2>4, <3>1 DEF ReviewsClose
        <3>3. ASSUME NEW q \in Requests, req[q].about = new.about, req[q].place = "review"
              PROVE  Meets(r, new.about)
            BY <2>2, <3>1, <3>3, EvidenceAssumption DEF Meets
        <3> QED
            BY <1>0, <2>1, <2>2, <3>2, <3>3
    <2> QED
        BY <2>1, <2>2, <2>3, <2>4 DEF Fresh, Relies
<1>4. CASE SlotCreates(r)
    BY <1>4 DEF SlotCreates
<1>5. CASE SlotMoves(r)
    BY <1>5 DEF SlotMoves, Relies
<1> QED
    BY <1>0, <1>1, <1>2, <1>3, <1>4, <1>5, SlotSteps

LEMMA RequestsMeetKept ==
    ASSUME EvidenceInv, Next
    PROVE  RequestsMeet'
BY MeetingsKept, ReliancesKept DEF RequestsMeet, Relies

\* A request leaves the update of its review task by making it or by its death.
LEMMA ReviewingSteps ==
    ASSUME EvidenceInv, Next, NEW r \in Requests, req[r].place = "review",
           req'[r].about # req[r].about \/ req'[r].place # "review"
    PROVE  \/ Review(r)
           \/ hist'.crashes > 0
<1>0. /\ Types /\ RequestsCarry /\ req \in [Requests -> RequestRow] /\ hist \in Hist
    BY TypesUnfold DEF EvidenceInv
<1>1. ASSUME NEW q \in Requests, BeginAny(q) PROVE FALSE
    <2>1. PICK new \in RequestRow : Begin(q, new)
        BY <1>0, <1>1, BeginsFresh
    <2> QED
        BY <1>0, <2>1, SlotChanges DEF Begin, RequestsCarry, RequestCarries
<1>2. ASSUME NEW q \in Requests, RequestStep(q) PROVE Review(r)
    <2>1. q = r
        <3>1. ~UNCHANGED req[r]
            OBVIOUS
        <3>2. CASE create_disposition(q)
            BY <1>0, <3>1, <3>2 DEF create_disposition
        <3>3. CASE Done(q)
            BY <1>0, <3>1, <3>3, SlotDone
        <3>4. ASSUME NEW place \in {"commit", "review", "enqueue"}, Continue(q, place)
              PROVE  q = r
            BY <1>0, <3>1, <3>4, SlotContinues
        <3> QED
            BY <1>2, <3>2, <3>3, <3>4 DEF RequestStep, approve_disposition, reject_disposition,
                update_evidence_governance, AssignTask, DeleteNow, delete_evidence_record,
                Review, EnqueueDisposition
    <2> QED
        BY <1>2, <2>1 DEF RequestStep, create_disposition, approve_disposition,
            reject_disposition, update_evidence_governance, AssignTask, DeleteNow,
            delete_evidence_record, EnqueueDisposition
<1>3. ASSUME NEW q \in Requests, RequestDies(q) PROVE hist'.crashes > 0
    BY <1>0, <1>3 DEF RequestDies, Hist
<1>4. ~UNCHANGED req
    OBVIOUS
<1> QED
    BY <1>1, <1>2, <1>3, <1>4 DEF Next, BeginAny, JobStep, enqueue_evidence_retention,
        RetentionEnds, cancel_job, retry_job, WorkerDies, RecoverJob,
        StartJob, LoadDisposition, verify_object_lock,
        delete_evidence, execute_disposition, SelectExpired, purge_expired_evidence,
        JobReturns, JobRaises, JobCancelled

Closing(d) ==
    \/ disp[d].status = "pending"
    \/ \E r \in Requests : req[r].about = d /\ req[r].place = "review"
    \/ d \in hist.met
    \/ hist.crashes > 0

LEMMA ReviewsCloseKept ==
    ASSUME EvidenceInv, Next
    PROVE  ReviewsClose'
<1>0. /\ Types /\ RequestsMeet /\ RequestsCarry /\ ReviewsClose /\ hist \in Hist
      /\ hist.met \subseteq hist'.met
      /\ hist.crashes \in Nat /\ (hist.crashes > 0 => hist'.crashes > 0)
      /\ tasks \in [Tasks -> Task] /\ req \in [Requests -> RequestRow]
    BY TypesUnfold, HistGrows DEF EvidenceInv, Hist
<1> SUFFICES ASSUME NEW t \in Tasks, NEW d \in Dispositions, IsOpen(t, d)'
             PROVE  Closing(d)'
    BY DEF ReviewsClose, Closing
<1>1. CASE IsOpen(t, d)
    <2>1. Closing(d)
        BY <1>0, <1>1 DEF ReviewsClose, Closing
    <2>2. CASE disp[d].status = "pending"
        BY <2>2, PendingSteps DEF Closing, Decided
    <2>3. ASSUME NEW r \in Requests, req[r].about = d, req[r].place = "review"
          PROVE  Closing(d)'
        <3>1. CASE req'[r].about = d /\ req'[r].place = "review"
            BY <3>1 DEF Closing
        <3>2. CASE hist'.crashes > 0
            BY <3>2 DEF Closing
        <3>3. CASE Review(r) /\ req[r].kind = "request"
            <4>1. disp[d].status = "pending" \/ d \in hist.met
                BY <1>0, <2>3, <3>3 DEF RequestsMeet
            <4> QED
                BY <1>0, <3>3, <4>1 DEF Review, Closing
        <3>4. CASE Review(r) /\ req[r].kind # "request"
            <4>1. tasks' = [x \in Tasks |-> IF x \in OpenFor(d)
                                            THEN [tasks[x] EXCEPT !.status = "completed"]
                                            ELSE tasks[x]]
                BY <2>3, <3>4 DEF Review, complete_review_task
            <4>2. tasks'[t].status = "completed"
                BY <1>0, <1>1, <4>1 DEF OpenFor, Task
            <4> QED
                BY <4>2 DEF IsOpen, OPEN_STATUSES
        <3> QED
            BY <2>3, <3>1, <3>2, <3>3, <3>4, ReviewingSteps
    <2> QED
        BY <1>0, <2>1, <2>2, <2>3 DEF Closing
<1>2. CASE ~IsOpen(t, d)
    <2>1. ~UNCHANGED tasks[t] /\ ~TaskCompleted(t)
        BY <1>2 DEF IsOpen, TaskCompleted, OPEN_STATUSES
    <2>2. TaskOpened(t) \/ TaskAssigned(t)
        BY <1>0, <2>1, TaskSteps
    <2>3. UNCHANGED <<disp, hist>>
        BY <1>0, <2>1, TaskSteps
    <2>4. disp[d].status = "pending" \/ d \in hist.met \/ hist.crashes > 0
        <3>1. CASE TaskOpened(t)
            BY <1>0, <3>1 DEF TaskOpened, RequestsMeet, IsOpen
        <3>2. CASE TaskAssigned(t)
            BY <1>0, <3>2 DEF TaskAssigned, RequestsMeet, RequestsCarry, RequestCarries, IsOpen
        <3> QED
            BY <2>2, <3>1, <3>2
    <2> QED
        BY <2>3, <2>4 DEF Closing
<1> QED
    BY <1>1, <1>2

-----------------------------------------------------------------------------
\* A disposition d of record e, requested by i, waits for the review t.
Waiting(t, e, d, i) ==
    /\ disp = [x \in Dispositions |->
                  IF x = d THEN [AbsentDisposition EXCEPT !.status = "pending",
                                              !.evidence = e, !.by = i]
                           ELSE AbsentDisposition]
    /\ tasks = [x \in Tasks |->
                  IF x = t THEN [subject |-> d, status |-> "open"]
                           ELSE NoTask]

LEMMA InitEstablishes == Init => EvidenceInv
<1> SUFFICES ASSUME Init PROVE EvidenceInv
    OBVIOUS
<1>1. /\ queue = [j \in Jobs |-> AbsentJob]
      /\ payload = [j \in Jobs |-> "none"]
      /\ cancels = {}
      /\ exec = [j \in Jobs |-> Idle]
      /\ req = [r \in Requests |-> NoRequest]
      /\ hist = [requests |-> 0, crashes |-> 0, late |-> {}, met |-> {}, rejected |-> {},
                 torn |-> {}]
      /\ records = [e \in Evidence |-> [hold |-> FALSE, expired |-> FALSE, deleted |-> FALSE]]
      /\ conf \in [backend : {"local", "s3"}, approval : BOOLEAN]
    BY DEF Init, QueueInit
<1>2. \E locked \in BOOLEAN : object = [e \in Evidence |-> [exists |-> TRUE, locked |-> locked]]
    BY DEF Init
<1>3. \/ /\ disp = [d \in Dispositions |-> AbsentDisposition]
         /\ tasks = [t \in Tasks |-> NoTask]
      \/ \E t \in Tasks, e \in Evidence, d \in Dispositions, i \in Identities : Waiting(t, e, d, i)
    <2> DEFINE d == CHOOSE c \in Dispositions : TRUE
               i == CHOOSE c \in Identities : TRUE
    <2>1. d \in Dispositions /\ i \in Identities
        BY EvidenceAssumption
    <2>2. \/ /\ disp = [x \in Dispositions |-> AbsentDisposition]
             /\ tasks = [t \in Tasks |-> NoTask]
          \/ \E t \in Tasks, e \in Evidence : Waiting(t, e, d, i)
        BY DEF Init, ReviewsInit, Waiting
    <2> HIDE DEF d, i
    <2> QED
        BY <2>1, <2>2
<1>4. /\ queue \in [Jobs -> [status : JobStatuses, attempts : 0..MaxAttempts]]
      /\ \A j \in Jobs : queue[j].status = "absent"
    BY <1>1, EvidenceAssumption DEF AbsentJob, JobStatuses
<1>5. /\ hist \in Hist /\ hist.crashes = 0 /\ hist.rejected = {} /\ hist.met = {}
    BY <1>1, EvidenceAssumption DEF Hist
<1>6. /\ object \in [Evidence -> Object] /\ \A e \in Evidence : object[e].exists
    BY <1>2 DEF Object
<1>7. records \in [Evidence -> Record] /\ \A e \in Evidence : ~records[e].hold
    BY <1>1 DEF Record
<1>8. /\ exec \in [Jobs -> Handler] /\ \A j \in Jobs : exec[j].place = "idle"
    BY <1>1, RowTypes DEF Idle
<1>9. /\ req \in [Requests -> RequestRow] /\ \A r \in Requests : req[r] = NoRequest
    BY <1>1, RowTypes
<1>10. /\ disp \in [Dispositions -> Disposition]
       /\ tasks \in [Tasks -> Task]
       /\ \A d \in Dispositions :
            \/ disp[d].status = "absent"
            \/ disp[d].status = "pending" /\ disp[d].evidence \in Evidence
       /\ \A t \in Tasks : tasks[t].subject \in Dispositions =>
            disp[tasks[t].subject].status = "pending"
    <2> DEFINE Goal == /\ disp \in [Dispositions -> Disposition]
                       /\ tasks \in [Tasks -> Task]
                       /\ \A d \in Dispositions :
                            \/ disp[d].status = "absent"
                            \/ disp[d].status = "pending" /\ disp[d].evidence \in Evidence
                       /\ \A t \in Tasks : tasks[t].subject \in Dispositions =>
                            disp[tasks[t].subject].status = "pending"
    <2>1. ASSUME disp = [d \in Dispositions |-> AbsentDisposition],
                 tasks = [t \in Tasks |-> NoTask]
          PROVE  Goal
        BY <2>1, RowTypes, EvidenceAssumption DEF AbsentDisposition, NoTask
    <2>2. ASSUME NEW t \in Tasks, NEW e \in Evidence, NEW d \in Dispositions, NEW i \in Identities,
                 Waiting(t, e, d, i)
          PROVE  Goal
        <3> DEFINE row == [AbsentDisposition EXCEPT !.status = "pending", !.evidence = e, !.by = i]
                   task == [subject |-> d, status |-> "open"]
        <3>1. row \in Disposition /\ row.status = "pending" /\ row.evidence = e
            BY DEF AbsentDisposition, Disposition, DispositionStatuses
        <3>2. task \in Task /\ task.subject = d
            BY DEF Task, TaskStatuses
        <3>3. AbsentDisposition \in Disposition /\ AbsentDisposition.status = "absent"
              /\ NoTask \in Task /\ NoTask.subject = "none"
            BY RowTypes DEF AbsentDisposition, NoTask
        <3> HIDE DEF row, task
        <3>4. /\ disp = [x \in Dispositions |-> IF x = d THEN row ELSE AbsentDisposition]
              /\ tasks = [x \in Tasks |-> IF x = t THEN task ELSE NoTask]
            BY <2>2 DEF row, task, Waiting
        <3> QED
            BY <3>1, <3>2, <3>3, <3>4, EvidenceAssumption
    <2> HIDE DEF Goal
    <2>3. Goal
        BY <1>3, <2>1, <2>2
    <2> QED
        BY <2>3 DEF Goal
<1>11. Types
    BY <1>1, <1>4, <1>5, <1>6, <1>7, <1>8, <1>9, <1>10, TypesUnfold DEF QueueTypeOK
<1>12. RequestsCarry /\ RequestsMeet
    BY <1>9, EvidenceAssumption DEF RequestsCarry, RequestCarries, RequestsMeet, NoRequest, NoOne
<1>13. DispositionsDecided /\ JobsSanctioned /\ QueueCounts
    BY <1>4, <1>5, <1>8, <1>10 DEF DispositionsDecided, JobsSanctioned, JobKnows, QueueCounts
<1>14. HoldsSeen /\ DeletedWasSanctioned
    BY <1>6, <1>7 DEF HoldsSeen, DeletedWasSanctioned
<1>15. TasksHaveSubjects /\ ReviewsClose
    BY <1>10 DEF TasksHaveSubjects, ReviewsClose, IsOpen
<1> QED
    BY <1>11, <1>12, <1>13, <1>14, <1>15 DEF EvidenceInv

LEMMA StutterKeeps ==
    ASSUME EvidenceInv, UNCHANGED vars
    PROVE  EvidenceInv'
BY DEF EvidenceInv, vars, Types, TypeOK, QueueTypeOK, RequestsCarry, RequestCarries, RequestsMeet,
    MayApprove, DispositionsDecided, Sanctioned, JobsSanctioned, JobKnows, HoldsSeen, Deleting,
    DeletedWasSanctioned, TasksHaveSubjects, QueueCounts, ReviewsClose, IsOpen

LEMMA StepPreserves ==
    ASSUME EvidenceInv, [Next]_vars
    PROVE  EvidenceInv'
<1>1. CASE Next
    <2>1. Types'
        BY <1>1, RequestTypes, JobTypes DEF Next, BeginAny
    <2> QED
        BY <1>1, <2>1, RequestsCarryKept, RequestsMeetKept, DispositionsDecidedKept,
            JobsSanctionedKept, HoldsSeenKept, DeletedWasSanctionedKept, TasksHaveSubjectsKept,
            QueueCountsKept, ReviewsCloseKept DEF EvidenceInv
<1> QED
    BY <1>1, StutterKeeps

\* The variables keep their types, whatever requests, jobs and crashes do.
THEOREM EvidenceTypeOK == Spec => []TypeOK
<1>1. EvidenceInv => TypeOK
    BY DEF EvidenceInv, Types
<1> QED
    BY InitEstablishes, StepPreserves, <1>1, PTL DEF Spec

\* What requests and handlers carry from their tests to their commits agrees
\* with the rows they carry it about.
THEOREM EvidenceInvariant == Spec => []EvidenceInv
BY InitEstablishes, StepPreserves, PTL DEF Spec

\* With approval required an object is gone only by a disposition that a second
\* identity approved, and a review task stays open only for a pending subject:
\* approve_disposition, reject_disposition and execute_disposition.
THEOREM EvidenceApproval == Spec => []ApprovalDecides
<1>1. EvidenceInv => ApprovalDecides
    <2>1. EvidenceInv => DisposedWasApproved
        BY DEF EvidenceInv, DeletedWasSanctioned, DisposedWasApproved, Sanctioned
    <2> QED
        BY <2>1 DEF EvidenceInv, ApprovalDecides
<1> QED
    BY InitEstablishes, StepPreserves, <1>1, PTL DEF Spec

\* No object is deleted under a legal hold placed before the test of its
\* deletion: execute_disposition, purge_expired_evidence and
\* delete_evidence_record.
THEOREM EvidenceHolds == Spec => HoldRespected
<1>1. ASSUME EvidenceInv, [Next]_vars
      PROVE  [\A e \in Evidence : object[e].exists /\ ~object'[e].exists =>
                ~records[e].hold \/ e \in hist.late]_vars
    <2>1. SUFFICES ASSUME Next, NEW e \in Evidence, object[e].exists, ~object'[e].exists
                   PROVE  ~records[e].hold \/ e \in hist.late
        BY <1>1
    <2>2. Deleting(e)
        BY <1>1, <2>1, ObjectSteps DEF EvidenceInv, DeletesNow, Deleting
    <2> QED
        BY <1>1, <2>2 DEF EvidenceInv, HoldsSeen
<1> QED
    BY InitEstablishes, StepPreserves, <1>1, PTL DEF Spec, HoldRespected

-----------------------------------------------------------------------------
(***************************************************************************)
(* Graph exports and evidence packages.                                    *)
(***************************************************************************)
Content == [present : BOOLEAN, edges : SUBSET EdgeIds, sections : [Categories -> Nat],
            serial : Nat]
ArtifactRow == [status : {"absent", "pending", "running", "completed", "failed"},
                kind : {"export", "package"}, sink : Sinks \cup {"none"},
                signed : BOOLEAN, sha256 : Content, truncated : BOOLEAN,
                window : [Categories -> Nat], seen : [Categories -> Nat]]
RunRow == [job : Artifacts \cup {0},
           place : {"idle", "mark", "generate", "store", "commit", "return"},
           content : Content, truncated : BOOLEAN, taken : 0..NumCategories,
           remaining : 0..MaxRecords, seen : [Categories -> Nat]]
PastRow == [expired : SUBSET Artifacts, doubled : SUBSET Artifacts]

ArtifactRowTypes ==
    /\ QueueTypeOK
    /\ artifact \in [Artifacts -> ArtifactRow]
    /\ creator \subseteq Artifacts
    /\ stored \in [Artifacts -> Content]
    /\ sunk \in [Sinks -> Content]
    /\ run \in [Workers -> RunRow]
    /\ edges \subseteq EdgeIds
    /\ rows \in [Categories -> Nat]
    /\ inside \in [Artifacts -> [Categories -> Nat]]
    /\ flagged \subseteq Artifacts
    /\ allowed \subseteq Sinks
    /\ serial \in Nat
    /\ load \in 0..MaxLoad
    /\ past \in PastRow

\* A job that waits has an attempt left.
AttemptsLeft == \A a \in Artifacts : queue[a].status = "pending" => queue[a].attempts < MaxAttempts

\* A handler runs the job of a row.  A row that is not there has no job and no sink.
RunsHaveRows ==
    /\ \A w \in Workers :
        /\ run[w].place = "idle" <=> run[w].job = 0
        /\ run[w].place # "idle" => queue[run[w].job].status # "absent"
    /\ \A a \in Artifacts :
        artifact[a].status = "absent" =>
            queue[a].status = "absent" /\ a \notin creator /\ artifact[a].sink = "none"

\* As long as a job is not recovered under a worker, it has one handler, and only
\* that one completes the artifact.
RunsAlone ==
    \A w \in Workers :
        LET a == run[w].job
        IN  run[w].place # "idle" /\ a \notin past.doubled =>
            /\ queue[a].status = "running"
            /\ \A v \in Workers : run[v].job = a => v = w
            /\ run[w].place # "return" => artifact[a].status # "completed"

SharesSink(a) ==
    \E b \in Artifacts \ {a} : artifact[b].sink = artifact[a].sink /\ artifact[b].sink # "none"

\* What the handler has stored is what it will commit.
StoredIsKept ==
    \A w \in Workers :
        run[w].place = "commit" =>
            \/ ObjectOf(run[w].job) = run[w].content
            \/ run[w].job \in past.doubled \/ SharesSink(run[w].job)

\* The sections of a package, and the mark, fit the rows that it has seen.
FitsWindow(sections, truncated, seen) ==
    /\ \A c \in Categories : sections[c] = WithinLimit(seen, c)
    /\ ~truncated => sections = seen

\* No row of the window at the request is passed over.
NothingMissed(seen, window) == \A c \in Categories \ Purged : seen[c] >= window[c]

\* What the limit leaves to a category and the later ones.
Left(seen, c) ==
    IF RowsBefore(seen, c) >= MaxRecords THEN 0 ELSE MaxRecords - RowsBefore(seen, c)

\* The categories that a handler has taken are as they should be.
Gathered(r, window) ==
    /\ \A c \in 1..r.taken : r.content.sections[c] = WithinLimit(r.seen, c)
    /\ ~r.truncated => \A c \in 1..r.taken : r.content.sections[c] = r.seen[c]
    /\ r.taken < NumCategories => r.remaining = Left(r.seen, r.taken + 1)
    /\ \A c \in (1..r.taken) \ Purged : r.seen[c] >= window[c]

PackagesGather ==
    \A w \in Workers :
        run[w].place # "idle" /\ artifact[run[w].job].kind = "package" =>
            /\ Gathered(run[w], artifact[run[w].job].window)
            /\ run[w].place \in {"store", "commit"} => run[w].taken = NumCategories

\* Rows come into a window that has ended, and only the purge takes them out.
WindowsGrow == \A a \in Artifacts : NothingMissed(inside[a], artifact[a].window)

\* Nothing happens any more once a package is outside.
QuietOutside ==
    file # NoFile =>
        /\ \A w \in Workers : run[w].place = "idle"
        /\ \A a \in Artifacts : queue[a].status \notin {"pending", "running"}

RunsInv == ArtifactRowTypes /\ AttemptsLeft /\ RunsHaveRows /\ RunsAlone

ContentsInv == StoredIsKept /\ CompletedIsStored /\ PackagesGather /\ PackageIsItsWindow

ArtifactsInv == RunsInv /\ ContentsInv /\ WindowsGrow /\ QuietOutside /\ TrustedIsGenuine

-----------------------------------------------------------------------------
(***************************************************************************)
(* The sections of a package.                                              *)
(***************************************************************************)

\* What holds of 0 and of every successor holds of every number: a least exception
\* would exist, as finite sets are well founded under strict inclusion.
LEMMA Upward ==
    ASSUME NEW S, 0 \in S, \A k \in Nat : k \in S => k + 1 \in S
    PROVE  \A k \in Nat : k \in S
<1> SUFFICES ASSUME NEW m \in Nat, m \notin S PROVE FALSE
    OBVIOUS
<1> DEFINE upTo == {0..n : n \in Nat \ S}
           smaller == StrictSubsetOrdering(Nat)
<1>1. \A n \in Nat : 0..n \in FiniteSubsetsOf(Nat)
    BY FS_Interval DEF FiniteSubsetsOf
<1>2. IsWellFoundedOn(smaller, FiniteSubsetsOf(Nat))
    BY FS_StrictSubsetOrderingWellFounded
<1>3. PICK T \in upTo : \A U \in upTo : <<U, T>> \notin smaller
    <2>1. upTo \subseteq FiniteSubsetsOf(Nat) /\ upTo # {}
        BY <1>1
    <2> HIDE DEF upTo, smaller
    <2> QED
        BY <2>1, <1>2, WFMin
<1>4. PICK n \in Nat \ S : T = 0..n
    BY <1>3
<1>5. n - 1 \in Nat \ S /\ n \in T /\ n \notin 0..(n - 1) /\ 0..(n - 1) \subseteq T /\ T \subseteq Nat
    BY <1>4
<1>6. 0..(n - 1) \in upTo /\ <<0..(n - 1), T>> \in smaller
    BY <1>5 DEF StrictSubsetOrdering
<1> QED
    BY <1>3, <1>6

\* The rows before a category, counted one category at a time.
LEMMA RowsCounted ==
    ASSUME NEW window \in [Categories -> Nat], NEW c \in Categories
    PROVE  /\ RowsBefore(window, c) \in Nat
           /\ c = 1 => RowsBefore(window, c) = 0
           /\ c # 1 => RowsBefore(window, c) = RowsBefore(window, c - 1) + window[c - 1]
<1> DEFINE Sum(g, k) == IF k = 1 THEN 0 ELSE g[k - 1] + window[k - 1]
           S == {k \in Nat : \E g : g = [b \in 1..k |-> Sum(g, b)]}
<1>1. 0 \in S
    <2> DEFINE g == [b \in 1..0 |-> 0]
    <2>1. g = [b \in 1..0 |-> Sum(g, b)]
        OBVIOUS
    <2> HIDE DEF g
    <2> QED
        BY <2>1
<1>2. ASSUME NEW k \in Nat, k \in S PROVE k + 1 \in S
    <2>1. PICK g : g = [b \in 1..k |-> Sum(g, b)]
        BY <1>2
    <2> DEFINE h == [b \in 1..(k + 1) |-> IF b <= k THEN g[b] ELSE Sum(g, b)]
    <2>2. \A b \in 1..(k + 1) : h[b] = Sum(g, b)
        BY <2>1
    <2>3. \A b \in 1..(k + 1) : b # 1 => h[b - 1] = g[b - 1]
        OBVIOUS
    <2>4. \A b \in 1..(k + 1) : h[b] = Sum(h, b)
        BY <2>2, <2>3
    <2>5. h = [b \in 1..(k + 1) |-> h[b]]
        OBVIOUS
    <2> HIDE DEF h
    <2>6. h = [b \in 1..(k + 1) |-> Sum(h, b)]
        BY <2>4, <2>5
    <2> QED
        BY <2>6
<1>3. NumCategories \in S
    <2> HIDE DEF S
    <2> QED
        BY <1>1, <1>2, Upward, ArtifactsAssumption
<1>4. PICK g : g = [b \in Categories |-> Sum(g, b)]
    BY <1>3 DEF Categories
<1> DEFINE before[b \in Categories] == IF b = 1 THEN 0 ELSE before[b - 1] + window[b - 1]
<1>5. before = CHOOSE h : h = [b \in Categories |-> IF b = 1 THEN 0 ELSE h[b - 1] + window[b - 1]]
    OBVIOUS
<1>6. before = [b \in Categories |-> IF b = 1 THEN 0 ELSE before[b - 1] + window[b - 1]]
    BY <1>4, <1>5
<1>7. \A b \in Categories : RowsBefore(window, b) = before[b]
    BY DEF RowsBefore
<1> HIDE DEF before
<1>8. \A b \in Categories :
            RowsBefore(window, b) = IF b = 1 THEN 0 ELSE RowsBefore(window, b - 1) + window[b - 1]
    <2> SUFFICES ASSUME NEW b \in Categories
                 PROVE  /\ before[b] = IF b = 1 THEN 0 ELSE before[b - 1] + window[b - 1]
                        /\ b # 1 => b - 1 \in Categories
        BY <1>7
    <2> QED
        BY <1>6, ArtifactsAssumption DEF Categories
<1> DEFINE N == {k \in Nat : k + 1 \in Categories => RowsBefore(window, k + 1) \in Nat}
<1>9. 0 \in N
    BY <1>8
<1>10. ASSUME NEW k \in Nat, k \in N PROVE k + 1 \in N
    <2> SUFFICES ASSUME k + 2 \in Categories PROVE RowsBefore(window, k + 2) \in Nat
        OBVIOUS
    <2>1. k + 1 \in Categories /\ k + 2 # 1 /\ (k + 2) - 1 = k + 1
        BY ArtifactsAssumption DEF Categories
    <2>2. RowsBefore(window, k + 2) = RowsBefore(window, k + 1) + window[k + 1]
        BY <1>8, <2>1
    <2>3. RowsBefore(window, k + 1) \in Nat /\ window[k + 1] \in Nat
        BY <1>10, <2>1
    <2> QED
        BY <2>2, <2>3
<1>11. c - 1 \in N
    <2>1. c - 1 \in Nat
        BY DEF Categories
    <2> HIDE DEF N
    <2> QED
        BY <1>9, <1>10, <2>1, Upward
<1>12. RowsBefore(window, c) \in Nat
    <2>1. c \in Nat /\ (c - 1) + 1 = c
        BY DEF Categories
    <2> QED
        BY <1>11, <2>1
<1> QED
    BY <1>8, <1>12


\* The least and the greatest of two numbers.
LEMMA PairExtremes ==
    ASSUME NEW m \in Int, NEW n \in Int
    PROVE  /\ Min({m, n}) \in {m, n} /\ Min({m, n}) <= m /\ Min({m, n}) <= n
           /\ Max({m, n}) \in {m, n} /\ Max({m, n}) >= m /\ Max({m, n}) >= n
<1>1. \E x \in {m, n} : \A y \in {m, n} : x <= y
    OBVIOUS
<1>2. \E x \in {m, n} : \A y \in {m, n} : x >= y
    OBVIOUS
<1>3. Min({m, n}) \in {m, n} /\ \A y \in {m, n} : Min({m, n}) <= y
    BY <1>1 DEF Min
<1>4. Max({m, n}) \in {m, n} /\ \A y \in {m, n} : Max({m, n}) >= y
    BY <1>2 DEF Max
<1> QED
    BY <1>3, <1>4

\* The limit leaves nothing, all, or what is left of the records.
LEMMA LimitLeaves ==
    ASSUME NEW window \in [Categories -> Nat], NEW c \in Categories
    PROVE  /\ RowsBefore(window, c) >= MaxRecords => WithinLimit(window, c) = 0
           /\ RowsBefore(window, c) < MaxRecords =>
                WithinLimit(window, c) = Min({window[c], MaxRecords - RowsBefore(window, c)})
           /\ WithinLimit(window, c) \in Nat
<1>1. PICK n : n = RowsBefore(window, c)
    OBVIOUS
<1>2. n \in Nat /\ MaxRecords \in Nat /\ window[c] \in Nat
    BY <1>1, RowsCounted, ArtifactsAssumption
<1>3. PICK m : m = Min({window[c], MaxRecords - n})
    OBVIOUS
<1>4. m \in {window[c], MaxRecords - n} /\ m <= window[c] /\ m <= MaxRecords - n
    BY <1>2, <1>3, PairExtremes
<1>5. PICK l : l = Max({0, m})
    OBVIOUS
<1>6. l \in {0, m} /\ l >= 0 /\ l >= m
    <2>1. m \in Int /\ 0 \in Int
        BY <1>2, <1>4
    <2>2. Max({0, m}) \in {0, m} /\ Max({0, m}) >= 0 /\ Max({0, m}) >= m
        BY ONLY <2>1, PairExtremes
    <2> QED
        BY <2>2, <1>5
<1>7. WithinLimit(window, c) = l
    BY <1>1, <1>3, <1>5 DEF WithinLimit
<1> QED
    BY <1>1, <1>2, <1>3, <1>4, <1>6, <1>7


\* The rows before a category depend on the categories before it only.
LEMMA RowsAgree ==
    ASSUME NEW f \in [Categories -> Nat], NEW g \in [Categories -> Nat], NEW c \in Categories,
           \A b \in 1..(c - 1) : f[b] = g[b]
    PROVE  /\ RowsBefore(f, c) = RowsBefore(g, c)
           /\ Left(f, c) = Left(g, c)
           /\ f[c] = g[c] => WithinLimit(f, c) = WithinLimit(g, c)
<1> DEFINE S == {k \in Nat : k + 1 \in Categories /\ k + 1 <= c =>
                                RowsBefore(f, k + 1) = RowsBefore(g, k + 1)}
<1>1. 0 \in S
    <2> SUFFICES ASSUME 1 \in Categories PROVE RowsBefore(f, 1) = RowsBefore(g, 1)
        OBVIOUS
    <2> QED
        BY RowsCounted
<1>2. ASSUME NEW k \in Nat, k \in S PROVE k + 1 \in S
    <2> SUFFICES ASSUME NEW d, d = k + 1, d + 1 \in Categories, d + 1 <= c
                 PROVE  RowsBefore(f, d + 1) = RowsBefore(g, d + 1)
        OBVIOUS
    <2>1. /\ d \in Categories /\ d + 1 # 1 /\ (d + 1) - 1 = d /\ d \in 1..(c - 1) /\ d <= c
        BY ArtifactsAssumption DEF Categories
    <2>2. RowsBefore(f, d + 1) = RowsBefore(f, d) + f[d]
        BY <2>1, RowsCounted
    <2>3. RowsBefore(g, d + 1) = RowsBefore(g, d) + g[d]
        BY <2>1, RowsCounted
    <2>4. RowsBefore(f, d) = RowsBefore(g, d)
        BY <1>2, <2>1
    <2> QED
        BY <2>1, <2>2, <2>3, <2>4
<1>3. c - 1 \in Nat /\ (c - 1) + 1 = c
    BY DEF Categories
<1>4. c - 1 \in S
    <2> HIDE DEF S
    <2> QED
        BY <1>1, <1>2, <1>3, Upward
<1>5. RowsBefore(f, c) = RowsBefore(g, c)
    BY <1>3, <1>4
<1> QED
    BY <1>5 DEF Left, WithinLimit

\* A handler has taken nothing at first.
LEMMA GatheringStarts ==
    ASSUME NEW r \in RunRow, NEW window, r.taken = 0, r.remaining = MaxRecords
    PROVE  Gathered(r, window)
<1>1. NumCategories \in Nat /\ MaxRecords \in Nat /\ r.seen \in [Categories -> Nat]
    BY ArtifactsAssumption DEF RunRow
<1>2. ASSUME 0 < NumCategories PROVE Left(r.seen, 1) = MaxRecords
    <2>1. 1 \in Categories
        BY <1>1, <1>2 DEF Categories
    <2>2. RowsBefore(r.seen, 1) = 0
        BY <1>1, <2>1, RowsCounted
    <2> QED
        BY <1>1, <2>2 DEF Left
<1> QED
    BY <1>1, <1>2 DEF Gathered

\* The next category: what is found of it, within the limit.
LEMMA GatheringGoesOn ==
    ASSUME NEW r \in RunRow, NEW window, Gathered(r, window), NEW c \in Categories,
           c = r.taken + 1, NEW found \in Nat, c \notin Purged => found >= window[c],
           NEW amount, amount = Min({found, r.remaining}),
           NEW next,
           next = [job |-> r.job, place |-> r.place,
                   content |-> [r.content EXCEPT !.sections = [@ EXCEPT ![c] = amount]],
                   truncated |-> r.truncated \/ r.remaining = 0 \/ found > r.remaining,
                   taken |-> c, remaining |-> r.remaining - amount,
                   seen |-> [r.seen EXCEPT ![c] = found]]
    PROVE  next \in RunRow /\ Gathered(next, window)
<1>1. /\ NumCategories \in Nat /\ MaxRecords \in Nat /\ r.seen \in [Categories -> Nat]
      /\ r.content \in Content /\ r.taken \in 0..NumCategories /\ r.remaining \in 0..MaxRecords
      /\ r.truncated \in BOOLEAN
    BY ArtifactsAssumption DEF RunRow
<1>2. PICK left, seen, content, sections, mark :
        /\ left = r.remaining - amount /\ seen = [r.seen EXCEPT ![c] = found]
        /\ sections = [r.content.sections EXCEPT ![c] = amount]
        /\ content = [r.content EXCEPT !.sections = sections]
        /\ mark = (r.truncated \/ r.remaining = 0 \/ found > r.remaining)
    OBVIOUS
<1>3. next = [job |-> r.job, place |-> r.place, content |-> content, truncated |-> mark,
              taken |-> c, remaining |-> left, seen |-> seen]
    BY <1>2
<1>4. /\ next.content = content /\ next.truncated = mark /\ next.taken = c
      /\ next.remaining = left /\ next.seen = seen
    BY <1>3
<1>5. amount \in {found, r.remaining} /\ amount <= found /\ amount <= r.remaining
    <2>1. found \in Int /\ r.remaining \in Int
        BY <1>1
    <2> QED
        BY ONLY <2>1, PairExtremes, amount = Min({found, r.remaining})
<1>6. amount \in Nat /\ left \in 0..MaxRecords
    BY <1>1, <1>2, <1>5
<1>7. /\ seen \in [Categories -> Nat] /\ seen[c] = found
      /\ \A b \in Categories : b # c => seen[b] = r.seen[b]
    BY <1>1, <1>2
<1>8. r.content.sections \in [Categories -> Nat]
    BY <1>1 DEF Content
<1>9. /\ sections \in [Categories -> Nat] /\ sections[c] = amount
      /\ \A b \in Categories : b # c => sections[b] = r.content.sections[b]
    BY <1>2, <1>6, <1>8
<1>10. content \in Content /\ content.sections = sections
    <2>1. content = [present |-> r.content.present, edges |-> r.content.edges,
                     sections |-> sections, serial |-> r.content.serial]
        BY <1>1, <1>2 DEF Content
    <2>2. r.content.present \in BOOLEAN /\ r.content.edges \in SUBSET EdgeIds
          /\ r.content.serial \in Nat
        BY <1>1 DEF Content
    <2> QED
        BY <1>9, <2>1, <2>2 DEF Content
<1>11. mark \in BOOLEAN
    BY <1>2
<1>12. next \in RunRow
    <2>1. r.job \in Artifacts \cup {0}
          /\ r.place \in {"idle", "mark", "generate", "store", "commit", "return"}
        BY DEF RunRow
    <2>2. c \in 0..NumCategories
        BY <1>1 DEF Categories
    <2> QED
        BY <2>1, <2>2, <1>3, <1>6, <1>7, <1>10, <1>11 DEF RunRow
<1>13. /\ c - 1 = r.taken /\ r.taken < NumCategories /\ c \in Nat
       /\ \A b \in 1..c : b \in Categories /\ (b = c \/ b \in 1..r.taken)
       /\ \A b \in 1..r.taken : b \in Categories /\ b # c /\ b < c
    BY <1>1 DEF Categories
<1>14. r.remaining = Left(seen, c)
    <2>1. r.remaining = Left(r.seen, c)
        BY <1>13 DEF Gathered
    <2>2. \A b \in 1..(c - 1) : seen[b] = r.seen[b]
        BY <1>7, <1>13
    <2> QED
        BY <2>1, <2>2, <1>1, <1>7, RowsAgree
<1>15. PICK before : before = RowsBefore(seen, c)
    OBVIOUS
<1>16. before \in Nat
    BY <1>7, <1>15, RowsCounted
<1>17. r.remaining = IF before >= MaxRecords THEN 0 ELSE MaxRecords - before
    BY <1>14, <1>15 DEF Left
<1>18. amount = WithinLimit(seen, c)
    <2>1. CASE before >= MaxRecords
        <3>1. WithinLimit(seen, c) = 0
            BY <2>1, <1>7, <1>15, LimitLeaves
        <3>2. amount <= 0
            BY <2>1, <1>5, <1>17
        <3> QED
            BY <3>1, <3>2, <1>6
    <2>2. CASE before < MaxRecords
        <3>1. WithinLimit(seen, c) = Min({seen[c], MaxRecords - before})
            BY <2>2, <1>7, <1>15, LimitLeaves
        <3>2. r.remaining = MaxRecords - before
            BY <2>2, <1>1, <1>16, <1>17
        <3> QED
            BY <3>1, <3>2, <1>7
    <2> QED
        BY <2>1, <2>2, <1>1, <1>16
<1>19. \A b \in 1..c : sections[b] = WithinLimit(seen, b)
    <2> SUFFICES ASSUME NEW b \in 1..r.taken PROVE sections[b] = WithinLimit(seen, b)
        BY <1>9, <1>13, <1>18
    <2>1. r.content.sections[b] = WithinLimit(r.seen, b)
        BY DEF Gathered
    <2>2. b \in Categories /\ seen[b] = r.seen[b] /\ sections[b] = r.content.sections[b]
        BY <1>7, <1>9, <1>13
    <2>3. \A d \in 1..(b - 1) : seen[d] = r.seen[d]
        <3>1. \A d \in 1..(b - 1) : d \in 1..r.taken
            BY <1>1
        <3> QED
            BY <3>1, <1>7, <1>13
    <2>4. WithinLimit(seen, b) = WithinLimit(r.seen, b)
        BY <2>2, <2>3, <1>1, <1>7, RowsAgree
    <2> QED
        BY <2>1, <2>2, <2>4
<1>20. ~mark => \A b \in 1..c : sections[b] = seen[b]
    <2> SUFFICES ASSUME ~mark, NEW b \in 1..c PROVE sections[b] = seen[b]
        OBVIOUS
    <2>1. ~r.truncated /\ ~(found > r.remaining)
        BY <1>2
    <2>2. CASE b = c
        BY <2>1, <2>2, <1>1, <1>5, <1>7, <1>9
    <2>3. CASE b \in 1..r.taken
        <3>1. r.content.sections[b] = r.seen[b]
            BY <2>1, <2>3 DEF Gathered
        <3> QED
            BY <3>1, <2>3, <1>7, <1>9, <1>13
    <2> QED
        BY <2>2, <2>3, <1>13
<1>21. ASSUME c < NumCategories PROVE left = Left(seen, c + 1)
    <2>1. c + 1 \in Categories /\ c + 1 # 1 /\ (c + 1) - 1 = c
        BY <1>1, <1>13, <1>21 DEF Categories
    <2>2. RowsBefore(seen, c + 1) = before + found
        BY <2>1, <1>7, <1>15, RowsCounted
    <2>3. left = IF before + found >= MaxRecords THEN 0 ELSE MaxRecords - (before + found)
        <3>1. left = r.remaining - amount
            BY <1>2
        <3> QED
            BY ONLY <3>1, <1>1, <1>5, <1>16, <1>17, found \in Nat
    <2> QED
        BY <2>2, <2>3 DEF Left
<1>22. \A b \in (1..c) \ Purged : seen[b] >= window[b]
    <2> SUFFICES ASSUME NEW b \in (1..c) \ Purged PROVE seen[b] >= window[b]
        OBVIOUS
    <2>1. CASE b = c
        BY <2>1, <1>7
    <2>2. CASE b \in 1..r.taken
        BY <2>2, <1>7, <1>13 DEF Gathered
    <2> QED
        BY <2>1, <2>2, <1>13
<1> QED
    BY <1>4, <1>10, <1>12, <1>19, <1>20, <1>21, <1>22 DEF Gathered

\* Once all categories are taken.
LEMMA GatheringEnds ==
    ASSUME NEW r \in RunRow, NEW window, Gathered(r, window), r.taken = NumCategories
    PROVE  /\ FitsWindow(r.content.sections, r.truncated, r.seen)
           /\ NothingMissed(r.seen, window)
<1>1. r.content.sections \in [Categories -> Nat] /\ r.seen \in [Categories -> Nat]
    BY DEF RunRow, Content
<1>2. \A c \in Categories : c \in 1..r.taken
    BY DEF Categories
<1>3. ~r.truncated => r.content.sections = r.seen
    BY <1>1, <1>2 DEF Gathered
<1>4. \A c \in Categories : r.content.sections[c] = WithinLimit(r.seen, c)
    BY <1>2 DEF Gathered
<1> QED
    BY <1>2, <1>3, <1>4 DEF Gathered, FitsWindow, NothingMissed


-----------------------------------------------------------------------------
(***************************************************************************)
(* Signatures.                                                             *)
(***************************************************************************)

\* A document that verifies as trusted has the payload that was signed, whatever
\* parts of it were replaced and by whomever else they were signed.
LEMMA TrustedUnaltered ==
    ASSUME NEW content, NEW other, NEW signing_profile \in BOOLEAN,
           NEW d \in Altered(Document(content, signing_profile), other),
           verify_evidence_package(d).trusted
    PROVE  d.payload = content
<1>1. PICK original : original = Document(content, signing_profile)
    OBVIOUS
<1>2. /\ original.payload = content /\ original.manifest = ManifestOf(content)
      /\ original.assurance = sign_manifest(ManifestOf(content), signing_profile)
    BY <1>1 DEF Document
<1> DEFINE assurance == d.assurance
<1>3. /\ assurance.status = "signed" /\ DigestErrors(d) = {}
      /\ _verify_signature(d.manifest, assurance) /\ _profile_trusts_assurance(assurance)
    BY DEF verify_evidence_package
<1>4. /\ assurance.signature = Signature(assurance.signer, d.manifest)
      /\ assurance.signer = Profile.signer /\ Profile.signer # Foreign
    BY <1>3, ArtifactsAssumption DEF _verify_signature, _profile_trusts_assurance
<1>5. d.manifest.payload_sha256 = d.payload
    <2>1. "payload" \notin DigestErrors(d)
        BY <1>3
    <2> QED
        BY <2>1 DEF DigestErrors
<1>6. \/ d.assurance = Unsigned(original.manifest)
      \/ \E m : \/ d.assurance = [original.assurance EXCEPT !.manifest_sha256 = m]
                \/ d.assurance = [original.assurance EXCEPT !.manifest_sha256 = m, !.signer = Foreign,
                                      !.signature = Signature(Foreign, m)]
                \/ d.assurance = [original.assurance EXCEPT !.manifest_sha256 = m,
                                      !.signature = Signature(Foreign, m)]
    <2>1. d \in Altered(original, other)
        BY <1>1
    <2>2. PICK payloads, manifests :
            /\ payloads = {original.payload, other}
            /\ manifests = [payload_sha256 : payloads, section_sha256 : payloads]
        OBVIOUS
    <2>3. PICK variants :
            variants = UNION {
                {[original.assurance EXCEPT !.manifest_sha256 = m],
                 [original.assurance EXCEPT !.manifest_sha256 = m, !.signer = Foreign,
                                            !.signature = Signature(Foreign, m)],
                 [original.assurance EXCEPT !.manifest_sha256 = m,
                                            !.signature = Signature(Foreign, m)]}
                : m \in manifests}
        OBVIOUS
    <2>4. d \in [payload : payloads, manifest : manifests,
                 assurance : {Unsigned(original.manifest)} \cup variants]
        BY <2>1, <2>2, <2>3 DEF Altered
    <2>5. d.assurance \in {Unsigned(original.manifest)} \cup variants
        BY <2>4
    <2> QED
        BY <2>3, <2>5
<1>7. signing_profile
    <2> SUFFICES ASSUME ~signing_profile PROVE FALSE
        OBVIOUS
    <2>1. original.assurance = Unsigned(ManifestOf(content))
        BY <1>2 DEF sign_manifest
    <2>2. original.assurance =
                [status |-> "unsigned", type |-> "none", key_id |-> "none", signer |-> "none",
                 manifest_sha256 |-> ManifestOf(content),
                 signature |-> Signature("none", ManifestOf(content))]
        BY <2>1 DEF Unsigned
    <2>3. Unsigned(original.manifest).status = "unsigned"
        BY DEF Unsigned
    <2>4. PICK u : u = original.assurance
        OBVIOUS
    <2>5. u.status = "unsigned" /\ "status" \in DOMAIN u
        BY <2>2, <2>4
    <2>6. ASSUME NEW m
          PROVE  /\ [u EXCEPT !.manifest_sha256 = m].status = "unsigned"
                 /\ [u EXCEPT !.manifest_sha256 = m, !.signer = Foreign,
                              !.signature = Signature(Foreign, m)].status = "unsigned"
                 /\ [u EXCEPT !.manifest_sha256 = m,
                              !.signature = Signature(Foreign, m)].status = "unsigned"
        BY <2>5
    <2>7. d.assurance.status = "unsigned"
        <3>1. CASE d.assurance = Unsigned(original.manifest)
            BY <3>1, <2>3
        <3>2. CASE d.assurance # Unsigned(original.manifest)
            <4>1. PICK m :
                    \/ d.assurance = [u EXCEPT !.manifest_sha256 = m]
                    \/ d.assurance = [u EXCEPT !.manifest_sha256 = m, !.signer = Foreign,
                                               !.signature = Signature(Foreign, m)]
                    \/ d.assurance = [u EXCEPT !.manifest_sha256 = m,
                                               !.signature = Signature(Foreign, m)]
                BY <1>6, <2>4, <3>2
            <4> QED
                BY ONLY <4>1, <2>6
        <3> QED
            BY <3>1, <3>2
    <2> QED
        BY <1>3, <2>7
<1>8. original.assurance = [status |-> "signed", type |-> Profile.type, key_id |-> Profile.key_id,
            signer |-> Profile.signer, manifest_sha256 |-> ManifestOf(content),
            signature |-> Signature(Profile.signer, ManifestOf(content))]
    BY <1>2, <1>7 DEF sign_manifest
<1>9. d.assurance # Unsigned(original.manifest)
    BY <1>3 DEF Unsigned
<1>10. PICK m :
            \/ d.assurance = [original.assurance EXCEPT !.manifest_sha256 = m]
            \/ d.assurance = [original.assurance EXCEPT !.manifest_sha256 = m, !.signer = Foreign,
                                  !.signature = Signature(Foreign, m)]
            \/ d.assurance = [original.assurance EXCEPT !.manifest_sha256 = m,
                                  !.signature = Signature(Foreign, m)]
    BY <1>6, <1>9
<1>11. d.assurance = [original.assurance EXCEPT !.manifest_sha256 = m]
    <2>1. ASSUME d.assurance = [original.assurance EXCEPT !.manifest_sha256 = m, !.signer = Foreign,
                                    !.signature = Signature(Foreign, m)]
          PROVE  FALSE
        <3>1. d.assurance.signer = Foreign
            BY <2>1, <1>8
        <3> QED
            BY <3>1, <1>4
    <2>2. ASSUME d.assurance = [original.assurance EXCEPT !.manifest_sha256 = m,
                                    !.signature = Signature(Foreign, m)]
          PROVE  FALSE
        <3>1. d.assurance.signature = Signature(Foreign, m)
            BY <2>2, <1>8
        <3>2. Signature(Foreign, m).signer = Foreign
              /\ Signature(assurance.signer, d.manifest).signer = assurance.signer
            BY DEF Signature
        <3> QED
            BY <3>1, <3>2, <1>4
    <2> QED
        BY <1>10, <2>1, <2>2
<1>12. d.assurance.signature = Signature(Profile.signer, ManifestOf(content))
    BY <1>8, <1>11
<1>13. d.manifest = ManifestOf(content)
    BY <1>4, <1>12 DEF Signature
<1> QED
    BY <1>5, <1>13 DEF ManifestOf

-----------------------------------------------------------------------------
(***************************************************************************)
(* The jobs of artifacts and their handlers.                               *)
(***************************************************************************)
JobRow == [status : JobStatuses, attempts : 0..MaxAttempts]

LEMMA FailedRow ==
    ASSUME NEW row \in JobRow
    PROVE  /\ AfterFailure(row) \in JobRow
           /\ AfterFailure(row).status \in {"failed", "pending"}
           /\ AfterFailure(row).status = "pending" => AfterFailure(row).attempts < MaxAttempts
BY ArtifactsAssumption DEF JobRow, AfterFailure, JobStatuses

\* A handler works on an artifact.
LEMMA RunningJob ==
    ASSUME RunsInv, NEW w \in Workers, run[w].place # "idle"
    PROVE  /\ run[w].job \in Artifacts /\ run[w].job # 0
           /\ queue[run[w].job] \in JobRow /\ queue[run[w].job].status # "absent"
           /\ artifact[run[w].job] \in ArtifactRow /\ artifact[run[w].job].status # "absent"
           /\ run[w] \in RunRow
<1>1. run[w] \in RunRow /\ run[w].job # 0 /\ queue[run[w].job].status # "absent"
    BY DEF RunsInv, ArtifactRowTypes, RunsHaveRows
<1>2. run[w].job \in Artifacts
    BY <1>1 DEF RunRow
<1> QED
    BY <1>1, <1>2 DEF RunsInv, ArtifactRowTypes, RunsHaveRows, QueueTypeOK, JobRow, Artifacts

\* A change of one job, not a running one that has a handler, leaves the rest true.
LEMMA JobChanges ==
    ASSUME RunsInv, NEW a \in Artifacts, NEW row \in JobRow,
           queue' = [queue EXCEPT ![a] = row], row.status # "absent",
           row.status = "pending" => row.attempts < MaxAttempts,
           artifact[a].status # "absent",
           \A w \in Workers : run[w].job # a \/ a \in past'.doubled,
           creator' \subseteq creator,
           past' \in PastRow,
           past.doubled \subseteq past'.doubled, load' \in 0..MaxLoad,
           flagged' \subseteq Artifacts,
           UNCHANGED <<artifact, stored, sunk, run, edges, rows, inside, allowed, serial>>
    PROVE  RunsInv'
<1>1. queue' \in [Jobs -> JobRow] /\ queue'[a] = row /\ \A b \in Artifacts \ {a} : queue'[b] = queue[b]
    BY DEF RunsInv, ArtifactRowTypes, QueueTypeOK, JobRow, Artifacts
<1>2. ArtifactRowTypes'
    BY <1>1 DEF RunsInv, ArtifactRowTypes, QueueTypeOK, JobRow
<1>3. AttemptsLeft'
    BY <1>1 DEF RunsInv, AttemptsLeft
<1>4. RunsHaveRows'
    <2>1. ASSUME NEW w \in Workers
          PROVE  /\ run[w].place = "idle" <=> run[w].job = 0
                 /\ run[w].place # "idle" => queue'[run[w].job].status # "absent"
        <3>1. run[w].place # "idle" => run[w].job \in Artifacts /\ queue[run[w].job].status # "absent"
            BY RunningJob
        <3> QED
            BY <1>1, <3>1 DEF RunsInv, RunsHaveRows
    <2>2. ASSUME NEW b \in Artifacts, artifact[b].status = "absent"
          PROVE  queue'[b].status = "absent" /\ b \notin creator' /\ artifact[b].sink = "none"
        BY <1>1, <2>2 DEF RunsInv, RunsHaveRows
    <2> QED
        BY <2>1, <2>2 DEF RunsHaveRows
<1>5. RunsAlone'
    <2> SUFFICES ASSUME NEW w \in Workers, run[w].place # "idle", run[w].job \notin past'.doubled
                 PROVE  /\ queue'[run[w].job].status = "running"
                        /\ \A v \in Workers : run[v].job = run[w].job => v = w
                        /\ run[w].place # "return" => artifact[run[w].job].status # "completed"
        BY DEF RunsAlone
    <2>1. run[w].job \in Artifacts /\ run[w].job # a /\ run[w].job \notin past.doubled
        BY RunningJob
    <2> QED
        BY <1>1, <2>1 DEF RunsInv, RunsAlone
<1> QED
    BY <1>2, <1>3, <1>4, <1>5 DEF RunsInv

LEMMA NoRunRow ==
    /\ NoContent \in Content /\ NoRows \in [Categories -> Nat]
    /\ NoRun \in RunRow /\ NoRun.place = "idle" /\ NoRun.job = 0
    /\ NoRun.taken = 0 /\ NoRun.remaining = MaxRecords
BY ArtifactsAssumption DEF NoRun, RunRow, NoContent, Content, NoRows

\* The end of a run, with its job and the state of its artifact.
LEMMA RunEnds ==
    ASSUME RunsInv, NEW w \in Workers, run[w].place # "idle",
           NEW row \in JobRow, NEW state \in ArtifactRow,
           \/ row = queue[run[w].job]
           \/ row.status # "absent" /\ (row.status = "pending" => row.attempts < MaxAttempts),
           queue' = [queue EXCEPT ![run[w].job] = row],
           artifact' = [artifact EXCEPT ![run[w].job] = state],
           state.status # "absent",
           run' = [run EXCEPT ![w] = NoRun],
           past' \in PastRow,
           past'.doubled = past.doubled, load' \in 0..MaxLoad,
           UNCHANGED <<creator, stored, sunk, edges, rows, inside, flagged, allowed, serial>>
    PROVE  RunsInv'
<1>1. PICK a : a = run[w].job
    OBVIOUS
<1>2. /\ a \in Artifacts /\ queue[a] \in JobRow /\ queue[a].status # "absent"
      /\ artifact[a].status # "absent"
    BY <1>1, RunningJob
<1>3. /\ queue' \in [Jobs -> JobRow] /\ queue'[a] = row
      /\ \A b \in Artifacts \ {a} : queue'[b] = queue[b]
    BY <1>1, <1>2 DEF RunsInv, ArtifactRowTypes, QueueTypeOK, JobRow, Artifacts
<1>4. /\ artifact' \in [Artifacts -> ArtifactRow] /\ artifact'[a] = state
      /\ \A b \in Artifacts \ {a} : artifact'[b] = artifact[b]
    BY <1>1, <1>2 DEF RunsInv, ArtifactRowTypes
<1>5. NoRun \in RunRow /\ NoRun.place = "idle" /\ NoRun.job = 0
    BY NoRunRow
<1>6. /\ run' \in [Workers -> RunRow] /\ run'[w] = NoRun
      /\ \A v \in Workers \ {w} : run'[v] = run[v]
    BY <1>5 DEF RunsInv, ArtifactRowTypes
<1>7. ArtifactRowTypes'
    BY <1>3, <1>4, <1>6 DEF RunsInv, ArtifactRowTypes, QueueTypeOK, JobRow
<1>8. row.status # "absent" /\ (row.status = "pending" => row.attempts < MaxAttempts)
    BY <1>1, <1>2 DEF RunsInv, AttemptsLeft
<1>9. AttemptsLeft'
    BY <1>3, <1>8 DEF RunsInv, AttemptsLeft
<1>10. RunsHaveRows'
    <2>1. ASSUME NEW v \in Workers
          PROVE  /\ run'[v].place = "idle" <=> run'[v].job = 0
                 /\ run'[v].place # "idle" => queue'[run'[v].job].status # "absent"
        <3>1. CASE v = w
            BY <3>1, <1>5, <1>6
        <3>2. CASE v # w
            <4>1. run[v].place # "idle" => run[v].job \in Artifacts /\ queue[run[v].job].status # "absent"
                BY RunningJob
            <4>2. run'[v] = run[v]
                BY <3>2, <1>6
            <4> QED
                BY <4>1, <4>2, <1>3, <1>8 DEF RunsInv, RunsHaveRows
        <3> QED
            BY <3>1, <3>2
    <2>2. ASSUME NEW b \in Artifacts, artifact'[b].status = "absent"
          PROVE  queue'[b].status = "absent" /\ b \notin creator /\ artifact'[b].sink = "none"
        BY <1>3, <1>4, <2>2 DEF RunsInv, RunsHaveRows
    <2> QED
        BY <2>1, <2>2 DEF RunsHaveRows
<1>11. RunsAlone'
    <2> SUFFICES ASSUME NEW v \in Workers, run'[v].place # "idle", run'[v].job \notin past'.doubled
                 PROVE  /\ queue'[run'[v].job].status = "running"
                        /\ \A u \in Workers : run'[u].job = run'[v].job => u = v
                        /\ run'[v].place # "return" => artifact'[run'[v].job].status # "completed"
        BY DEF RunsAlone
    <2>1. v # w /\ run'[v] = run[v]
        BY <1>5, <1>6
    <2>2. run[v].job \in Artifacts /\ run[v].job # 0 /\ run[v].job \notin past.doubled
        BY <2>1, RunningJob
    <2>3. /\ queue[run[v].job].status = "running"
          /\ \A u \in Workers : run[u].job = run[v].job => u = v
          /\ run[v].place # "return" => artifact[run[v].job].status # "completed"
        BY <2>1, <2>2 DEF RunsInv, RunsAlone
    <2>4. run[v].job # a
        BY <2>1, <2>3, <1>1
    <2> QED
        BY <1>3, <1>4, <1>5, <1>6, <2>1, <2>2, <2>3, <2>4
<1> QED
    BY <1>7, <1>9, <1>10, <1>11 DEF RunsInv

\* A handler goes on with its job.
LEMMA RunGoesOn ==
    ASSUME RunsInv, NEW w \in Workers, run[w].place # "idle", run[w].place # "return",
           NEW next \in RunRow, NEW state \in ArtifactRow,
           next.job = run[w].job, next.place # "idle",
           state.status # "absent",
           state.status = "completed" => next.place = "return" \/ run[w].job \in past.doubled,
           artifact' = [artifact EXCEPT ![run[w].job] = state],
           run' = [run EXCEPT ![w] = next],
           stored' \in [Artifacts -> Content], sunk' \in [Sinks -> Content], serial' \in Nat,
           UNCHANGED <<queue, creator, edges, rows, inside, flagged, allowed, load, past>>
    PROVE  RunsInv'
<1>1. PICK a : a = run[w].job
    OBVIOUS
<1>2. a \in Artifacts /\ a # 0 /\ queue[a].status # "absent" /\ artifact[a].status # "absent"
    BY <1>1, RunningJob
<1>3. /\ artifact' \in [Artifacts -> ArtifactRow] /\ artifact'[a] = state
      /\ \A b \in Artifacts \ {a} : artifact'[b] = artifact[b]
    BY <1>1, <1>2 DEF RunsInv, ArtifactRowTypes
<1>4. /\ run' \in [Workers -> RunRow] /\ run'[w] = next
      /\ \A v \in Workers \ {w} : run'[v] = run[v]
    BY DEF RunsInv, ArtifactRowTypes
<1>5. ArtifactRowTypes'
    BY <1>3, <1>4 DEF RunsInv, ArtifactRowTypes, QueueTypeOK
<1>6. AttemptsLeft'
    BY DEF RunsInv, AttemptsLeft
<1>7. RunsHaveRows'
    <2>1. ASSUME NEW v \in Workers
          PROVE  /\ run'[v].place = "idle" <=> run'[v].job = 0
                 /\ run'[v].place # "idle" => queue[run'[v].job].status # "absent"
        BY <1>1, <1>2, <1>4 DEF RunsInv, RunsHaveRows
    <2>2. ASSUME NEW b \in Artifacts, artifact'[b].status = "absent"
          PROVE  queue[b].status = "absent" /\ b \notin creator /\ artifact'[b].sink = "none"
        BY <1>3, <2>2 DEF RunsInv, RunsHaveRows
    <2> QED
        BY <2>1, <2>2 DEF RunsHaveRows
<1>8. RunsAlone'
    <2> SUFFICES ASSUME NEW v \in Workers, run'[v].place # "idle", run'[v].job \notin past.doubled
                 PROVE  /\ queue[run'[v].job].status = "running"
                        /\ \A u \in Workers : run'[u].job = run'[v].job => u = v
                        /\ run'[v].place # "return" => artifact'[run'[v].job].status # "completed"
        BY DEF RunsAlone
    <2>1. \A u \in Workers : run'[u].job = run[u].job
        BY <1>4
    <2>2. run[v].place # "idle"
        BY <1>4
    <2>3. /\ queue[run[v].job].status = "running"
          /\ \A u \in Workers : run[u].job = run[v].job => u = v
          /\ run[v].place # "return" => artifact[run[v].job].status # "completed"
        BY <2>1, <2>2 DEF RunsInv, RunsAlone
    <2>4. run'[v].place # "return" => artifact'[run'[v].job].status # "completed"
        <3>1. CASE v = w
            BY <3>1, <1>1, <1>3, <1>4, <2>1
        <3>2. CASE v # w
            <4>1. run[v].job \in Artifacts
                BY <2>2, RunningJob
            <4>2. run[v].job # a
                BY <3>2, <2>3, <1>1
            <4> QED
                BY <3>2, <4>1, <4>2, <2>3, <1>3, <1>4
        <3> QED
            BY <3>1, <3>2
    <2> QED
        BY <2>1, <2>3, <2>4
<1> QED
    BY <1>5, <1>6, <1>7, <1>8 DEF RunsInv

\* A row of a package fits what the package has seen.
PackageFits(package) ==
    /\ FitsWindow(package.sha256.sections, package.truncated, package.seen)
    /\ NothingMissed(package.seen, package.window)

\* What is completed and what is about to be is as it was, unless a sink is shared
\* or a job has two runs: a step that stores nothing and completes nothing.
LEMMA ContentsStay ==
    ASSUME RunsInv, ContentsInv, artifact' \in [Artifacts -> ArtifactRow],
           \A a \in Artifacts : artifact'[a].status = "completed" => artifact'[a] = artifact[a],
           \A a \in Artifacts : artifact[a].status # "absent" =>
                /\ artifact'[a].kind = artifact[a].kind /\ artifact'[a].sink = artifact[a].sink
                /\ artifact'[a].window = artifact[a].window,
           \A w \in Workers :
                \/ run'[w] = run[w]
                \/ run'[w].place = "idle"
                \/ /\ run'[w].place # "commit"
                   /\ artifact'[run'[w].job].kind = "package" =>
                        /\ Gathered(run'[w], artifact'[run'[w].job].window)
                        /\ run'[w].place = "store" => run'[w].taken = NumCategories,
           past.doubled \subseteq past'.doubled,
           UNCHANGED <<stored, sunk>>
    PROVE  ContentsInv'
<1>1. ASSUME NEW a \in Artifacts, artifact[a].status # "absent", SharesSink(a)
      PROVE  SharesSink(a)'
    <2>1. PICK b \in Artifacts \ {a} : artifact[b].sink = artifact[a].sink /\ artifact[b].sink # "none"
        BY <1>1 DEF SharesSink
    <2>2. artifact[b].status # "absent"
        BY <2>1 DEF RunsInv, RunsHaveRows
    <2> QED
        BY <1>1, <2>1, <2>2 DEF SharesSink
<1>2. ASSUME NEW a \in Artifacts, artifact[a].status # "absent" PROVE ObjectOf(a)' = ObjectOf(a)
    BY <1>2 DEF ObjectOf
<1>3. StoredIsKept'
    <2> SUFFICES ASSUME NEW w \in Workers, run'[w].place = "commit", run'[w] = run[w]
                 PROVE  \/ ObjectOf(run[w].job)' = run[w].content
                        \/ run[w].job \in past'.doubled \/ SharesSink(run[w].job)'
        BY DEF StoredIsKept, ObjectOf, SharesSink
    <2>1. run[w].job \in Artifacts /\ artifact[run[w].job].status # "absent"
        BY RunningJob
    <2>2. \/ ObjectOf(run[w].job) = run[w].content
          \/ run[w].job \in past.doubled \/ SharesSink(run[w].job)
        BY DEF ContentsInv, StoredIsKept
    <2> QED
        BY <2>1, <2>2, <1>1, <1>2
<1>4. CompletedIsStored'
    <2> SUFFICES ASSUME NEW a \in Artifacts, artifact'[a].status = "completed"
                 PROVE  \/ ObjectOf(a)' = artifact'[a].sha256
                        \/ a \in past'.doubled \/ SharesSink(a)'
        BY DEF CompletedIsStored, SharesSink
    <2>1. artifact'[a] = artifact[a]
        OBVIOUS
    <2>2. ObjectOf(a) = artifact[a].sha256 \/ a \in past.doubled \/ SharesSink(a)
        BY <2>1 DEF ContentsInv, CompletedIsStored, SharesSink
    <2> QED
        BY <2>1, <2>2, <1>1, <1>2
<1>5. PackagesGather'
    <2> SUFFICES ASSUME NEW w \in Workers, run'[w].place # "idle", NEW a, a = run'[w].job,
                        artifact'[a].kind = "package"
                 PROVE  /\ Gathered(run'[w], artifact'[a].window)
                        /\ run'[w].place \in {"store", "commit"} => run'[w].taken = NumCategories
        BY DEF PackagesGather, Gathered, Left, WithinLimit, RowsBefore
    <2>1. CASE run'[w] = run[w]
        <3>1. run[w].job \in Artifacts /\ artifact[run[w].job].status # "absent"
            BY <2>1, RunningJob
        <3> QED
            BY <2>1, <3>1 DEF ContentsInv, PackagesGather
    <2>2. CASE run'[w] # run[w]
        BY <2>2
    <2> QED
        BY <2>1, <2>2
<1>6. PackageIsItsWindow'
    <2> SUFFICES ASSUME NEW a \in Artifacts, artifact'[a].kind = "package",
                        artifact'[a].status = "completed"
                 PROVE  PackageFits(artifact'[a])
        BY DEF PackageIsItsWindow, PackageFits, FitsWindow, NothingMissed, WithinLimit, RowsBefore
    <2>1. artifact'[a] = artifact[a]
        OBVIOUS
    <2> QED
        BY <2>1 DEF ContentsInv, PackageIsItsWindow, PackageFits, FitsWindow, NothingMissed
<1> QED
    BY <1>3, <1>4, <1>5, <1>6 DEF ContentsInv

-----------------------------------------------------------------------------
(***************************************************************************)
(* The steps.                                                              *)
(***************************************************************************)
ArtifactsKept == RunsInv /\ ContentsInv /\ WindowsGrow

\* The windows are left alone.
LEMMA WindowsStay ==
    ASSUME WindowsGrow, inside' = inside,
           \A a \in Artifacts : artifact'[a].window = artifact[a].window
    PROVE  WindowsGrow'
BY DEF WindowsGrow, NothingMissed

\* A step that only removes a creator, moves the surroundings or downloads.
LEMMA ArtifactsKeptAside ==
    ASSUME ArtifactsKept, creator' \subseteq creator, edges' \subseteq EdgeIds,
           rows' \in [Categories -> Nat], inside' \in [Artifacts -> [Categories -> Nat]],
           \A a \in Artifacts : NothingMissed(inside'[a], artifact[a].window), allowed' \subseteq Sinks, load' \in 0..MaxLoad,
           past' \in PastRow,
           past'.doubled = past.doubled,
           UNCHANGED <<queue, artifact, stored, sunk, run, flagged, serial>>
    PROVE  ArtifactsKept'
<1>1. RunsInv /\ ContentsInv /\ WindowsGrow
    BY DEF ArtifactsKept
<1>2. RunsInv'
    <2>1. ArtifactRowTypes'
        BY <1>1 DEF RunsInv, ArtifactRowTypes, QueueTypeOK
    <2>2. AttemptsLeft' /\ RunsHaveRows'
        BY <1>1 DEF RunsInv, AttemptsLeft, RunsHaveRows
    <2>3. RunsAlone'
        BY <1>1 DEF RunsInv, RunsAlone
    <2> QED
        BY <2>1, <2>2, <2>3 DEF RunsInv
<1>3. ContentsInv'
    <2>1. artifact' \in [Artifacts -> ArtifactRow]
        BY <1>1 DEF RunsInv, ArtifactRowTypes
    <2> QED
        BY <1>1, <2>1, ContentsStay
<1>4. WindowsGrow'
    BY DEF WindowsGrow, NothingMissed
<1> QED
    BY <1>2, <1>3, <1>4 DEF ArtifactsKept

\* A new artifact has a row and a creator, and no job.
LEMMA Creation ==
    ASSUME ArtifactsKept, NEW a \in Artifacts, artifact[a].status = "absent",
           NEW state \in ArtifactRow, state.status = "pending",
           artifact' = [artifact EXCEPT ![a] = state], creator' = creator \cup {a},
           inside' \in [Artifacts -> [Categories -> Nat]], NothingMissed(inside'[a], state.window),
           \A b \in Artifacts \ {a} : inside'[b] = inside[b],
           UNCHANGED <<queue, stored, sunk, run, edges, rows, flagged, allowed, serial, load,
                       past>>
    PROVE  ArtifactsKept'
<1>1. RunsInv /\ ContentsInv /\ WindowsGrow
    BY DEF ArtifactsKept
<1>2. /\ artifact' \in [Artifacts -> ArtifactRow] /\ artifact'[a] = state
      /\ \A b \in Artifacts \ {a} : artifact'[b] = artifact[b]
    BY <1>1 DEF RunsInv, ArtifactRowTypes
<1>3. \A w \in Workers : run[w].place # "idle" => run[w].job \in Artifacts /\ run[w].job # a
    BY <1>1, RunningJob
<1>4. RunsInv'
    <2>1. ArtifactRowTypes'
        BY <1>1, <1>2 DEF RunsInv, ArtifactRowTypes, QueueTypeOK
    <2>2. AttemptsLeft'
        BY <1>1 DEF RunsInv, AttemptsLeft
    <2>3. RunsHaveRows'
        BY <1>1, <1>2 DEF RunsInv, RunsHaveRows
    <2>4. RunsAlone'
        BY <1>1, <1>2, <1>3 DEF RunsInv, RunsAlone
    <2> QED
        BY <2>1, <2>2, <2>3, <2>4 DEF RunsInv
<1>5. ContentsInv'
    <2>1. \A b \in Artifacts : artifact'[b].status = "completed" => artifact'[b] = artifact[b]
        BY <1>2
    <2>2. \A b \in Artifacts : artifact[b].status # "absent" => artifact'[b] = artifact[b]
        BY <1>2
    <2> QED
        BY <1>1, <1>2, <2>1, <2>2, ContentsStay
<1>6. WindowsGrow'
    BY <1>1, <1>2 DEF WindowsGrow, NothingMissed
<1> QED
    BY <1>4, <1>5, <1>6 DEF ArtifactsKept

LEMMA CreateStep ==
    ASSUME ArtifactsKept, NEW a \in Artifacts,
           \/ \E sink \in Sinks \cup {"none"} : create_graph_export(a, sink)
           \/ \E signing_profile \in BOOLEAN : create_evidence_package(a, signing_profile)
    PROVE  ArtifactsKept'
<1>1. RunsInv
    BY DEF ArtifactsKept
<1>2. NoArtifact \in ArtifactRow
    BY NoRunRow DEF NoArtifact, ArtifactRow
<1>3. ASSUME NEW sink \in Sinks \cup {"none"}, create_graph_export(a, sink) PROVE ArtifactsKept'
    <2>1. PICK state : state = [NoArtifact EXCEPT !.status = "pending", !.sink = sink]
        OBVIOUS
    <2>2. state \in ArtifactRow /\ state.status = "pending" /\ state.window = NoRows
        BY <1>2, <2>1 DEF ArtifactRow, NoArtifact
    <2>4. inside' = inside /\ inside \in [Artifacts -> [Categories -> Nat]]
        BY <1>1, <1>3 DEF create_graph_export, RunsInv, ArtifactRowTypes
    <2>5. NothingMissed(inside'[a], state.window)
        BY <2>2, <2>4 DEF NothingMissed, NoRows
    <2>3. artifact[a].status = "absent" /\ artifact' = [artifact EXCEPT ![a] = state]
        BY <1>3, <2>1 DEF create_graph_export, NextArtifact
    <2> QED
        BY <1>3, <2>2, <2>3, <2>4, <2>5, Creation DEF create_graph_export
<1>4. ASSUME NEW signing_profile \in BOOLEAN, create_evidence_package(a, signing_profile)
      PROVE  ArtifactsKept'
    <2>1. PICK state : state = [NoArtifact EXCEPT !.status = "pending", !.kind = "package",
                                                  !.window = rows, !.signed = signing_profile]
        OBVIOUS
    <2>2. rows \in [Categories -> Nat] /\ inside \in [Artifacts -> [Categories -> Nat]]
        BY <1>1 DEF RunsInv, ArtifactRowTypes
    <2>3. state \in ArtifactRow /\ state.status = "pending" /\ state.window = rows
        BY <1>2, <2>1, <2>2 DEF ArtifactRow
    <2>5. inside' = [inside EXCEPT ![a] = rows]
        BY <1>4 DEF create_evidence_package
    <2>6. /\ inside' \in [Artifacts -> [Categories -> Nat]]
          /\ NothingMissed(inside'[a], state.window)
          /\ \A b \in Artifacts \ {a} : inside'[b] = inside[b]
        BY <2>2, <2>3, <2>5 DEF NothingMissed
    <2>4. artifact[a].status = "absent" /\ artifact' = [artifact EXCEPT ![a] = state]
        BY <1>4, <2>1 DEF create_evidence_package, NextArtifact
    <2> QED
        BY <1>4, <2>3, <2>4, <2>6, Creation DEF create_evidence_package
<1> QED
    BY <1>3, <1>4

\* Enqueue, recover, cancel and retry.
LEMMA ArtifactJobStep ==
    ASSUME ArtifactsKept, NEW a \in Artifacts,
           EnqueueArtifact(a) \/ RecoverArtifact(a) \/ CancelJob(a) \/ RetryJob(a)
    PROVE  ArtifactsKept'
<1>1. RunsInv /\ ContentsInv /\ WindowsGrow
    BY DEF ArtifactsKept
<1>2. queue[a] \in JobRow /\ queue \in [Jobs -> JobRow] /\ a \in Jobs
    BY <1>1 DEF RunsInv, ArtifactRowTypes, QueueTypeOK, JobRow, Artifacts
<1>3. MaxAttempts \in Nat \ {0} /\ 0 \in 0..MaxAttempts
    BY ArtifactsAssumption
<1>4. /\ past \in PastRow
      /\ load \in 0..MaxLoad /\ flagged \subseteq Artifacts /\ artifact \in [Artifacts -> ArtifactRow]
    BY <1>1 DEF RunsInv, ArtifactRowTypes
<1>5. queue[a].status # "absent" => artifact[a].status # "absent"
    BY <1>1 DEF RunsInv, RunsHaveRows
<1>6. ASSUME queue[a].status # "running", NEW w \in Workers, run[w].job = a
      PROVE  a \in past.doubled
    <2>1. run[w].place # "idle"
        BY <1>1, <1>6, ArtifactsAssumption DEF RunsInv, RunsHaveRows, Artifacts
    <2> QED
        BY <1>1, <1>6, <2>1 DEF RunsInv, RunsAlone
<1> DEFINE fresh == [status |-> "pending", attempts |-> 0]
<1>7. fresh \in JobRow /\ fresh.status = "pending" /\ fresh.attempts < MaxAttempts
    BY <1>3 DEF JobRow, JobStatuses
<1>8. ASSUME RunsInv' PROVE UNCHANGED <<artifact, stored, sunk, run>> /\ ArtifactsKept'
    <2>1. UNCHANGED <<artifact, stored, sunk, run, inside>>
        BY DEF EnqueueArtifact, RecoverArtifact, CancelJob, RetryJob
    <2>2. past.doubled \subseteq past'.doubled
        BY <1>4 DEF EnqueueArtifact, RecoverArtifact, CancelJob, RetryJob, PastRow
    <2>3. ContentsInv'
        BY <1>1, <1>4, <2>1, <2>2, ContentsStay
    <2>4. WindowsGrow'
        BY <1>1, <2>1, WindowsStay
    <2> QED
        BY <1>8, <2>1, <2>3, <2>4 DEF ArtifactsKept
<1>9. CASE EnqueueArtifact(a)
    <2>1. queue' = [queue EXCEPT ![a] = fresh] /\ queue[a].status = "absent"
        BY <1>9 DEF EnqueueArtifact, Enqueue
    <2>2. artifact[a].status # "absent"
        BY <1>1, <1>9 DEF EnqueueArtifact, RunsInv, RunsHaveRows
    <2>3. past' = past /\ creator' \subseteq creator
        BY <1>9 DEF EnqueueArtifact
    <2> HIDE DEF fresh
    <2>4. RunsInv'
        BY <1>1, <1>4, <1>6, <1>7, <1>9, <2>1, <2>2, <2>3, JobChanges DEF EnqueueArtifact
    <2> QED
        BY <1>8, <2>4
<1>10. CASE RecoverArtifact(a)
    <2>1. PICK row : row = AfterFailure(queue[a])
        OBVIOUS
    <2>2. /\ row \in JobRow /\ row.status # "absent"
          /\ row.status = "pending" => row.attempts < MaxAttempts
        BY <1>2, <2>1, FailedRow
    <2>3. queue' = [queue EXCEPT ![a] = row] /\ queue[a].status = "running"
        BY <1>2, <1>10, <2>1 DEF RecoverArtifact, Recover
    <2>4. /\ past' \in PastRow
          /\ past.doubled \subseteq past'.doubled /\ load' \in 0..MaxLoad
          /\ \A w \in Workers : run[w].job # a \/ a \in past'.doubled
        <3>1. PICK expired, doubled : past' = [expired |-> expired, doubled |-> doubled]
                    /\ expired = past.expired \cup {b \in {a} : AfterFailure(queue[b]).status = "failed"}
                    /\ doubled = past.doubled \cup {b \in {a} : Runs(b)}
            BY <1>10 DEF RecoverArtifact
        <3>2. expired \in SUBSET Artifacts /\ doubled \in SUBSET Artifacts
            BY <1>4, <3>1 DEF PastRow
        <3>3. past' \in PastRow /\ past'.doubled = doubled
            BY <3>1, <3>2 DEF PastRow
        <3>4. load' \in 0..MaxLoad
            BY <1>4, <1>10, ArtifactsAssumption DEF RecoverArtifact, Loaded
        <3>5. \A w \in Workers : run[w].job = a => a \in doubled
            BY <3>1 DEF Runs
        <3> QED
            BY <3>1, <3>3, <3>4, <3>5
    <2>5. RunsInv'
        <3>1. /\ creator' \subseteq creator /\ flagged' \subseteq Artifacts
              /\ UNCHANGED <<artifact, stored, sunk, run, edges, rows, inside, allowed, serial>>
            BY <1>4, <1>10 DEF RecoverArtifact
        <3>2. artifact[a].status # "absent"
            BY <1>5, <2>3
        <3> QED
            BY <1>1, <2>2, <2>3, <2>4, <3>1, <3>2, JobChanges
    <2> QED
        BY <1>8, <2>5
<1>11. CASE CancelJob(a)
    <2>1. /\ past' = past /\ load' \in 0..MaxLoad /\ queue[a].status # "absent"
          /\ flagged' = flagged \cup {a}
        BY <1>4, <1>11, ArtifactsAssumption DEF CancelJob, Loaded
    <2>2. CASE queue[a].status = "pending"
        <3>1. PICK row : row = [queue[a] EXCEPT !.status = "cancelled"]
            OBVIOUS
        <3>2. row \in JobRow /\ row.status = "cancelled"
            BY <1>2, <3>1 DEF JobRow, JobStatuses
        <3>3. queue' = [queue EXCEPT ![a] = row]
            BY <1>2, <1>11, <2>2, <3>1 DEF CancelJob, Cancel
        <3>4. flagged' \subseteq Artifacts /\ creator' \subseteq creator
              /\ past' \in PastRow /\ past.doubled \subseteq past'.doubled
            BY <1>4, <1>11, <2>1 DEF CancelJob
        <3>5. \A w \in Workers : run[w].job # a \/ a \in past'.doubled
            BY <1>6, <2>1, <2>2
        <3>6. UNCHANGED <<artifact, stored, sunk, run, edges, rows, inside, allowed, serial>>
            BY <1>11 DEF CancelJob
        <3>7. RunsInv'
            BY <1>1, <1>5, <2>1, <3>2, <3>3, <3>4, <3>5, <3>6, JobChanges
        <3> QED
            BY <1>8, <3>7
    <2>3. CASE queue[a].status # "pending"
        <3>1. UNCHANGED <<queue, artifact, creator, stored, sunk, run, edges, rows, inside,
                          allowed, serial, past>>
            BY <1>11, <2>3 DEF CancelJob
        <3>2. flagged' \subseteq Artifacts
            BY <1>4, <2>1
        <3>3. ArtifactRowTypes'
            BY <1>1, <2>1, <3>1, <3>2 DEF RunsInv, ArtifactRowTypes, QueueTypeOK
        <3>4. AttemptsLeft' /\ RunsHaveRows' /\ RunsAlone'
            BY <1>1, <3>1 DEF RunsInv, AttemptsLeft, RunsHaveRows, RunsAlone
        <3>5. RunsInv'
            BY <3>3, <3>4 DEF RunsInv
        <3> QED
            BY <1>8, <3>5
    <2> QED
        BY <2>2, <2>3
<1>12. CASE RetryJob(a)
    <2>1. queue' = [queue EXCEPT ![a] = fresh] /\ queue[a].status \in {"failed", "cancelled"}
        BY <1>12 DEF RetryJob, Retry
    <2>2. load' \in 0..MaxLoad /\ flagged' \subseteq Artifacts
        BY <1>4, <1>12, ArtifactsAssumption DEF RetryJob, Loaded
    <2>3. past' \in PastRow /\ past'.doubled = past.doubled
        <3>1. past' = [expired |-> past.expired \ {a}, doubled |-> past.doubled]
            BY <1>4, <1>12 DEF RetryJob, PastRow
        <3>2. past.expired \ {a} \in SUBSET Artifacts /\ past.doubled \in SUBSET Artifacts
            BY <1>4 DEF PastRow
        <3> QED
            BY <3>1, <3>2 DEF PastRow
    <2> HIDE DEF fresh
    <2>4. RunsInv'
        BY <1>1, <1>4, <1>5, <1>6, <1>7, <1>12, <2>1, <2>2, <2>3, JobChanges DEF RetryJob
    <2> QED
        BY <1>8, <2>4
<1> QED
    BY <1>9, <1>10, <1>11, <1>12

\* Only one handler has the job of an artifact without two runs.
LEMMA OneRun ==
    ASSUME RunsInv, NEW w \in Workers, NEW v \in Workers, v # w, run[w].place # "idle",
           run[v].job = run[w].job
    PROVE  run[w].job \in past.doubled
BY DEF RunsInv, RunsAlone

LEMMA LoadStep ==
    ASSUME ArtifactsKept, NEW w \in Workers, NEW a \in Artifacts, LoadArtifact(w, a)
    PROVE  ArtifactsKept'
<1>1. RunsInv /\ ContentsInv /\ WindowsGrow
    BY DEF ArtifactsKept
<1>2. PICK place \in {"return", "mark"} :
            /\ run' = [run EXCEPT ![w] = [NoRun EXCEPT !.job = a, !.place = place]]
            /\ place = "mark" => artifact[a].status # "completed"
    BY DEF LoadArtifact, Finished
<1>3. PICK next : next = [NoRun EXCEPT !.job = a, !.place = place]
    OBVIOUS
<1>4. NoRun \in RunRow
    BY NoRunRow
<1>5. /\ next \in RunRow /\ next.job = a /\ next.place = place
      /\ next.taken = 0 /\ next.remaining = MaxRecords
    BY <1>3, <1>4, NoRunRow DEF RunRow
<1>6. /\ run' \in [Workers -> RunRow] /\ run'[w] = next
      /\ \A v \in Workers \ {w} : run'[v] = run[v]
    BY <1>1, <1>2, <1>3, <1>5 DEF RunsInv, ArtifactRowTypes
<1>7. /\ queue[a] \in JobRow /\ queue \in [Jobs -> JobRow] /\ a \in Jobs /\ a # 0
      /\ queue[a].status = "pending" /\ queue[a].attempts < MaxAttempts
    BY <1>1, ArtifactsAssumption
       DEF RunsInv, ArtifactRowTypes, QueueTypeOK, AttemptsLeft, JobRow, Artifacts, LoadArtifact, Claim
<1>8. PICK row : row = [status |-> "running", attempts |-> queue[a].attempts + 1]
    OBVIOUS
<1>9. row \in JobRow /\ row.status = "running"
    BY <1>7, <1>8, ArtifactsAssumption DEF JobRow, JobStatuses
<1>10. queue' = [queue EXCEPT ![a] = row]
    BY <1>8 DEF LoadArtifact, Claim
<1>11. /\ queue' \in [Jobs -> JobRow] /\ queue'[a] = row
       /\ \A b \in Artifacts \ {a} : queue'[b] = queue[b]
    BY <1>7, <1>9, <1>10 DEF Artifacts
<1>12. UNCHANGED <<artifact, creator, stored, sunk, edges, rows, inside, flagged, allowed, serial,
                   load, past>>
    BY DEF LoadArtifact
<1>13. run[w].place = "idle"
    BY DEF LoadArtifact
<1>14. \A v \in Workers : run[v].job = a => a \in past.doubled
    BY <1>1, <1>7 DEF RunsInv, RunsHaveRows, RunsAlone
<1>15. artifact[a].status # "absent"
    BY <1>1, <1>7 DEF RunsInv, RunsHaveRows
<1>16. ArtifactRowTypes'
    BY <1>1, <1>6, <1>11, <1>12 DEF RunsInv, ArtifactRowTypes, QueueTypeOK, JobRow
<1>17. AttemptsLeft'
    BY <1>1, <1>9, <1>11 DEF RunsInv, AttemptsLeft
<1>18. RunsHaveRows'
    <2>1. ASSUME NEW v \in Workers
          PROVE  /\ run'[v].place = "idle" <=> run'[v].job = 0
                 /\ run'[v].place # "idle" => queue'[run'[v].job].status # "absent"
        <3>1. CASE v = w
            BY <3>1, <1>5, <1>6, <1>7, <1>9, <1>11
        <3>2. CASE v # w
            <4>1. run[v].place # "idle" => run[v].job \in Artifacts /\ queue[run[v].job].status # "absent"
                BY <1>1, RunningJob
            <4>2. run'[v] = run[v]
                BY <3>2, <1>6
            <4> QED
                BY <4>1, <4>2, <1>1, <1>9, <1>11 DEF RunsInv, RunsHaveRows
        <3> QED
            BY <3>1, <3>2
    <2>2. ASSUME NEW b \in Artifacts, artifact[b].status = "absent"
          PROVE  queue'[b].status = "absent" /\ b \notin creator /\ artifact[b].sink = "none"
        BY <1>1, <1>11, <1>15, <2>2 DEF RunsInv, RunsHaveRows
    <2> QED
        BY <2>1, <2>2, <1>12 DEF RunsHaveRows
<1>19. RunsAlone'
    <2> SUFFICES ASSUME NEW v \in Workers, run'[v].place # "idle", run'[v].job \notin past.doubled
                 PROVE  /\ queue'[run'[v].job].status = "running"
                        /\ \A u \in Workers : run'[u].job = run'[v].job => u = v
                        /\ run'[v].place # "return" => artifact[run'[v].job].status # "completed"
        BY <1>12 DEF RunsAlone
    <2>1. CASE v = w
        BY <2>1, <1>2, <1>5, <1>6, <1>9, <1>11, <1>14
    <2>2. CASE v # w
        <3>1. run'[v] = run[v] /\ run[v].place # "idle"
            BY <2>2, <1>6
        <3>2. run[v].job \in Artifacts /\ run[v].job # a
            BY <3>1, <1>1, <1>14, RunningJob
        <3>3. /\ queue[run[v].job].status = "running"
              /\ \A u \in Workers : run[u].job = run[v].job => u = v
              /\ run[v].place # "return" => artifact[run[v].job].status # "completed"
            BY <3>1, <1>1 DEF RunsInv, RunsAlone
        <3> QED
            BY <3>1, <3>2, <3>3, <1>5, <1>6, <1>11
    <2> QED
        BY <2>1, <2>2
<1>20. ContentsInv'
    <2>1. ASSUME NEW v \in Workers
          PROVE  \/ run'[v] = run[v]
                 \/ /\ run'[v].place \notin {"store", "commit"}
                    /\ Gathered(run'[v], artifact'[run'[v].job].window)
        <3>1. Gathered(next, artifact'[next.job].window)
            BY <1>5, GatheringStarts
        <3> QED
            BY <1>5, <1>6, <3>1
    <2>2. artifact' \in [Artifacts -> ArtifactRow]
        BY <1>1, <1>12 DEF RunsInv, ArtifactRowTypes
    <2> QED
        BY <1>1, <1>12, <2>1, <2>2, ContentsStay
<1>21. WindowsGrow'
    BY <1>1, <1>12, WindowsStay
<1> QED
    BY <1>16, <1>17, <1>18, <1>19, <1>20, <1>21 DEF ArtifactsKept, RunsInv

LEMMA MarkStep ==
    ASSUME ArtifactsKept, NEW w \in Workers, MarkRunning(w)
    PROVE  ArtifactsKept'
<1>1. RunsInv /\ ContentsInv /\ WindowsGrow
    BY DEF ArtifactsKept
<1>2. PICK a : a = run[w].job
    OBVIOUS
<1>3. run[w].place = "mark"
    BY DEF MarkRunning
<1>4. run[w] \in RunRow /\ a \in Artifacts /\ artifact[a] \in ArtifactRow
    BY <1>1, <1>2, <1>3, RunningJob
<1>5. PICK next, state : /\ next = [run[w] EXCEPT !.place = "generate"]
                         /\ state = [artifact[a] EXCEPT !.status = "running"]
    OBVIOUS
<1>6. /\ next \in RunRow /\ next.job = run[w].job /\ next.place = "generate"
      /\ next.content = run[w].content /\ next.truncated = run[w].truncated
      /\ next.taken = run[w].taken /\ next.remaining = run[w].remaining
      /\ next.seen = run[w].seen
      /\ state \in ArtifactRow /\ state.status = "running" /\ state.kind = artifact[a].kind
      /\ state.sink = artifact[a].sink /\ state.window = artifact[a].window
    BY <1>4, <1>5 DEF RunRow, ArtifactRow
<1>7. run \in [Workers -> RunRow] /\ artifact \in [Artifacts -> ArtifactRow]
    BY <1>1 DEF RunsInv, ArtifactRowTypes
<1>8. run' = [run EXCEPT ![w] = next] /\ artifact' = [artifact EXCEPT ![a] = state]
    BY <1>2, <1>5 DEF MarkRunning, Goto
<1>9. UNCHANGED <<queue, creator, stored, sunk, edges, rows, inside, flagged, allowed, serial,
                  load, past>>
    BY DEF MarkRunning
<1>10. RunsInv'
    <2>1. /\ stored' \in [Artifacts -> Content] /\ sunk' \in [Sinks -> Content]
          /\ serial' \in Nat
        BY <1>1, <1>9 DEF RunsInv, ArtifactRowTypes
    <2> QED
        BY <1>1, <1>2, <1>3, <1>6, <1>8, <1>9, <2>1, RunGoesOn
<1>11. ContentsInv'
    <2>1. artifact' \in [Artifacts -> ArtifactRow]
        BY <1>4, <1>6, <1>7, <1>8
    <2>2. \A b \in Artifacts : artifact'[b].status = "completed" => artifact'[b] = artifact[b]
        BY <1>4, <1>6, <1>7, <1>8
    <2>3. \A b \in Artifacts :
            /\ artifact'[b].kind = artifact[b].kind /\ artifact'[b].sink = artifact[b].sink
            /\ artifact'[b].window = artifact[b].window
        BY <1>4, <1>6, <1>7, <1>8
    <2>4. ASSUME NEW v \in Workers
          PROVE  \/ run'[v] = run[v]
                 \/ /\ run'[v].place \notin {"store", "commit"}
                    /\ artifact'[run'[v].job].kind = "package" =>
                            Gathered(run'[v], artifact'[run'[v].job].window)
        <3>1. artifact[a].kind = "package" => Gathered(run[w], artifact[a].window)
            BY <1>1, <1>2, <1>3 DEF ContentsInv, PackagesGather
        <3>2. artifact[a].kind = "package" => Gathered(next, artifact[a].window)
            BY <3>1, <1>6 DEF Gathered
        <3>3. /\ artifact'[next.job].window = artifact[a].window
              /\ artifact'[next.job].kind = artifact[a].kind
            BY <2>3, <1>2, <1>4, <1>6
        <3> QED
            BY <1>6, <1>7, <1>8, <3>2, <3>3
    <2> QED
        BY <1>1, <1>9, <2>1, <2>2, <2>3, <2>4, ContentsStay
<1>12. WindowsGrow'
    <2>1. \A b \in Artifacts : artifact'[b].window = artifact[b].window
        BY <1>4, <1>6, <1>7, <1>8
    <2> QED
        BY <1>1, <1>9, <2>1, WindowsStay
<1> QED
    BY <1>10, <1>11, <1>12 DEF ArtifactsKept

\* A handler that gathers or generates writes nothing but its own state.
LEMMA GatherStep ==
    ASSUME ArtifactsKept, NEW w \in Workers, run[w].place = "generate",
           NEW next \in RunRow, next.job = run[w].job, next.place \in {"generate", "store"},
           artifact[run[w].job].kind = "package" =>
                /\ Gathered(next, artifact[run[w].job].window)
                /\ next.place = "store" => next.taken = NumCategories,
           run' = [run EXCEPT ![w] = next], serial' \in Nat,
           UNCHANGED <<queue, artifact, creator, stored, sunk, edges, rows, inside, flagged,
                       allowed, load, past>>
    PROVE  ArtifactsKept'
<1>1. RunsInv /\ ContentsInv /\ WindowsGrow
    BY DEF ArtifactsKept
<1>2. PICK a : a = run[w].job
    OBVIOUS
<1>3. a \in Artifacts /\ artifact[a] \in ArtifactRow /\ artifact[a].status # "absent"
    BY <1>1, <1>2, RunningJob
<1>4. /\ run \in [Workers -> RunRow] /\ artifact \in [Artifacts -> ArtifactRow]
      /\ stored' \in [Artifacts -> Content] /\ sunk' \in [Sinks -> Content]
    BY <1>1 DEF RunsInv, ArtifactRowTypes
<1>5. RunsInv'
    <2>1. artifact' = [artifact EXCEPT ![a] = artifact[a]]
        BY <1>4
    <2>2. artifact[a].status # "completed" \/ a \in past.doubled
        BY <1>1, <1>2 DEF RunsInv, RunsAlone
    <2>3. next.place # "idle" /\ next.job = run[w].job
        OBVIOUS
    <2> QED
        BY <1>1, <1>2, <1>3, <1>4, <2>1, <2>2, <2>3, RunGoesOn
<1>6. ContentsInv'
    <2>1. ASSUME NEW v \in Workers
          PROVE  \/ run'[v] = run[v]
                 \/ /\ run'[v].place # "commit"
                    /\ artifact'[run'[v].job].kind = "package" =>
                        /\ Gathered(run'[v], artifact'[run'[v].job].window)
                        /\ run'[v].place = "store" => run'[v].taken = NumCategories
        BY <1>4
    <2> QED
        BY <1>1, <1>4, <2>1, ContentsStay
<1>7. WindowsGrow'
    BY <1>1, WindowsStay
<1> QED
    BY <1>5, <1>6, <1>7 DEF ArtifactsKept

\* An export is generated at once, a package category by category.
LEMMA GenerateStep ==
    ASSUME ArtifactsKept, NEW w \in Workers,
           GenerateExport(w) \/ TakeCategory(w) \/ GeneratePackage(w)
    PROVE  ArtifactsKept'
<1>1. RunsInv /\ ContentsInv /\ WindowsGrow
    BY DEF ArtifactsKept
<1>2. PICK a, r : a = run[w].job /\ r = run[w]
    OBVIOUS
<1>3. run[w].place = "generate" /\ r.place = "generate" /\ r.job = a
    BY <1>2 DEF GenerateExport, TakeCategory, GeneratePackage
<1>4. r \in RunRow /\ a \in Artifacts /\ artifact[a] \in ArtifactRow
    BY <1>1, <1>2, <1>3, RunningJob
<1>5. /\ run \in [Workers -> RunRow] /\ edges \subseteq EdgeIds /\ serial \in Nat
      /\ inside \in [Artifacts -> [Categories -> Nat]]
    BY <1>1 DEF RunsInv, ArtifactRowTypes
<1>6. artifact[a].kind = "package" => Gathered(r, artifact[a].window)
    BY <1>1, <1>2, <1>3 DEF ContentsInv, PackagesGather
<1>7. /\ UNCHANGED <<queue, artifact, creator, stored, sunk, edges, rows, inside, flagged,
                     allowed, load, past>>
      /\ serial' \in Nat
    <2>1. CASE GenerateExport(w)
        BY <1>5, <2>1 DEF GenerateExport
    <2>2. CASE TakeCategory(w)
        BY <1>5, <2>2 DEF TakeCategory
    <2>3. CASE GeneratePackage(w)
        BY <1>5, <2>3 DEF GeneratePackage
    <2> QED
        BY <2>1, <2>2, <2>3
<1>8. ASSUME NEW next \in RunRow, next.job = a, next.place \in {"generate", "store"},
             artifact[a].kind = "package" =>
                /\ Gathered(next, artifact[a].window)
                /\ next.place = "store" => next.taken = NumCategories,
             run' = [run EXCEPT ![w] = next]
      PROVE  ArtifactsKept'
    BY <1>2, <1>3, <1>7, <1>8, GatherStep
<1>9. /\ r.content \in Content /\ r.truncated \in BOOLEAN /\ r.taken \in 0..NumCategories
      /\ r.remaining \in 0..MaxRecords /\ r.seen \in [Categories -> Nat]
      /\ r.job \in Artifacts \cup {0}
    BY <1>4 DEF RunRow
<1>10. CASE GenerateExport(w)
    <2>1. PICK content, truncated :
                /\ content = [NoContent EXCEPT !.present = TRUE, !.edges = SelectedEdges]
                /\ truncated = (Cardinality(edges) > MaxRecords)
        OBVIOUS
    <2>2. content \in Content /\ content.sections = NoRows
        BY <1>5, <2>1, NoRunRow DEF Content, SelectedEdges, NoContent
    <2>3. truncated \in BOOLEAN
        BY <2>1
    <2>4. PICK next : next = [r EXCEPT !.place = "store", !.content = content,
                                       !.truncated = truncated]
        OBVIOUS
    <2>5. next = [job |-> r.job, place |-> "store", content |-> content,
                  truncated |-> truncated, taken |-> r.taken, remaining |-> r.remaining,
                  seen |-> r.seen]
        BY <1>4, <2>4 DEF RunRow
    <2>6. next \in RunRow
        BY <1>9, <2>2, <2>3, <2>5 DEF RunRow
    <2>7. run' = [run EXCEPT ![w] = next]
        BY <1>2, <1>10, <2>1, <2>4 DEF GenerateExport, AfterGenerate
    <2>8. artifact[a].kind # "package"
        BY <1>2, <1>10 DEF GenerateExport
    <2> QED
        BY <1>3, <1>8, <2>5, <2>6, <2>7, <2>8
<1>11. CASE TakeCategory(w)
    <2>1. PICK c, found, amount : /\ c = r.taken + 1 /\ found = inside[a][c]
                                  /\ amount = Min({found, r.remaining})
        OBVIOUS
    <2>2. c \in Categories /\ r.taken < NumCategories
        BY <1>2, <1>9, <1>11, <2>1, ArtifactsAssumption DEF TakeCategory, Categories
    <2>3. found \in Nat /\ (c \notin Purged => found >= artifact[a].window[c])
        BY <1>1, <1>4, <1>5, <2>1, <2>2 DEF WindowsGrow, NothingMissed
    <2>4. PICK next :
            next = [job |-> r.job, place |-> r.place,
                    content |-> [r.content EXCEPT !.sections = [@ EXCEPT ![c] = amount]],
                    truncated |-> r.truncated \/ r.remaining = 0 \/ found > r.remaining,
                    taken |-> c, remaining |-> r.remaining - amount,
                    seen |-> [r.seen EXCEPT ![c] = found]]
        OBVIOUS
    <2>5. next \in RunRow /\ Gathered(next, artifact[a].window)
        <3>1. Gathered(r, artifact[a].window)
            BY <1>2, <1>6, <1>11 DEF TakeCategory
        <3> QED
            BY <1>4, <2>1, <2>2, <2>3, <2>4, <3>1, GatheringGoesOn
    <2>6. run' = [run EXCEPT ![w] = next]
        <3>1. PICK content, left, mark, seen :
                /\ content = [r.content EXCEPT
                                !.sections = [r.content.sections EXCEPT ![c] = amount]]
                /\ left = r.remaining - amount
                /\ mark = (r.truncated \/ r.remaining = 0 \/ found > r.remaining)
                /\ seen = [r.seen EXCEPT ![c] = found]
            OBVIOUS
        <3>2. run' = [run EXCEPT ![w] = [r EXCEPT !.taken = c, !.content = content,
                            !.remaining = left, !.truncated = mark, !.seen = seen]]
            BY <1>2, <1>11, <2>1, <3>1 DEF TakeCategory, Window
        <3>3. next = [job |-> r.job, place |-> r.place, content |-> content,
                      truncated |-> mark, taken |-> c, remaining |-> left, seen |-> seen]
            BY <2>4, <3>1
        <3>4. PICK job, place, content0, mark0, taken0, left0, seen0 :
                r = [job |-> job, place |-> place, content |-> content0, truncated |-> mark0,
                     taken |-> taken0, remaining |-> left0, seen |-> seen0]
            BY <1>4 DEF RunRow
        <3>5. r.job = job /\ r.place = place
            BY <3>4
        <3>6. [r EXCEPT !.taken = c, !.content = content, !.remaining = left,
                        !.truncated = mark, !.seen = seen]
                = [job |-> job, place |-> place, content |-> content,
                   truncated |-> mark, taken |-> c, remaining |-> left, seen |-> seen]
            <4>1. PICK r1 : r1 = [r EXCEPT !.taken = c, !.content = content]
                OBVIOUS
            <4>2. PICK r2 : r2 = [r1 EXCEPT !.remaining = left]
                OBVIOUS
            <4>3. PICK r3 : r3 = [r2 EXCEPT !.truncated = mark]
                OBVIOUS
            <4>4. r1 = [job |-> job, place |-> place, content |-> content, truncated |-> mark0,
                        taken |-> c, remaining |-> left0, seen |-> seen0]
                BY ONLY <3>4, <4>1
            <4>5. r2 = [job |-> job, place |-> place, content |-> content, truncated |-> mark0,
                        taken |-> c, remaining |-> left, seen |-> seen0]
                BY ONLY <4>2, <4>4
            <4>6. r3 = [job |-> job, place |-> place, content |-> content, truncated |-> mark,
                        taken |-> c, remaining |-> left, seen |-> seen0]
                BY ONLY <4>3, <4>5
            <4>7. [r3 EXCEPT !.seen = seen] =
                       [job |-> job, place |-> place, content |-> content, truncated |-> mark,
                        taken |-> c, remaining |-> left, seen |-> seen]
                BY ONLY <4>6
            <4> QED
                BY <4>1, <4>2, <4>3, <4>7
        <3> QED
            BY <3>2, <3>3, <3>5, <3>6
    <2> QED
        BY <1>3, <1>8, <2>4, <2>5, <2>6
<1>12. CASE GeneratePackage(w)
    <2>1. PICK content : content = [r.content EXCEPT !.present = TRUE, !.serial = serial + 1]
        OBVIOUS
    <2>2. content \in Content /\ content.sections = r.content.sections
        <3>1. content = [present |-> TRUE, edges |-> r.content.edges,
                         sections |-> r.content.sections, serial |-> serial + 1]
            BY <1>9, <2>1 DEF Content
        <3>2. r.content.edges \in SUBSET EdgeIds /\ r.content.sections \in [Categories -> Nat]
            BY <1>9 DEF Content
        <3> QED
            BY <1>5, <3>1, <3>2 DEF Content
    <2>3. PICK next : next = [r EXCEPT !.place = "store", !.content = content]
        OBVIOUS
    <2>4. next = [job |-> r.job, place |-> "store", content |-> content,
                  truncated |-> r.truncated, taken |-> r.taken, remaining |-> r.remaining,
                  seen |-> r.seen]
        BY <1>4, <2>3 DEF RunRow
    <2>5. next \in RunRow
        BY <1>9, <2>2, <2>4 DEF RunRow
    <2>6. Gathered(next, artifact[a].window)
        <3>1. Gathered(r, artifact[a].window)
            BY <1>2, <1>6, <1>12 DEF GeneratePackage
        <3> QED
            BY <3>1, <2>2, <2>4 DEF Gathered
    <2>7. run' = [run EXCEPT ![w] = next]
        BY <1>2, <1>12, <2>1, <2>3 DEF GeneratePackage, AfterGenerate
    <2>8. next.taken = NumCategories
        BY <1>2, <1>12, <2>4 DEF GeneratePackage
    <2> QED
        BY <1>3, <1>8, <2>4, <2>5, <2>6, <2>7, <2>8
<1> QED
    BY <1>10, <1>11, <1>12


\* The object that a handler stores is that of its own artifact, and of the others
\* at its sink.
LEMMA StoreStep ==
    ASSUME ArtifactsKept, NEW w \in Workers, StoreOwn(w) \/ store_export_sink(w)
    PROVE  ArtifactsKept'
<1>1. RunsInv /\ ContentsInv /\ WindowsGrow
    BY DEF ArtifactsKept
<1>2. PICK a : a = run[w].job
    OBVIOUS
<1>3. run[w].place = "store"
    BY DEF StoreOwn, store_export_sink
<1>4. /\ run[w] \in RunRow /\ a \in Artifacts /\ artifact[a] \in ArtifactRow
      /\ artifact[a].status # "absent"
    BY <1>1, <1>2, <1>3, RunningJob
<1>5. /\ run \in [Workers -> RunRow] /\ artifact \in [Artifacts -> ArtifactRow]
      /\ stored \in [Artifacts -> Content] /\ sunk \in [Sinks -> Content]
    BY <1>1 DEF RunsInv, ArtifactRowTypes
<1>6. PICK next : next = [run[w] EXCEPT !.place = "commit"]
    OBVIOUS
<1>7. /\ next \in RunRow /\ next.job = a /\ next.place = "commit"
      /\ next.content = run[w].content /\ next.truncated = run[w].truncated
      /\ next.taken = run[w].taken /\ next.remaining = run[w].remaining
      /\ next.seen = run[w].seen /\ next.content \in Content
    BY <1>2, <1>4, <1>6 DEF RunRow
<1>8. /\ run' = [run EXCEPT ![w] = next] /\ run'[w] = next
      /\ \A v \in Workers \ {w} : run'[v] = run[v]
    BY <1>5, <1>6 DEF StoreOwn, store_export_sink, Goto
<1>9. UNCHANGED <<queue, artifact, creator, edges, rows, inside, flagged, allowed, serial, load, past>>
    BY DEF StoreOwn, store_export_sink
<1>10. /\ stored' \in [Artifacts -> Content] /\ sunk' \in [Sinks -> Content]
       /\ ObjectOf(a)' = run[w].content
       /\ \A b \in Artifacts \ {a} : ObjectOf(b)' = ObjectOf(b) \/ SharesSink(b)
    <2>1. CASE StoreOwn(w)
        <3>1. stored' = [stored EXCEPT ![a] = run[w].content] /\ artifact[a].sink = "none"
              /\ sunk' = sunk
            BY <2>1, <1>2 DEF StoreOwn
        <3> QED
            BY <3>1, <1>4, <1>5, <1>7, <1>9 DEF ObjectOf
    <2>2. CASE store_export_sink(w)
        <3>1. PICK sink : sink = artifact[a].sink
            OBVIOUS
        <3>2. sink \in Sinks /\ sink # "none"
            BY <2>2, <1>2, <1>4, <3>1 DEF store_export_sink, ArtifactRow
        <3>3. sunk' = [sunk EXCEPT ![sink] = run[w].content] /\ stored' = stored
            BY <2>2, <1>2, <3>1 DEF store_export_sink
        <3>4. ObjectOf(a)' = run[w].content
            BY <1>5, <1>9, <3>1, <3>2, <3>3 DEF ObjectOf
        <3>5. ASSUME NEW b \in Artifacts \ {a}, ~SharesSink(b) PROVE ObjectOf(b)' = ObjectOf(b)
            <4>1. artifact[b].sink = "none" \/ artifact[b].sink \in Sinks
                BY <1>5 DEF ArtifactRow
            <4>2. artifact[b].sink # sink
                BY <1>4, <3>1, <3>2, <3>5 DEF SharesSink
            <4> QED
                BY <1>5, <1>9, <3>3, <4>1, <4>2 DEF ObjectOf
        <3> QED
            BY <1>5, <1>7, <3>2, <3>3, <3>4, <3>5
    <2> QED
        BY <2>1, <2>2
<1>11. RunsInv'
    <2>1. artifact' = [artifact EXCEPT ![a] = artifact[a]]
        BY <1>5, <1>9
    <2>2. artifact[a].status # "completed" \/ a \in past.doubled
        BY <1>1, <1>2, <1>3 DEF RunsInv, RunsAlone
    <2>3. serial' \in Nat
        BY <1>1, <1>9 DEF RunsInv, ArtifactRowTypes
    <2>4. stored' \in [Artifacts -> Content] /\ sunk' \in [Sinks -> Content]
        BY <1>10
    <2>5. run' = [run EXCEPT ![w] = next]
        BY <1>8
    <2> QED
        BY <1>1, <1>2, <1>3, <1>4, <1>7, <1>9, <2>1, <2>2, <2>3, <2>4, <2>5, RunGoesOn
<1>12. \A b \in Artifacts : SharesSink(b)' = SharesSink(b)
    BY <1>9 DEF SharesSink
<1>13. StoredIsKept'
    <2> SUFFICES ASSUME NEW v \in Workers, run'[v].place = "commit",
                        NEW b, b = run'[v].job
                 PROVE  ObjectOf(b)' = run'[v].content \/ b \in past.doubled \/ SharesSink(b)
        BY <1>9 DEF StoredIsKept, ObjectOf, SharesSink
    <2>1. CASE v = w
        BY <2>1, <1>7, <1>8, <1>10
    <2>2. CASE v # w
        <3>1. run'[v] = run[v] /\ run[v].place = "commit" /\ b = run[v].job
            BY <2>2, <1>8
        <3>2. b \in Artifacts
            BY <3>1, <1>1, RunningJob
        <3>3. CASE b = a
            BY <3>1, <3>3, <2>2, <1>1, <1>2, <1>3, OneRun
        <3>4. CASE b # a
            <4>1. ObjectOf(b) = run[v].content \/ b \in past.doubled \/ SharesSink(b)
                BY <3>1, <1>1 DEF ContentsInv, StoredIsKept
            <4> QED
                BY <3>1, <3>2, <3>4, <4>1, <1>10
        <3> QED
            BY <3>3, <3>4
    <2> QED
        BY <2>1, <2>2
<1>14. CompletedIsStored'
    <2> SUFFICES ASSUME NEW b \in Artifacts, artifact[b].status = "completed"
                 PROVE  \/ ObjectOf(b)' = artifact[b].sha256
                        \/ b \in past.doubled \/ SharesSink(b)
        BY <1>9 DEF CompletedIsStored, SharesSink
    <2>1. CASE b = a
        BY <2>1, <1>1, <1>2, <1>3 DEF RunsInv, RunsAlone
    <2>2. CASE b # a
        <3>1. ObjectOf(b) = artifact[b].sha256 \/ b \in past.doubled \/ SharesSink(b)
            BY <1>1 DEF ContentsInv, CompletedIsStored, SharesSink
        <3> QED
            BY <2>2, <3>1, <1>10
    <2> QED
        BY <2>1, <2>2
<1>15. PackagesGather'
    <2> SUFFICES ASSUME NEW v \in Workers, run'[v].place # "idle", NEW b, b = run'[v].job,
                        artifact'[b].kind = "package"
                 PROVE  /\ Gathered(run'[v], artifact'[b].window)
                        /\ run'[v].place \in {"store", "commit"} => run'[v].taken = NumCategories
        BY DEF PackagesGather, Gathered, Left, WithinLimit, RowsBefore
    <2>1. CASE v = w
        <3>1. b = a /\ run'[v] = next /\ artifact[a].kind = "package"
            BY <2>1, <1>7, <1>8, <1>9
        <3>2. Gathered(run[w], artifact[a].window) /\ run[w].taken = NumCategories
            BY <3>1, <1>1, <1>2, <1>3 DEF ContentsInv, PackagesGather
        <3>3. Gathered(next, artifact[a].window)
            BY <3>2, <1>7 DEF Gathered
        <3> QED
            BY <3>1, <3>2, <3>3, <1>7, <1>9
    <2>2. CASE v # w
        BY <2>2, <1>1, <1>8, <1>9 DEF ContentsInv, PackagesGather
    <2> QED
        BY <2>1, <2>2
<1>16. PackageIsItsWindow'
    <2> SUFFICES ASSUME NEW b \in Artifacts, artifact'[b].kind = "package",
                        artifact'[b].status = "completed"
                 PROVE  PackageFits(artifact'[b])
        BY DEF PackageIsItsWindow, PackageFits, FitsWindow, NothingMissed, WithinLimit, RowsBefore
    <2> QED
        BY <1>1, <1>9
           DEF ContentsInv, PackageIsItsWindow, PackageFits, FitsWindow, NothingMissed
<1>17. WindowsGrow'
    BY <1>1, <1>9, WindowsStay
<1> QED
    BY <1>11, <1>13, <1>14, <1>15, <1>16, <1>17 DEF ArtifactsKept, ContentsInv

\* The row is completed with the digest of what was stored.

LEMMA CommitStep ==
    ASSUME ArtifactsKept, NEW w \in Workers, CommitArtifact(w)
    PROVE  ArtifactsKept'
<1>1. RunsInv /\ ContentsInv /\ WindowsGrow
    BY DEF ArtifactsKept
<1>2. PICK a : a = run[w].job
    OBVIOUS
<1>3. run[w].place = "commit"
    BY DEF CommitArtifact
<1>4. /\ run[w] \in RunRow /\ a \in Artifacts /\ artifact[a] \in ArtifactRow
      /\ artifact[a].status # "absent"
    BY <1>1, <1>2, <1>3, RunningJob
<1>5. /\ run \in [Workers -> RunRow] /\ artifact \in [Artifacts -> ArtifactRow]
      /\ stored \in [Artifacts -> Content] /\ sunk \in [Sinks -> Content] /\ serial \in Nat
    BY <1>1 DEF RunsInv, ArtifactRowTypes
<1>6. PICK next, state :
            /\ next = [run[w] EXCEPT !.place = "return"]
            /\ state = [artifact[a] EXCEPT !.status = "completed", !.sha256 = run[w].content,
                                           !.truncated = run[w].truncated,
                                           !.seen = run[w].seen]
    OBVIOUS
<1>7. /\ next \in RunRow /\ next.job = a /\ next.place = "return"
      /\ next.content = run[w].content /\ next.truncated = run[w].truncated
      /\ next.taken = run[w].taken /\ next.remaining = run[w].remaining
      /\ next.seen = run[w].seen
    BY <1>2, <1>4, <1>6 DEF RunRow
<1>8. /\ run[w].content \in Content /\ run[w].truncated \in BOOLEAN
      /\ run[w].seen \in [Categories -> Nat]
    BY <1>4 DEF RunRow
<1>9. /\ state \in ArtifactRow /\ state.status = "completed" /\ state.kind = artifact[a].kind
      /\ state.sink = artifact[a].sink /\ state.window = artifact[a].window
      /\ state.sha256 = run[w].content /\ state.truncated = run[w].truncated
      /\ state.seen = run[w].seen
    <2>1. PICK content, truncated, seen :
                content = run[w].content /\ truncated = run[w].truncated /\ seen = run[w].seen
        OBVIOUS
    <2>2. PICK row : row = artifact[a]
        OBVIOUS
    <2>3. state = [status |-> "completed", kind |-> row.kind, sink |-> row.sink,
                   signed |-> row.signed, sha256 |-> content, truncated |-> truncated,
                   window |-> row.window, seen |-> seen]
        BY <1>4, <1>6, <2>1, <2>2 DEF ArtifactRow
    <2>4. /\ row.kind \in {"export", "package"} /\ row.sink \in Sinks \cup {"none"}
          /\ row.signed \in BOOLEAN /\ row.window \in [Categories -> Nat]
        BY <1>4, <2>2 DEF ArtifactRow
    <2>5. state \in ArtifactRow
        BY <1>8, <2>1, <2>3, <2>4 DEF ArtifactRow
    <2> QED
        BY <2>1, <2>2, <2>3, <2>5
<1>10. /\ run' = [run EXCEPT ![w] = next] /\ run'[w] = next
       /\ \A v \in Workers \ {w} : run'[v] = run[v]
    BY <1>5, <1>6 DEF CommitArtifact, Goto
<1>11. /\ artifact' = [artifact EXCEPT ![a] = state] /\ artifact'[a] = state
       /\ \A b \in Artifacts \ {a} : artifact'[b] = artifact[b]
    BY <1>2, <1>4, <1>5, <1>6 DEF CommitArtifact
<1>12. UNCHANGED <<queue, creator, stored, sunk, edges, rows, inside, flagged, allowed, serial,
                   load, past>>
    BY DEF CommitArtifact
<1>13. RunsInv'
    <2>1. run' = [run EXCEPT ![w] = next] /\ artifact' = [artifact EXCEPT ![a] = state]
        BY <1>10, <1>11
    <2>2. stored' \in [Artifacts -> Content] /\ sunk' \in [Sinks -> Content] /\ serial' \in Nat
        BY <1>5, <1>12
    <2> QED
        BY <1>1, <1>2, <1>3, <1>7, <1>9, <1>12, <2>1, <2>2, RunGoesOn
<1>14. \A b \in Artifacts : artifact'[b].sink = artifact[b].sink
    BY <1>9, <1>11
<1>15. ASSUME NEW b \in Artifacts
       PROVE  ObjectOf(b)' = ObjectOf(b) /\ SharesSink(b)' = SharesSink(b)
    <2>1. ObjectOf(b)' = ObjectOf(b)
        BY <1>12, <1>14 DEF ObjectOf
    <2>2. SharesSink(b)' = SharesSink(b)
        BY <1>14 DEF SharesSink
    <2> QED
        BY <2>1, <2>2
<1>16. StoredIsKept'
    <2> SUFFICES ASSUME NEW v \in Workers, run'[v].place = "commit", NEW b, b = run'[v].job
                 PROVE  ObjectOf(b)' = run'[v].content \/ b \in past'.doubled \/ SharesSink(b)'
        BY DEF StoredIsKept, ObjectOf, SharesSink
    <2>1. run'[v] = run[v]
        BY <1>7, <1>10
    <2>2. b \in Artifacts
        BY <1>1, <2>1, RunningJob
    <2>3. ObjectOf(b) = run[v].content \/ b \in past.doubled \/ SharesSink(b)
        BY <1>1, <2>1 DEF ContentsInv, StoredIsKept
    <2> QED
        BY <2>1, <2>2, <2>3, <1>12, <1>15
<1>17. CompletedIsStored'
    <2> SUFFICES ASSUME NEW b \in Artifacts, artifact'[b].status = "completed"
                 PROVE  ObjectOf(b)' = artifact'[b].sha256 \/ b \in past'.doubled \/ SharesSink(b)'
        BY DEF CompletedIsStored, SharesSink
    <2>1. CASE b = a
        <3>1. ObjectOf(a) = run[w].content \/ a \in past.doubled \/ SharesSink(a)
            BY <1>1, <1>2, <1>3 DEF ContentsInv, StoredIsKept
        <3> QED
            BY <2>1, <3>1, <1>4, <1>9, <1>11, <1>12, <1>15
    <2>2. CASE b # a
        <3>1. ObjectOf(b) = artifact[b].sha256 \/ b \in past.doubled \/ SharesSink(b)
            BY <2>2, <1>1, <1>11 DEF ContentsInv, CompletedIsStored, SharesSink
        <3> QED
            BY <2>2, <3>1, <1>11, <1>12, <1>15
    <2> QED
        BY <2>1, <2>2
<1>18. PackagesGather'
    <2> SUFFICES ASSUME NEW v \in Workers, run'[v].place # "idle", NEW b, b = run'[v].job,
                        artifact'[b].kind = "package"
                 PROVE  /\ Gathered(run'[v], artifact'[b].window)
                        /\ run'[v].place \in {"store", "commit"} => run'[v].taken = NumCategories
        BY DEF PackagesGather, Gathered, Left, WithinLimit, RowsBefore
    <2>1. CASE v = w
        <3>1. b = a /\ run'[v] = next /\ artifact[a].kind = "package"
            BY <2>1, <1>7, <1>9, <1>10, <1>11
        <3>2. Gathered(run[w], artifact[a].window) /\ run[w].taken = NumCategories
            BY <3>1, <1>1, <1>2, <1>3 DEF ContentsInv, PackagesGather
        <3>3. Gathered(next, artifact[a].window)
            BY <3>2, <1>7 DEF Gathered
        <3> QED
            BY <3>1, <3>2, <3>3, <1>7, <1>9, <1>11
    <2>2. CASE v # w
        <3>1. run'[v] = run[v] /\ b \in Artifacts
            BY <2>2, <1>1, <1>10, RunningJob
        <3>2. artifact'[b].kind = artifact[b].kind /\ artifact'[b].window = artifact[b].window
            BY <3>1, <1>9, <1>11
        <3> QED
            BY <3>1, <3>2, <1>1 DEF ContentsInv, PackagesGather
    <2> QED
        BY <2>1, <2>2
<1>19. PackageIsItsWindow'
    <2> SUFFICES ASSUME NEW b \in Artifacts, artifact'[b].kind = "package",
                        artifact'[b].status = "completed"
                 PROVE  PackageFits(artifact'[b])
        BY DEF PackageIsItsWindow, PackageFits, FitsWindow, NothingMissed, WithinLimit, RowsBefore
    <2>1. CASE b = a
        <3>1. artifact[a].kind = "package"
            BY <2>1, <1>9, <1>11
        <3>2. Gathered(run[w], artifact[a].window) /\ run[w].taken = NumCategories
            BY <3>1, <1>1, <1>2, <1>3 DEF ContentsInv, PackagesGather
        <3>3. /\ FitsWindow(run[w].content.sections, run[w].truncated, run[w].seen)
              /\ NothingMissed(run[w].seen, artifact[a].window)
            BY <3>2, <1>4, GatheringEnds
        <3> QED
            BY <2>1, <3>3, <1>9, <1>11 DEF PackageFits
    <2>2. CASE b # a
        BY <2>2, <1>1, <1>11
           DEF ContentsInv, PackageIsItsWindow, PackageFits, FitsWindow, NothingMissed
    <2> QED
        BY <2>1, <2>2
<1>20. WindowsGrow'
    <2>1. \A b \in Artifacts : artifact'[b].window = artifact[b].window
        BY <1>9, <1>11
    <2> QED
        BY <1>1, <1>12, <2>1, WindowsStay
<1> QED
    BY <1>13, <1>16, <1>17, <1>18, <1>19, <1>20 DEF ArtifactsKept, ContentsInv

\* A run ends: it returns, raises, is refused by the sink, or its worker dies.
LEMMA EndStep ==
    ASSUME ArtifactsKept, NEW w \in Workers,
           \/ ArtifactReturns(w) \/ ArtifactCancelled(w) \/ ArtifactRaises(w)
           \/ SinkRefused(w) \/ ArtifactWorkerDies(w)
    PROVE  ArtifactsKept'
<1>1. RunsInv /\ ContentsInv /\ WindowsGrow
    BY DEF ArtifactsKept
<1>2. PICK a : a = run[w].job
    OBVIOUS
<1>3. run[w].place # "idle"
    BY DEF ArtifactReturns, ArtifactCancelled, ArtifactRaises, SinkRefused, ArtifactWorkerDies
<1>4. /\ a \in Artifacts /\ a \in Jobs /\ artifact[a] \in ArtifactRow
      /\ artifact[a].status # "absent" /\ queue[a] \in JobRow
    BY <1>1, <1>2, <1>3, RunningJob DEF Artifacts
<1>5. /\ run \in [Workers -> RunRow] /\ artifact \in [Artifacts -> ArtifactRow]
      /\ queue \in [Jobs -> JobRow] /\ load \in 0..MaxLoad
      /\ past \in PastRow
    BY <1>1 DEF RunsInv, ArtifactRowTypes, QueueTypeOK, JobRow
<1>6. /\ run' = [run EXCEPT ![w] = NoRun]
      /\ UNCHANGED <<creator, stored, sunk, edges, rows, inside, flagged, allowed, serial>>
    BY DEF ArtifactReturns, ArtifactCancelled, ArtifactRaises, SinkRefused, ArtifactWorkerDies, Raise
<1>7. past' = past /\ past' \in PastRow
    BY <1>5 DEF ArtifactReturns, ArtifactCancelled, ArtifactRaises, SinkRefused,
                ArtifactWorkerDies, Raise
<1>8. load' \in 0..MaxLoad
    BY <1>5, ArtifactsAssumption
       DEF ArtifactReturns, ArtifactCancelled, ArtifactRaises, SinkRefused, ArtifactWorkerDies, Loaded
<1>9. PICK row \in JobRow :
            /\ queue' = [queue EXCEPT ![a] = row]
            /\ \/ row = queue[a]
               \/ row.status # "absent" /\ (row.status = "pending" => row.attempts < MaxAttempts)
    <2>4. ASSUME NEW status \in {"completed", "cancelled"},
                 queue' = [queue EXCEPT ![a].status = status]
          PROVE  \E row \in JobRow : row.status # "absent" /\ row.status # "pending"
                                     /\ queue' = [queue EXCEPT ![a] = row]
        <3>1. PICK row : row = [queue[a] EXCEPT !.status = status]
            OBVIOUS
        <3>2. row \in JobRow /\ row.status = status
            BY <3>1, <1>4 DEF JobRow, JobStatuses
        <3> QED
            BY <2>4, <3>1, <3>2
    <2>1. CASE ArtifactReturns(w) \/ ArtifactCancelled(w)
        <3>1. PICK status \in {"completed", "cancelled"} :
                    queue' = [queue EXCEPT ![a].status = status]
            BY <2>1, <1>2 DEF ArtifactReturns, ArtifactCancelled, EndOf
        <3> QED
            BY <2>4, <3>1
    <2>2. CASE ArtifactRaises(w) \/ SinkRefused(w)
        <3>1. CASE queue' = [queue EXCEPT ![a] = AfterFailure(@)]
            <4>1. PICK row : row = AfterFailure(queue[a])
                OBVIOUS
            <4>2. /\ row \in JobRow /\ row.status # "absent"
                  /\ row.status = "pending" => row.attempts < MaxAttempts
                BY <4>1, <1>4, FailedRow
            <4>3. queue' = [queue EXCEPT ![a] = row]
                BY <3>1, <4>1
            <4> QED
                BY <4>2, <4>3
        <3>2. CASE queue' = [queue EXCEPT ![a].status = "cancelled"]
            BY <2>4, <3>2
        <3> QED
            BY <2>2, <3>1, <3>2, <1>2 DEF ArtifactRaises, SinkRefused, Raise
    <2>3. CASE ArtifactWorkerDies(w)
        <3>1. queue' = [queue EXCEPT ![a] = queue[a]]
            BY <2>3, <1>4, <1>5 DEF ArtifactWorkerDies
        <3> QED
            BY <3>1, <1>4
    <2> QED
        BY <2>1, <2>2, <2>3
<1>10. PICK state \in ArtifactRow :
            /\ artifact' = [artifact EXCEPT ![a] = state]
            /\ state = artifact[a] \/ state.status = "failed"
            /\ state.kind = artifact[a].kind /\ state.sink = artifact[a].sink
            /\ state.window = artifact[a].window
    <2>1. CASE artifact' = artifact
        <3>1. artifact' = [artifact EXCEPT ![a] = artifact[a]]
            BY <2>1, <1>4, <1>5
        <3> QED
            BY <3>1, <1>4
    <2>2. CASE artifact' = [artifact EXCEPT ![a].status = "failed"]
        <3>1. PICK state : state = [artifact[a] EXCEPT !.status = "failed"]
            OBVIOUS
        <3>2. /\ state \in ArtifactRow /\ state.status = "failed" /\ state.kind = artifact[a].kind
              /\ state.sink = artifact[a].sink /\ state.window = artifact[a].window
            BY <3>1, <1>4 DEF ArtifactRow
        <3> QED
            BY <2>2, <3>1, <3>2
    <2> QED
        BY <2>1, <2>2, <1>2
           DEF ArtifactReturns, ArtifactCancelled, ArtifactRaises, SinkRefused, ArtifactWorkerDies, Raise, MarkError
<1>11. RunsInv'
    BY <1>1, <1>2, <1>3, <1>4, <1>6, <1>7, <1>8, <1>9, <1>10, RunEnds
<1>12. ContentsInv'
    <2>1. /\ artifact' \in [Artifacts -> ArtifactRow]
          /\ \A b \in Artifacts : artifact'[b].status = "completed" => artifact'[b] = artifact[b]
          /\ \A b \in Artifacts :
                /\ artifact'[b].kind = artifact[b].kind /\ artifact'[b].sink = artifact[b].sink
                /\ artifact'[b].window = artifact[b].window
        BY <1>4, <1>5, <1>10
    <2>2. \A v \in Workers : run'[v] = run[v] \/ run'[v].place = "idle"
        BY <1>5, <1>6 DEF NoRun
    <2> QED
        BY <1>1, <1>6, <1>7, <2>1, <2>2, ContentsStay
<1>13. WindowsGrow'
    <2>1. \A b \in Artifacts : artifact'[b].window = artifact[b].window
        BY <1>4, <1>5, <1>10
    <2> QED
        BY <1>1, <1>6, <2>1, WindowsStay
<1> QED
    BY <1>11, <1>12, <1>13 DEF ArtifactsKept

\* A package goes to an auditor once everything is at rest, and may be altered.
LEMMA DownloadStep ==
    ASSUME ArtifactsInv, NEW a \in Artifacts, DownloadPackage(a)
    PROVE  ArtifactsInv'
<1>1. RunsInv /\ ArtifactsKept
    BY DEF ArtifactsInv, ArtifactsKept
<1>2. UNCHANGED <<queue, artifact, creator, stored, sunk, run, edges, rows, inside,
                  flagged, allowed, serial, load, past>>
    BY DEF DownloadPackage
<1>3. ArtifactsKept'
    BY <1>1, <1>2, ArtifactsKeptAside DEF ArtifactsKept, RunsInv, ArtifactRowTypes, WindowsGrow
<1>4. QuietOutside'
    BY <1>2 DEF DownloadPackage, Quiet, QuietOutside
<1>5. TrustedIsGenuine'
    <2>1. PICK signed \in BOOLEAN :
                \E other : file' \in Altered(Document(Payload(stored[a]), signed), other)
        <3>1. artifact[a].signed \in BOOLEAN
            BY <1>1 DEF RunsInv, ArtifactRowTypes, ArtifactRow
        <3> QED
            BY <3>1 DEF DownloadPackage, Downloaded
    <2>2. verify_evidence_package(file').trusted => file'.payload = Payload(stored[a])
        BY <2>1, TrustedUnaltered
    <2>3. stored' = stored
        BY <1>2
    <2> QED
        BY <2>2, <2>3 DEF TrustedIsGenuine, Payload, verify_evidence_package, DigestErrors,
                          _verify_signature, InvalidSignature, _profile_trusts_assurance,
                          Signature
<1> QED
    BY <1>3, <1>4, <1>5 DEF ArtifactsInv, ArtifactsKept

\* Every other step leaves no package outside.
LEMMA WorkerInside ==
    ASSUME ArtifactsInv, NEW w \in Workers, WorkerStep(w)
    PROVE  file = NoFile /\ file' = file /\ ArtifactsKept'
<1>1. ArtifactsKept
    BY DEF ArtifactsInv, ArtifactsKept
<1>2. ASSUME NEW a \in Artifacts, LoadArtifact(w, a)
      PROVE  file = NoFile /\ file' = file /\ ArtifactsKept'
    <2>1. queue[a].status = "pending" /\ file' = file
        BY <1>2 DEF LoadArtifact, Claim
    <2> QED
        BY <2>1, <1>1, <1>2, LoadStep DEF ArtifactsInv, QuietOutside
<1>3. ASSUME \/ MarkRunning(w) \/ GenerateExport(w) \/ TakeCategory(w) \/ GeneratePackage(w)
             \/ StoreOwn(w) \/ store_export_sink(w) \/ SinkRefused(w)
             \/ CommitArtifact(w) \/ ArtifactReturns(w) \/ ArtifactCancelled(w)
      PROVE  file = NoFile /\ file' = file /\ ArtifactsKept'
    <2>1. run[w].place # "idle" /\ file' = file
        BY <1>3 DEF MarkRunning, GenerateExport, TakeCategory, GeneratePackage, StoreOwn,
                    store_export_sink, SinkRefused, CommitArtifact, ArtifactReturns,
                    ArtifactCancelled, Raise
    <2>2. ArtifactsKept'
        BY <1>1, <1>3, MarkStep, GenerateStep, StoreStep, CommitStep, EndStep
    <2> QED
        BY <2>1, <2>2 DEF ArtifactsInv, QuietOutside
<1> QED
    BY <1>2, <1>3 DEF WorkerStep

LEMMA ArrivesInside ==
    ASSUME ArtifactsInv, Arrives
    PROVE  file' = file /\ ArtifactsKept'
<1>1. ArtifactsKept /\ RunsInv
    BY DEF ArtifactsInv, ArtifactsKept
<1>2. /\ edges \subseteq EdgeIds /\ rows \in [Categories -> Nat] /\ allowed \subseteq Sinks
      /\ load \in 0..MaxLoad /\ inside \in [Artifacts -> [Categories -> Nat]]
      /\ artifact \in [Artifacts -> ArtifactRow]
      /\ past \in PastRow
    BY <1>1 DEF RunsInv, ArtifactRowTypes
<1>3. ASSUME NEW a \in Artifacts,
             \/ \E sink \in Sinks \cup {"none"} : create_graph_export(a, sink)
             \/ \E signing_profile \in BOOLEAN : create_evidence_package(a, signing_profile)
      PROVE  file' = file /\ ArtifactsKept'
    <2>1. file' = file
        BY <1>3 DEF create_graph_export, create_evidence_package
    <2> QED
        BY <2>1, <1>1, <1>3, CreateStep
<1>4. ASSUME NEW a \in Artifacts, CreatorDies(a) PROVE file' = file /\ ArtifactsKept'
    <2>1. file' = file /\ load' \in 0..MaxLoad
        BY <1>2, <1>4, ArtifactsAssumption DEF CreatorDies, Loaded
    <2>2. /\ creator' \subseteq creator
          /\ UNCHANGED <<queue, artifact, stored, sunk, run, edges, rows, inside, flagged,
                         allowed, serial, past>>
        BY <1>4 DEF CreatorDies
    <2>3. \A b \in Artifacts : NothingMissed(inside'[b], artifact[b].window)
        BY <1>1, <2>2 DEF ArtifactsKept, WindowsGrow
    <2> QED
        BY <1>1, <1>2, <2>1, <2>2, <2>3, ArtifactsKeptAside
<1>5. ASSUME NEW a \in Artifacts, CancelJob(a) \/ RetryJob(a) PROVE file' = file /\ ArtifactsKept'
    <2>1. file' = file
        BY <1>5 DEF CancelJob, RetryJob
    <2> QED
        BY <2>1, <1>1, <1>5, ArtifactJobStep
<1>6. ASSUME NEW w \in Workers, ArtifactRaises(w) \/ ArtifactWorkerDies(w)
      PROVE  file' = file /\ ArtifactsKept'
    <2>1. file' = file
        BY <1>6 DEF ArtifactRaises, ArtifactWorkerDies, Raise
    <2> QED
        BY <2>1, <1>1, <1>6, EndStep
<1>7. ASSUME (\E e \in EdgeIds : GraphChanges(e)) \/ \E u \in Sinks : Disallow(u)
      PROVE  file' = file /\ ArtifactsKept'
    <2>1. file' = file /\ load' \in 0..MaxLoad
        BY <1>2, <1>7, ArtifactsAssumption DEF GraphChanges, Disallow, Loaded
    <2>2. /\ edges' \subseteq EdgeIds /\ allowed' \subseteq Sinks
          /\ UNCHANGED <<queue, artifact, creator, stored, sunk, run, rows, inside, flagged,
                         serial, past>>
        BY <1>2, <1>7 DEF GraphChanges, Disallow
    <2>3. \A b \in Artifacts : NothingMissed(inside'[b], artifact[b].window)
        BY <1>1, <2>2 DEF ArtifactsKept, WindowsGrow
    <2> QED
        BY <1>1, <1>2, <2>1, <2>2, <2>3, ArtifactsKeptAside
<1>8. ASSUME NEW c \in Categories, AddRow(c) \/ PurgeRow(c)
      PROVE  file' = file /\ ArtifactsKept'
    <2>1. file' = file /\ load' \in 0..MaxLoad
        BY <1>2, <1>8, ArtifactsAssumption DEF AddRow, PurgeRow, Loaded
    <2>2. UNCHANGED <<queue, artifact, creator, stored, sunk, run, edges, flagged, allowed,
                      serial, past>>
        BY <1>8 DEF AddRow, PurgeRow
    <2>3. rows[c] \in Nat
        BY <1>2
    <2>4. rows' \in [Categories -> Nat]
        BY <1>2, <1>8, <2>3 DEF AddRow, PurgeRow
    <2>5. PICK touched \in SUBSET Artifacts :
                \/ inside' = [a \in Artifacts |->
                        IF a \in touched THEN [inside[a] EXCEPT ![c] = @ + 1] ELSE inside[a]]
                \/ /\ c \in Purged /\ \A a \in touched : inside[a][c] > 0
                   /\ inside' = [a \in Artifacts |->
                        IF a \in touched THEN [inside[a] EXCEPT ![c] = @ - 1] ELSE inside[a]]
        <3>1. Packages \subseteq Artifacts
            BY DEF Packages
        <3>2. CASE AddRow(c)
            BY <3>1, <3>2 DEF AddRow
        <3>3. CASE PurgeRow(c)
            <4>1. PICK held \in SUBSET Packages :
                    /\ \A a \in Packages :
                        IF a \in held THEN inside[a][c] > 0 ELSE inside[a][c] < rows[c]
                    /\ inside' = [a \in Artifacts |->
                        IF a \in held THEN [inside[a] EXCEPT ![c] = @ - 1] ELSE inside[a]]
                BY <3>3 DEF PurgeRow
            <4>2. c \in Purged
                BY <3>3 DEF PurgeRow
            <4> QED
                BY <3>1, <4>1, <4>2
        <3> QED
            BY <1>8, <3>2, <3>3
    <2>6. ASSUME NEW a \in Artifacts
          PROVE  inside'[a] \in [Categories -> Nat] /\ NothingMissed(inside'[a], artifact[a].window)
        <3>1. inside[a] \in [Categories -> Nat] /\ artifact[a].window \in [Categories -> Nat]
              /\ inside[a][c] \in Nat
            BY <1>2 DEF ArtifactRow
        <3>2. NothingMissed(inside[a], artifact[a].window)
            BY <1>1 DEF ArtifactsKept, WindowsGrow
        <3>3. \/ inside'[a] = inside[a]
              \/ inside'[a] = [inside[a] EXCEPT ![c] = @ + 1]
              \/ /\ c \in Purged /\ inside[a][c] > 0
                 /\ inside'[a] = [inside[a] EXCEPT ![c] = @ - 1]
            BY <2>5
        <3>4. inside'[a] \in [Categories -> Nat]
            BY <3>1, <3>3
        <3>5. \A d \in Categories \ Purged : inside'[a][d] >= inside[a][d]
            BY <3>1, <3>3
        <3>6. \A d \in Categories \ Purged : inside'[a][d] >= artifact[a].window[d]
            BY <3>1, <3>2, <3>4, <3>5 DEF NothingMissed
        <3> QED
            BY <3>4, <3>6 DEF NothingMissed
    <2>7. inside' \in [Artifacts -> [Categories -> Nat]]
        BY <2>5, <2>6
    <2> QED
        BY <1>1, <1>2, <2>1, <2>2, <2>4, <2>6, <2>7, ArtifactsKeptAside
<1> QED
    BY <1>3, <1>4, <1>5, <1>6, <1>7, <1>8 DEF Arrives

LEMMA ArtifactsStep ==
    ASSUME ArtifactsInv, [ArtifactsNext]_artifactvars
    PROVE  ArtifactsInv'
<1>1. ArtifactsKept
    BY DEF ArtifactsInv, ArtifactsKept
<1>2. ASSUME file = NoFile, file' = file, ArtifactsKept' PROVE ArtifactsInv'
    <2>1. file' = NoFile /\ NoFile' = NoFile
        BY <1>2 DEF NoFile, Document, Payload, NoContent, NoRows, ManifestOf, sign_manifest, Unsigned,
                    Signature
    <2>2. QuietOutside' /\ TrustedIsGenuine'
        BY <2>1 DEF QuietOutside, TrustedIsGenuine
    <2> QED
        BY <1>2, <2>2 DEF ArtifactsInv, ArtifactsKept
<1>3. CASE file = NoFile /\ Arrives
    BY <1>2, <1>3, ArrivesInside
<1>4. ASSUME file = NoFile, NEW a \in Artifacts, EnqueueArtifact(a) \/ RecoverArtifact(a)
      PROVE  ArtifactsInv'
    <2>1. file' = file
        BY <1>4 DEF EnqueueArtifact, RecoverArtifact
    <2>2. ArtifactsKept'
        BY <1>1, <1>4, ArtifactJobStep
    <2> QED
        BY <1>2, <1>4, <2>1, <2>2
<1>5. ASSUME NEW w \in Workers, WorkerStep(w) PROVE ArtifactsInv'
    BY <1>2, <1>5, WorkerInside
<1>6. ASSUME NEW a \in Artifacts, DownloadPackage(a) PROVE ArtifactsInv'
    BY <1>6, DownloadStep
<1>7. CASE UNCHANGED artifactvars
    <2>1. UNCHANGED <<queue, artifact, creator, stored, sunk, run, edges, rows, inside, flagged,
                      allowed, serial, file, load, past>>
        BY <1>7 DEF artifactvars
    <2>2. ArtifactsKept'
        BY <1>1, <2>1, ArtifactsKeptAside DEF ArtifactsKept, RunsInv, ArtifactRowTypes, WindowsGrow
    <2>3. QuietOutside' /\ TrustedIsGenuine'
        BY <2>1 DEF ArtifactsInv, QuietOutside, TrustedIsGenuine, Payload,
                    verify_evidence_package, DigestErrors, _verify_signature,
                    InvalidSignature, _profile_trusts_assurance, Signature
    <2> QED
        BY <2>2, <2>3 DEF ArtifactsInv, ArtifactsKept
<1> QED
    BY <1>3, <1>4, <1>5, <1>6, <1>7 DEF ArtifactsNext

LEMMA ArtifactsStart ==
    ASSUME ArtifactsInit
    PROVE  ArtifactsInv
<1>1. MaxAttempts \in Nat \ {0} /\ MaxLoad \in Nat /\ MaxRecords \in Nat
    BY ArtifactsAssumption
<1>2. NoContent \in Content
    BY NoRunRow
<1>3. /\ NoArtifact \in ArtifactRow /\ NoArtifact.status = "absent" /\ NoArtifact.sink = "none"
      /\ NoRun \in RunRow /\ NoRun.place = "idle" /\ NoRun.job = 0
    BY NoRunRow DEF NoArtifact, ArtifactRow
<1>4. /\ \A a \in Artifacts : artifact[a] = NoArtifact /\ queue[a].status = "absent"
      /\ \A w \in Workers : run[w] = NoRun
    BY DEF ArtifactsInit, QueueInit, AbsentJob, Artifacts
<1>5. ArtifactRowTypes
    <2>1. QueueTypeOK
        BY <1>1 DEF ArtifactsInit, QueueInit, QueueTypeOK, AbsentJob, JobStatuses
    <2>2. /\ artifact \in [Artifacts -> ArtifactRow] /\ stored \in [Artifacts -> Content]
          /\ sunk \in [Sinks -> Content] /\ run \in [Workers -> RunRow]
        BY <1>2, <1>3 DEF ArtifactsInit
    <2>3. /\ creator \subseteq Artifacts /\ edges \subseteq EdgeIds /\ allowed \subseteq Sinks
          /\ rows \in [Categories -> Nat] /\ serial \in Nat /\ load \in 0..MaxLoad
          /\ inside \in [Artifacts -> [Categories -> Nat]] /\ flagged \subseteq Artifacts
        BY <1>1, NoRunRow DEF ArtifactsInit
    <2>4. past \in PastRow
        BY DEF ArtifactsInit, PastRow
    <2> QED
        BY <2>1, <2>2, <2>3, <2>4 DEF ArtifactRowTypes
<1>6. AttemptsLeft /\ RunsHaveRows /\ RunsAlone
    BY <1>3, <1>4 DEF AttemptsLeft, RunsHaveRows, RunsAlone, ArtifactsInit
<1>7. ContentsInv
    BY <1>3, <1>4
       DEF ContentsInv, StoredIsKept, CompletedIsStored, PackagesGather, PackageIsItsWindow
<1>9. WindowsGrow
    BY <1>4 DEF ArtifactsInit, WindowsGrow, NothingMissed, NoArtifact, NoRows
<1>8. QuietOutside /\ TrustedIsGenuine
    BY DEF ArtifactsInit, QuietOutside, TrustedIsGenuine
<1> QED
    BY <1>5, <1>6, <1>7, <1>8, <1>9 DEF ArtifactsInv, RunsInv

-----------------------------------------------------------------------------
\* Jobs run an artifact alone unless they are recovered under it, its handler
\* stores what it will commit, and the categories of a package that it has taken are
\* as they should be.
THEOREM ArtifactsInvariant == ArtifactsSpec => []ArtifactsInv
<1>1. ArtifactsInit => ArtifactsInv
    BY ArtifactsStart
<1>2. ArtifactsInv /\ [ArtifactsNext]_artifactvars => ArtifactsInv'
    BY ArtifactsStep
<1> QED
    BY <1>1, <1>2, PTL DEF ArtifactsSpec

\* The rows of artifacts and the places of their handlers.
THEOREM ArtifactsTyped == ArtifactsSpec => []ArtifactTypes
<1>1. ArtifactsInv => ArtifactTypes
    BY DEF ArtifactsInv, RunsInv, ArtifactRowTypes, ArtifactTypes, ArtifactRow, RunRow
<1> QED
    BY <1>1, ArtifactsInvariant, PTL

\* execute_graph_export and execute_evidence_package: the object of a completed
\* artifact is the one its row has the digest of, unless two runs of its job
\* overlapped or another export has its sink; and a package has the rows that were
\* in its window as each category was read, as far as the limit goes, among them
\* every row that was there at the request and was not purged.
THEOREM ContentsKept == ArtifactsSpec => []ContentsHold
<1>1. ArtifactsInv => ContentsHold
    BY DEF ArtifactsInv, ContentsInv, ContentsHold
<1> QED
    BY <1>1, ArtifactsInvariant, PTL

\* verify_evidence_package: a package that verifies as trusted has the payload that
\* was signed, whatever was altered on its way and whoever else signed it.
THEOREM TrustedPackages == ArtifactsSpec => []TrustedIsGenuine
<1>1. ArtifactsInv => TrustedIsGenuine
    BY DEF ArtifactsInv
<1> QED
    BY <1>1, ArtifactsInvariant, PTL
=============================================================================
