--------------------------- MODULE RuntimeReceipts ---------------------------
(***************************************************************************)
(* Runtime decisions and their receipts                                    *)
(* (app/services/runtime_authorization.py, the endpoints of app/v18.py),   *)
(* enforcement evidence (app/services/enforcement.py) and the enforcement  *)
(* points of the Python SDK that ask for the one and report the other.     *)
(*                                                                         *)
(* What the policy says is a free choice here: a decision and a set of     *)
(* obligations.  A receipt's row is a record; a receipt of an uncommitted  *)
(* transaction has the status draft, which nobody else sees.               *)
(* Receipts and events are committed together with their outbox event,     *)
(* whose dispatch is the subject of GovernanceOutbox.                      *)
(***************************************************************************)
EXTENDS Integers, Sequences, FiniteSets

CONSTANTS
    Clients,        \* callers of the API
    SDK,            \* the clients that are OpenDataGraphPEP instances
    Workers,        \* worker processes
    Receipts,       \* receipt_id values
    Keys,           \* idempotency keys
    Requests,       \* digests of evaluation requests
    Obligations,    \* obligation ids
    Events,         \* event_id values
    MaxAttempts,    \* runtime_receipt_signing_max_attempts
    Verdicts,       \* what the policy may say: records of permit and duties
    Asks,           \* bound: the evaluations clients ask for, records of key and request
    Signing,        \* the receipts issued while a signing profile is configured
    Batches,        \* bound: the clients that use access_evaluations
    MaxBatch,       \* bound: evaluations of one of their requests
    MaxCrashes,     \* bound: workers that die
    MaxActors       \* bound: clients and workers that take part in a behaviour

ASSUME ReceiptsAssumption ==
    /\ SDK \subseteq Clients /\ Requests # {}
    /\ MaxAttempts \in Nat \ {0} /\ MaxBatch \in Nat \ {0} /\ MaxCrashes \in Nat /\ MaxActors \in Nat
    /\ Signing \subseteq Receipts
    /\ Verdicts \subseteq [permit : BOOLEAN, duties : SUBSET Obligations]

NoKey == "no key"
Item == [key : Keys \cup {NoKey}, request : Requests]
ASSUME KeysAssumption == NoKey \notin Keys /\ Asks \subseteq Item

VARIABLES
    receipts,   \* runtime_decision_receipts
    events,     \* enforcement_events: at most one row per event_id
    client,     \* each client's progress
    worker,     \* each worker's pass
    hist        \* history, see History

vars == <<receipts, events, client, worker, hist>>

Status == {"absent", "draft", "unsigned", "pending", "signing", "signed", "failed",
           "purged"}
Receipt == [status : Status, key : Keys \cup {NoKey}, request : Requests,
            permit : BOOLEAN, duties : SUBSET Obligations, attempts : Nat,
            ready : BOOLEAN, claim : {"none", "live", "stale"}, expired : BOOLEAN]
NoReceipt == [status |-> "absent", key |-> NoKey, request |-> CHOOSE q \in Requests : TRUE,
              permit |-> FALSE, duties |-> {}, attempts |-> 0, ready |-> TRUE,
              claim |-> "none", expired |-> FALSE]

\* The rows a query can return.
Stored == {r \in Receipts : receipts[r].status \notin {"absent", "draft", "purged"}}

Outcomes == {"applied", "rejected", "failed"}
Event == [receipt : Receipts, pep : Clients, outcome : Outcomes, satisfied : SUBSET Obligations]

(***************************************************************************)
(* A client: the evaluations it asks for (todo are left), the receipts     *)
(* its transaction added, the ones it was answered with, the obligations   *)
(* it has satisfied, whether the protected operation ran, and its report.  *)
(***************************************************************************)
Client == [at : {"idle", "evaluating", "answered", "operate", "report", "record", "done"},
           asked : Seq(Item), todo : Seq(Item), drafts : SUBSET Receipts,
           answer : SUBSET Receipts, satisfied : SUBSET Obligations, ran : BOOLEAN,
           outcome : Outcomes, event : SUBSET Events]
IdleClient == [at |-> "idle", asked |-> <<>>, todo |-> <<>>, drafts |-> {}, answer |-> {},
               satisfied |-> {}, ran |-> FALSE, outcome |-> "rejected", event |-> {}]

\* A worker: selected receipts, the one it signs and its copy of signing_attempts.
Worker == [at : {"idle", "down", "claiming", "claimed", "signing", "purging"},
           todo : SUBSET Receipts, held : SUBSET Receipts, copy : Nat]
IdleWorker == [at |-> "idle", todo |-> {}, held |-> {}, copy |-> 0]

\* Crashes so far, and whether every signer was done before its claim aged.
History == [crashes : Nat, timely : BOOLEAN]

\* At the start there may be a receipt whose signature is outstanding.
Init ==
    /\ \E backlog \in SUBSET Signing, ask \in Asks, verdict \in Verdicts :
        /\ \A r, s \in backlog : r = s
        /\ receipts = [r \in Receipts |->
                IF r \in backlog
                THEN [NoReceipt EXCEPT !.status = "pending", !.key = ask.key,
                        !.request = ask.request, !.permit = verdict.permit,
                        !.duties = verdict.duties]
                ELSE NoReceipt]
    /\ events = [e \in Events |-> {}]
    /\ \E C \in SUBSET Clients, W \in SUBSET Workers :
        /\ Cardinality(C) + Cardinality(W) = MaxActors
        /\ client = [c \in Clients |-> [IdleClient EXCEPT !.at = IF c \in C THEN "idle" ELSE "done"]]
        /\ worker = [w \in Workers |-> [IdleWorker EXCEPT !.at = IF w \in W THEN "idle" ELSE "down"]]
    /\ hist = [crashes |-> 0, timely |-> TRUE]

-----------------------------------------------------------------------------
(***************************************************************************)
(* access_evaluation and access_evaluations.                               *)
(***************************************************************************)
\* _indexed_header gives the evaluations of a batch different keys.
BeginEvaluations(c, items) ==
    /\ client[c].at = "idle"
    /\ \A i, j \in DOMAIN items : i # j => items[i].key = NoKey \/ items[i].key # items[j].key
    /\ client' = [client EXCEPT ![c] = [@ EXCEPT !.at = "evaluating", !.asked = items,
                                                 !.todo = items]]
    /\ UNCHANGED <<receipts, events, worker, hist>>

Existing(k) == {r \in Stored : k # NoKey /\ receipts[r].key = k}

IdempotencyConflict(item) ==
    \E r \in Existing(item.key) : receipts[r].request # item.request

\* db.rollback and an error answer.
Rejected(c) ==
    /\ receipts' = [r \in Receipts |-> IF r \in client[c].drafts THEN NoReceipt ELSE receipts[r]]
    /\ client' = [client EXCEPT ![c] = [IdleClient EXCEPT !.at = "done"]]
    /\ UNCHANGED <<events, worker, hist>>

\* A receipt_id is a fresh uuid4; which one does not matter.
Unused == {r \in Receipts : receipts[r].status = "absent"}

\* One evaluate_access.  Once an item is answered the batch may stop there
\* (deny_on_first_deny, permit_on_first_permit).
evaluate_access(c) ==
    LET item == Head(client[c].todo)
        existing == Existing(item.key)
        Answered(r) == \E rest \in {Tail(client[c].todo), <<>>} :
            client' = [client EXCEPT ![c] = [client[c] EXCEPT !.todo = rest,
                            !.answer = @ \cup {r},
                            !.drafts = @ \cup (IF r \in existing THEN {} ELSE {r})]]
    IN  /\ client[c].at = "evaluating" /\ client[c].todo # <<>>
        /\ \/ IdempotencyConflict(item) /\ Rejected(c)
           \/ /\ ~IdempotencyConflict(item)
              /\ \E r \in existing : Answered(r)
              /\ UNCHANGED <<receipts, events, worker, hist>>
           \/ /\ existing = {}
              /\ Unused # {}
              /\ \E r \in {CHOOSE u \in Unused : TRUE}, verdict \in Verdicts :
                    /\ receipts' = [receipts EXCEPT ![r] =
                            [NoReceipt EXCEPT !.status = "draft", !.key = item.key,
                                !.request = item.request, !.permit = verdict.permit,
                                !.duties = verdict.duties]]
                    /\ Answered(r)
              /\ UNCHANGED <<events, worker, hist>>

\* Mutant: nothing makes the idempotency key unique.
DuplicateAllowed(c) == FALSE

\* uq_runtime_decision_receipt_tenant_idempotency.
DuplicateKey(c) == \E r \in client[c].drafts : Existing(receipts[r].key) # {}

Issued(r) == IF r \in Signing THEN "pending" ELSE "unsigned"

\* The commit of all receipts of the request, then the answer.
CommitEvaluations(c) ==
    /\ client[c].at = "evaluating" /\ client[c].todo = <<>>
    /\ \/ DuplicateKey(c) /\ Rejected(c)
       \/ /\ ~DuplicateKey(c)
          /\ receipts' = [r \in Receipts |->
                IF r \in client[c].drafts
                THEN [receipts[r] EXCEPT !.status = Issued(r)]
                ELSE receipts[r]]
          /\ client' = [client EXCEPT ![c] = [@ EXCEPT !.at = "answered", !.drafts = {}]]
          /\ UNCHANGED <<events, worker, hist>>

-----------------------------------------------------------------------------
(***************************************************************************)
(* OpenDataGraphPEP.enforce, for the client's single receipt r.            *)
(***************************************************************************)
Receipt1(c) == CHOOSE r \in client[c].answer : TRUE

Single(c) == client[c].at = "answered" /\ Len(client[c].asked) = 1

Reporting(c, outcome, satisfied) ==
    [client[c] EXCEPT !.at = "report", !.outcome = outcome, !.satisfied = satisfied]

MayHandle(c) == receipts[Receipt1(c)].permit

\* A denial is reported; otherwise the handlers run, and each may be missing
\* or raise, which is reported with what was satisfied before it.
HandleObligations(c) ==
    /\ c \in SDK /\ Single(c)
    /\ \/ /\ ~MayHandle(c)
          /\ client' = [client EXCEPT ![c] = Reporting(c, "rejected", {})]
       \/ /\ MayHandle(c)
          /\ \E satisfied \in SUBSET receipts[Receipt1(c)].duties :
                client' = [client EXCEPT ![c] =
                    IF satisfied = receipts[Receipt1(c)].duties
                    THEN [client[c] EXCEPT !.at = "operate", !.satisfied = satisfied]
                    ELSE Reporting(c, "failed", satisfied)]
    /\ UNCHANGED <<receipts, events, worker, hist>>

\* The protected operation returns or raises.
Operate(c) ==
    /\ client[c].at = "operate"
    /\ \/ client' = [client EXCEPT ![c] =
                        [Reporting(c, "applied", client[c].satisfied) EXCEPT !.ran = TRUE]]
       \/ client' = [client EXCEPT ![c] = Reporting(c, "failed", client[c].satisfied)]
    /\ UNCHANGED <<receipts, events, worker, hist>>

\* Any other client reports what it likes.
ReportAnything(c, outcome, satisfied) ==
    /\ c \notin SDK /\ Single(c)
    /\ client' = [client EXCEPT ![c] = Reporting(c, outcome, satisfied)]
    /\ UNCHANGED <<receipts, events, worker, hist>>

-----------------------------------------------------------------------------
(***************************************************************************)
(* record_enforcement_event: the lookups and checks, then the insert.      *)
(***************************************************************************)
Report(c) == [receipt |-> Receipt1(c), pep |-> c, outcome |-> client[c].outcome,
              satisfied |-> client[c].satisfied]

\* Mutant: the obligations are not compared with the receipt's.
AcceptableIncomplete(c) ==
    /\ Receipt1(c) \in Stored
    /\ client[c].satisfied \subseteq receipts[Receipt1(c)].duties
    /\ client[c].outcome = "applied" => receipts[Receipt1(c)].permit

Acceptable(c) ==
    /\ Receipt1(c) \in Stored
    /\ client[c].satisfied \subseteq receipts[Receipt1(c)].duties
    /\ client[c].outcome = "applied" =>
            /\ receipts[Receipt1(c)].permit
            /\ client[c].satisfied = receipts[Receipt1(c)].duties

\* Errors and repetitions of the same evidence only answer.
LookupEvent(c, e) ==
    /\ client[c].at = "report"
    /\ client' = [client EXCEPT ![c] =
            IF Acceptable(c) /\ events[e] = {}
            THEN [@ EXCEPT !.at = "record", !.event = {e}]
            ELSE [@ EXCEPT !.at = "done"]]
    /\ UNCHANGED <<receipts, events, worker, hist>>

\* The unique event_id refuses a second row.
Insert(c, e) == IF events[e] = {} THEN {Report(c)} ELSE events[e]

record_enforcement_event(c) ==
    /\ client[c].at = "record"
    /\ events' = [e \in Events |-> IF e \in client[c].event THEN Insert(c, e) ELSE events[e]]
    /\ client' = [client EXCEPT ![c].at = "done"]
    /\ UNCHANGED <<receipts, worker, hist>>

-----------------------------------------------------------------------------
(***************************************************************************)
(* process_pending_receipts and purge_expired_receipts in a worker.        *)
(***************************************************************************)
Stale(r) ==
    /\ receipts[r].status = "signing" /\ receipts[r].claim = "stale"
    /\ receipts[r].attempts < MaxAttempts

\* Mutant: a receipt is selected once only.
SelectableFresh(row) == row.status = "pending" /\ row.ready /\ row.attempts = 0

Selectable(row) == row.status = "pending" /\ row.ready

\* The recovering update, its commit, and the selection of a batch.
BeginSigning(w) ==
    LET after == [r \in Receipts |->
            IF Stale(r) THEN [receipts[r] EXCEPT !.status = "pending", !.claim = "none",
                                                 !.ready = TRUE]
            ELSE receipts[r]]
    IN  /\ worker[w].at = "idle"
        /\ receipts' = after
        /\ \E r \in Receipts : Selectable(after[r])
        /\ worker' = [worker EXCEPT ![w] =
                [IdleWorker EXCEPT !.at = "claiming",
                                   !.todo = {r \in Receipts : Selectable(after[r])}]]
        /\ UNCHANGED <<events, client, hist>>

EndOf(w, todo) == IF todo = {} THEN IdleWorker
                  ELSE [IdleWorker EXCEPT !.at = "claiming", !.todo = todo]

\* Mutant: the claim does not test the status again.
ClaimableAny(row) == TRUE

ClaimableReceipt(row) == row.status = "pending"

ClaimReceipt(w, r) ==
    /\ worker[w].at = "claiming" /\ r \in worker[w].todo
    /\ \/ /\ ClaimableReceipt(receipts[r])
          /\ receipts' = [receipts EXCEPT ![r] = [receipts[r] EXCEPT
                                !.status = "signing", !.claim = "live", !.attempts = @ + 1]]
          /\ worker' = [worker EXCEPT ![w] = [worker[w] EXCEPT !.at = "claimed",
                                                       !.held = {r}, !.todo = @ \ {r}]]
       \/ /\ ~ClaimableReceipt(receipts[r])
          /\ worker' = [worker EXCEPT ![w] = EndOf(w, worker[w].todo \ {r})]
          /\ UNCHANGED receipts
    /\ UNCHANGED <<events, client, hist>>

\* db.get; a row that is gone raises out of the pass and ends the worker.
LoadReceipt(w, r) ==
    /\ worker[w].at = "claimed" /\ r \in worker[w].held
    /\ worker' = [worker EXCEPT ![w] =
            IF r \in Stored THEN [@ EXCEPT !.at = "signing", !.copy = receipts[r].attempts]
            ELSE IdleWorker]
    /\ UNCHANGED <<receipts, events, client, hist>>

LastAttempt(copy) == copy >= MaxAttempts

\* The signer answers or raises, and the status decided on the copy is written.
SignReceipt(w, r, signed) ==
    /\ worker[w].at = "signing" /\ r \in worker[w].held
    /\ IF r \notin Stored
       THEN /\ worker' = [worker EXCEPT ![w] = IdleWorker]
            /\ UNCHANGED receipts
       ELSE /\ receipts' = [receipts EXCEPT ![r] = [receipts[r] EXCEPT !.claim = "none",
                    !.status = IF signed THEN "signed"
                               ELSE IF LastAttempt(worker[w].copy) THEN "failed" ELSE "pending",
                    !.ready = @ /\ (signed \/ LastAttempt(worker[w].copy))]]
            /\ worker' = [worker EXCEPT ![w] = EndOf(w, worker[w].todo)]
    /\ UNCHANGED <<events, client, hist>>

Purgeable(r) ==
    /\ r \in Stored /\ receipts[r].expired
    /\ receipts[r].status \notin {"pending", "signing"}

BeginPurge(w) ==
    /\ worker[w].at = "idle"
    /\ \E r \in Receipts : Purgeable(r)
    /\ worker' = [worker EXCEPT ![w] = [@ EXCEPT !.at = "purging",
                                                 !.todo = {r \in Receipts : Purgeable(r)}]]
    /\ UNCHANGED <<receipts, events, client, hist>>

\* The deletion, which does not test the status again.
purge_expired_receipts(w) ==
    /\ worker[w].at = "purging"
    /\ receipts' = [r \in Receipts |->
            IF r \in worker[w].todo /\ r \in Stored
            THEN [receipts[r] EXCEPT !.status = "purged", !.claim = "none"] ELSE receipts[r]]
    /\ worker' = [worker EXCEPT ![w] = IdleWorker]
    /\ UNCHANGED <<events, client, hist>>

WorkerCrashes(w) ==
    /\ worker[w].at \notin {"idle", "down"}
    /\ hist.crashes < MaxCrashes
    /\ hist' = [hist EXCEPT !.crashes = @ + 1]
    /\ worker' = [worker EXCEPT ![w] = IdleWorker]
    /\ UNCHANGED <<receipts, events, client>>

-----------------------------------------------------------------------------
(***************************************************************************)
(* The clock: claims age, backoffs elapse, retention ends.                 *)
(***************************************************************************)
ClaimExpires(r) ==
    /\ receipts[r].claim = "live"
    /\ receipts' = [receipts EXCEPT ![r].claim = "stale"]
    /\ hist' = [hist EXCEPT !.timely = @ /\ \A w \in Workers : r \notin worker[w].held]
    /\ UNCHANGED <<events, client, worker>>

BackoffElapses(r) ==
    /\ ~receipts[r].ready
    /\ receipts' = [receipts EXCEPT ![r].ready = TRUE]
    /\ UNCHANGED <<events, client, worker, hist>>

RetentionEnds(r) ==
    /\ r \in Stored /\ ~receipts[r].expired
    /\ receipts' = [receipts EXCEPT ![r].expired = TRUE]
    /\ UNCHANGED <<events, client, worker, hist>>

-----------------------------------------------------------------------------
ClientStep(c) ==
    \/ evaluate_access(c)
    \/ CommitEvaluations(c)
    \/ HandleObligations(c)
    \/ Operate(c)
    \/ \E e \in Events : LookupEvent(c, e)
    \/ record_enforcement_event(c)

SigningStep(w) ==
    \/ BeginSigning(w)
    \/ \E r \in Receipts : \/ ClaimReceipt(w, r)
                           \/ LoadReceipt(w, r)
                           \/ \E signed \in BOOLEAN : SignReceipt(w, r, signed)

PurgeStep(w) == BeginPurge(w) \/ purge_expired_receipts(w)

Next ==
    \/ \E c \in Clients :
        \/ \E n \in 1..(IF c \in Batches THEN MaxBatch ELSE 1) : \E items \in [1..n -> Asks] : BeginEvaluations(c, items)
        \/ ClientStep(c)
        \/ \E outcome \in Outcomes, satisfied \in SUBSET Obligations :
                ReportAnything(c, outcome, satisfied)
    \/ \E w \in Workers : SigningStep(w) \/ PurgeStep(w) \/ WorkerCrashes(w)
    \/ \E r \in Receipts : ClaimExpires(r) \/ BackoffElapses(r) \/ RetentionEnds(r)

Spec == Init /\ [][Next]_vars

\* Fairness: workers keep running their passes and the clock advances.
FairSpec ==
    /\ Spec
    /\ \A w \in Workers : WF_vars(SigningStep(w)) /\ WF_vars(PurgeStep(w))
    /\ \A r \in Signing : WF_vars(ClaimExpires(r)) /\ WF_vars(BackoffElapses(r))

-----------------------------------------------------------------------------
\* Types of the tables and of each actor's progress.
TypeOK ==
    /\ receipts \in [Receipts -> Receipt]
    /\ \A e \in Events : events[e] \subseteq Event /\ Cardinality(events[e]) <= 1
    /\ \A c \in Clients : /\ client[c].at \in {"idle", "evaluating", "answered", "operate",
                                               "report", "record", "done"}
                          /\ client[c].drafts \cup client[c].answer \subseteq Receipts
                          /\ client[c].outcome \in Outcomes
                          /\ client[c].satisfied \subseteq Obligations
    /\ worker \in [Workers -> Worker]
    /\ hist \in History

Past(c) == client[c].at \notin {"idle", "evaluating"}

\* An answer is backed by the database: every receipt a client was answered
\* with has been committed, and nothing of a failed request is left behind.
AnswerIsDurable ==
    /\ \A c \in Clients : Past(c) =>
            \A r \in client[c].answer : receipts[r].status \notin {"absent", "draft"}
    /\ \A r \in Receipts : receipts[r].status = "draft" =>
            \E c \in Clients : client[c].at = "evaluating" /\ r \in client[c].drafts

\* One decision per idempotency key: a client is answered with a receipt for a
\* request it made, and two clients answered for one key are answered with one
\* receipt, unless the first has been purged in between.
OneDecisionPerKey ==
    \A c \in Clients : Past(c) => \A r \in client[c].answer :
        /\ \E i \in DOMAIN client[c].asked :
            client[c].asked[i] = [key |-> receipts[r].key, request |-> receipts[r].request]
        /\ \A d \in Clients : Past(d) => \A s \in client[d].answer :
            \/ r = s \/ receipts[r].key = NoKey \/ receipts[r].key # receipts[s].key
            \/ receipts[r].status = "purged" \/ receipts[s].status = "purged"

\* What evaluate_runtime_decision answered stands, in batches as in retries.
AnswersStand == AnswerIsDurable /\ OneDecisionPerKey

\* A permit and all its obligations come before the operation of an SDK client
\* and before evidence of an applied decision, whoever reports it; and when the
\* SDK reports it, the operation ran.
EnforcementSound ==
    /\ \A c \in Clients : client[c].ran =>
            receipts[Receipt1(c)].permit /\ client[c].satisfied = receipts[Receipt1(c)].duties
    /\ \A e \in Events : \A v \in events[e] : v.outcome = "applied" =>
            /\ receipts[v.receipt].permit /\ v.satisfied = receipts[v.receipt].duties
            /\ v.pep \in SDK => client[v.pep].ran

\* Evidence once recorded is never replaced, whoever reuses its event id.
EvidenceStays == [][\A e \in Events : events[e] # {} => events'[e] = events[e]]_events

\* A signed receipt stays signed until it is purged, unless a signer outlived
\* its claim.
SignedStays ==
    [][\A r \in Receipts : receipts[r].status = "signed" /\ hist'.timely =>
            receipts'[r].status \in {"signed", "purged"}]_vars

\* Pending and in-progress signing rows are not purged, nor any row before the
\* end of its retention, unless a signer outlived its claim.
PurgeSparesPending ==
    [][\A r \in Receipts :
            r \in Stored /\ receipts'[r].status = "purged" /\ hist.timely =>
                receipts[r].expired /\ receipts[r].status \notin {"pending", "signing"}]_vars

\* What was recorded stays: evidence, signatures, and rows not yet due for purge.
RecordsStay == EvidenceStays /\ SignedStays /\ PurgeSparesPending

\* The claim of the last attempt belongs to nobody any more.
Abandoned(r) ==
    /\ receipts[r].status = "signing" /\ receipts[r].attempts >= MaxAttempts
    /\ \A w \in Workers : r \notin worker[w].held

\* Every pending receipt is finally signed or failed, except one whose last
\* allowed claim died: the recovery skips it.
ReceiptSettles ==
    \A r \in Signing :
        receipts[r].status = "pending" /\ (\E w \in Workers : worker[w].at # "down") ~>
            receipts[r].status \in {"signed", "failed", "purged"} \/ Abandoned(r)
=============================================================================
