------------------------ MODULE RuntimeReceiptsProofs ------------------------
(***************************************************************************)
(* Answers stand, enforcement is sound and records stay, for any number of *)
(* clients, workers, receipts, keys and batches: ReceiptsInv is inductive, *)
(* implies AnswersStand and EnforcementSound and makes every step keep     *)
(* what was recorded.                                                      *)
(***************************************************************************)
EXTENDS RuntimeReceipts, FiniteSetTheorems, TLAPS

Types ==
    /\ receipts \in [Receipts -> Receipt]
    /\ events \in [Events -> SUBSET Event]
    /\ \A e \in Events : events[e] = {} \/ \E v \in Event : events[e] = {v}
    /\ client \in [Clients -> Client]
    /\ worker \in [Workers -> Worker]
    /\ hist \in History

\* A committed receipt is in the table, or was.
Committed(r) == receipts[r].status \notin {"absent", "draft"}

\* The permit and obligations of a client's receipt, all of them satisfied.
Entitled(c) ==
    /\ receipts[Receipt1(c)].permit
    /\ client[c].satisfied = receipts[Receipt1(c)].duties

OtherKey(k, l) == k = NoKey \/ k # l

(***************************************************************************)
(* The transaction of a client: its drafts are its own and uncommitted,    *)
(* every receipt of its answer is one of them or committed, and answers an *)
(* evaluation it asked for; keys of a batch stay apart.                    *)
(***************************************************************************)
Transaction(c) ==
    /\ client[c].at = "idle" => client[c].answer = {}
    /\ client[c].at # "evaluating" => client[c].drafts = {}
    /\ client[c].at = "evaluating" /\ client[c].answer = {} => client[c].todo # <<>>
    /\ \A r \in client[c].drafts : receipts[r].status = "draft"
    /\ \A r \in client[c].answer :
        /\ r \in client[c].drafts \/ Committed(r)
        /\ \E i \in DOMAIN client[c].asked :
            client[c].asked[i] = [key |-> receipts[r].key, request |-> receipts[r].request]
    /\ \A i \in DOMAIN client[c].todo :
        /\ \E j \in DOMAIN client[c].asked : client[c].asked[j] = client[c].todo[i]
        /\ \A j \in DOMAIN client[c].todo :
            i # j => OtherKey(client[c].todo[i].key, client[c].todo[j].key)
        /\ \A r \in client[c].drafts : OtherKey(receipts[r].key, client[c].todo[i].key)
    /\ \A r, s \in client[c].drafts : r # s => OtherKey(receipts[r].key, receipts[s].key)

\* An enforcement point: it runs the operation on a permit with all its
\* obligations satisfied, and says applied only of an operation that ran.
Enforcement(c) ==
    /\ client[c].at \in {"answered", "operate", "report", "record"} => client[c].answer # {}
    /\ client[c].at = "operate" => Entitled(c)
    /\ client[c].ran =>
        client[c].at \in {"report", "record", "done"} /\ client[c].answer # {} /\ Entitled(c)
    /\ c \in SDK /\ client[c].outcome = "applied" => client[c].ran
    /\ client[c].at = "record" /\ client[c].outcome = "applied" => Entitled(c)

\* Transactions do not share drafts, and every draft belongs to one.
DraftsOwned ==
    /\ \A c, d \in Clients : c # d => client[c].drafts \cap client[d].drafts = {}
    /\ \A r \in Receipts : receipts[r].status = "draft" =>
        \E c \in Clients : client[c].at = "evaluating" /\ r \in client[c].drafts

\* uq_runtime_decision_receipt_tenant_idempotency
KeysUnique == \A r, s \in Stored : r # s => OtherKey(receipts[r].key, receipts[s].key)

EventsHold ==
    \A e \in Events : \A v \in events[e] :
        /\ Committed(v.receipt)
        /\ v.outcome = "applied" =>
            /\ receipts[v.receipt].permit /\ v.satisfied = receipts[v.receipt].duties
            /\ v.pep \in SDK => client[v.pep].ran

\* A live claim, and a row that a purge may take.
InHand(r) == receipts[r].status = "signing" /\ receipts[r].claim = "live"

Due(r) ==
    /\ Committed(r) /\ receipts[r].expired
    /\ receipts[r].status \notin {"pending", "signing"}

\* While no signer has outlived its claim: who holds a receipt holds it alone
\* and in time, and what a purge has selected is past signing and retention.
ClaimsHold ==
    /\ \A w \in Workers : worker[w].at \notin {"claimed", "signing"} => worker[w].held = {}
    /\ hist.timely => \A w \in Workers :
        /\ \A r \in worker[w].held :
            /\ InHand(r)
            /\ \A v \in Workers : v # w => r \notin worker[v].held
        /\ worker[w].at = "purging" => \A r \in worker[w].todo : Due(r)

ReceiptsInv ==
    /\ Types
    /\ \A c \in Clients : Transaction(c) /\ Enforcement(c)
    /\ DraftsOwned
    /\ KeysUnique
    /\ EventsHold
    /\ ClaimsHold


-----------------------------------------------------------------------------
\* What a step that is not the transaction of a receipt does to its row.
RowStays(r) ==
    /\ UNCHANGED <<receipts[r].key, receipts[r].request, receipts[r].permit, receipts[r].duties>>
    /\ ~Committed(r) => receipts'[r].status = receipts[r].status
    /\ Committed(r) => Committed(r)'
    /\ receipts[r].status = "purged" => receipts'[r].status = "purged"
    /\ receipts[r].expired => receipts'[r].expired

WorkerActs == \E w \in Workers : SigningStep(w) \/ PurgeStep(w) \/ WorkerCrashes(w)

ClockTicks == \E r \in Receipts : ClaimExpires(r) \/ BackoffElapses(r) \/ RetentionEnds(r)

LEMMA RowTypes ==
    /\ NoReceipt \in Receipt
    /\ NoReceipt.status = "absent" /\ NoReceipt.claim = "none"
    /\ IdleClient \in Client
    /\ IdleClient.at = "idle" /\ IdleClient.drafts = {} /\ IdleClient.answer = {}
    /\ ~IdleClient.ran /\ IdleClient.outcome = "rejected"
    /\ IdleWorker \in Worker
    /\ IdleWorker.at = "idle" /\ IdleWorker.held = {}
BY ReceiptsAssumption DEF NoReceipt, Receipt, Status, IdleClient, Client, Outcomes, IdleWorker, Worker

\* One row is rewritten.
LEMMA RowWritten ==
    ASSUME Types, NEW r \in Receipts, NEW row \in Receipt, receipts' = [receipts EXCEPT ![r] = row]
    PROVE  /\ receipts' \in [Receipts -> Receipt]
           /\ receipts'[r] = row
           /\ \A s \in Receipts \ {r} : receipts'[s] = receipts[s] /\ RowStays(s)
BY DEF Types, RowStays, Committed

\* Workers and the clock only move rows that are committed.
LEMMA WorkerRows ==
    ASSUME Types, WorkerActs \/ ClockTicks
    PROVE  /\ receipts' \in [Receipts -> Receipt]
           /\ \A r \in Receipts : RowStays(r)
           /\ UNCHANGED <<client, events>>
<1>0. receipts \in [Receipts -> Receipt] /\ worker \in [Workers -> Worker]
    BY DEF Types
<1> DEFINE Goal == /\ receipts' \in [Receipts -> Receipt]
                   /\ \A r \in Receipts : RowStays(r)
                   /\ UNCHANGED <<client, events>>
<1>1. ASSUME UNCHANGED <<receipts, client, events>> PROVE Goal
    BY <1>0, <1>1 DEF RowStays, Committed
<1>2. ASSUME NEW r \in Receipts, NEW row \in Receipt, receipts' = [receipts EXCEPT ![r] = row],
             UNCHANGED <<client, events>>,
             /\ row.key = receipts[r].key /\ row.request = receipts[r].request
             /\ row.permit = receipts[r].permit /\ row.duties = receipts[r].duties
             /\ receipts[r].expired => row.expired,
             \/ row.status = receipts[r].status
             \/ r \in Stored /\ row.status \notin {"absent", "draft"}
      PROVE  Goal
    BY <1>0, <1>2, RowWritten DEF RowStays, Committed, Stored
<1>3. ASSUME NEW w \in Workers, BeginSigning(w) PROVE Goal
    <2> DEFINE after(r) == IF Stale(r) THEN [receipts[r] EXCEPT !.status = "pending",
                                                !.claim = "none", !.ready = TRUE]
                           ELSE receipts[r]
    <2>1. receipts' = [r \in Receipts |-> after(r)] /\ UNCHANGED <<client, events>>
        BY <1>3 DEF BeginSigning
    <2>2. ASSUME NEW r \in Receipts
          PROVE  /\ after(r) \in Receipt
                 /\ after(r).key = receipts[r].key /\ after(r).request = receipts[r].request
                 /\ after(r).permit = receipts[r].permit /\ after(r).duties = receipts[r].duties
                 /\ after(r).expired = receipts[r].expired
                 /\ \/ after(r).status = receipts[r].status
                    \/ receipts[r].status = "signing" /\ after(r).status = "pending"
        BY <1>0 DEF Receipt, Status, Stale
    <2> HIDE DEF after
    <2> QED
        BY <1>0, <2>1, <2>2 DEF RowStays, Committed
<1>4. ASSUME NEW w \in Workers, purge_expired_receipts(w) PROVE Goal
    <2> DEFINE after(r) == IF r \in worker[w].todo /\ r \in Stored
                           THEN [receipts[r] EXCEPT !.status = "purged", !.claim = "none"]
                           ELSE receipts[r]
    <2>1. receipts' = [r \in Receipts |-> after(r)] /\ UNCHANGED <<client, events>>
        BY <1>4 DEF purge_expired_receipts
    <2>2. ASSUME NEW r \in Receipts
          PROVE  /\ after(r) \in Receipt
                 /\ after(r).key = receipts[r].key /\ after(r).request = receipts[r].request
                 /\ after(r).permit = receipts[r].permit /\ after(r).duties = receipts[r].duties
                 /\ after(r).expired = receipts[r].expired
                 /\ \/ after(r).status = receipts[r].status
                    \/ /\ receipts[r].status \notin {"absent", "draft", "purged"}
                       /\ after(r).status = "purged"
        BY <1>0 DEF Receipt, Status, Stored
    <2> HIDE DEF after
    <2>3. receipts' \in [Receipts -> Receipt] /\ \A r \in Receipts : receipts'[r] = after(r)
        BY <2>1, <2>2
    <2>4. ASSUME NEW r \in Receipts PROVE RowStays(r)
        BY <2>2, <2>3 DEF RowStays, Committed
    <2> QED
        BY <2>1, <2>3, <2>4
<1>5. ASSUME NEW w \in Workers, NEW r \in Receipts, ClaimReceipt(w, r), ~UNCHANGED receipts
      PROVE  Goal
    <2> DEFINE attempts == receipts[r].attempts + 1
               row == [receipts[r] EXCEPT !.status = "signing", !.claim = "live",
                                          !.attempts = attempts]
    <2>1. /\ receipts' = [receipts EXCEPT ![r] = row] /\ UNCHANGED <<client, events>>
          /\ receipts[r].status = "pending"
        BY <1>5 DEF ClaimReceipt, ClaimableReceipt
    <2>0. attempts \in Nat
        BY <1>0 DEF Receipt
    <2> HIDE DEF attempts
    <2>2. /\ row \in Receipt /\ row.status = "signing"
          /\ row.key = receipts[r].key /\ row.request = receipts[r].request
          /\ row.permit = receipts[r].permit /\ row.duties = receipts[r].duties
          /\ row.expired = receipts[r].expired
        BY <1>0, <2>0 DEF Receipt, Status
    <2> HIDE DEF row
    <2> QED
        BY <1>2, <2>1, <2>2 DEF Stored
<1>6. ASSUME NEW w \in Workers, NEW r \in Receipts, NEW signed \in BOOLEAN,
             SignReceipt(w, r, signed), ~UNCHANGED receipts
      PROVE  Goal
    <2> DEFINE status == IF signed THEN "signed"
                         ELSE IF LastAttempt(worker[w].copy) THEN "failed" ELSE "pending"
               ready == receipts[r].ready /\ (signed \/ LastAttempt(worker[w].copy))
               row == [receipts[r] EXCEPT !.claim = "none", !.status = status, !.ready = ready]
    <2>1. /\ receipts' = [receipts EXCEPT ![r] = row] /\ UNCHANGED <<client, events>>
          /\ r \in Stored
        BY <1>6 DEF SignReceipt
    <2>0. status \in {"signed", "failed", "pending"} /\ ready \in BOOLEAN
        OBVIOUS
    <2> HIDE DEF status, ready
    <2>2. /\ row \in Receipt /\ row.status = status
          /\ row.key = receipts[r].key /\ row.request = receipts[r].request
          /\ row.permit = receipts[r].permit /\ row.duties = receipts[r].duties
          /\ row.expired = receipts[r].expired
        BY <1>0, <2>0 DEF Receipt, Status
    <2> HIDE DEF row
    <2> QED
        BY <1>2, <2>0, <2>1, <2>2
<1>7. ASSUME NEW r \in Receipts, ClaimExpires(r) PROVE Goal
    <2> DEFINE row == [receipts[r] EXCEPT !.claim = "stale"]
    <2>1. receipts' = [receipts EXCEPT ![r] = row] /\ UNCHANGED <<client, events>>
        BY <1>7 DEF ClaimExpires
    <2>2. /\ row \in Receipt /\ row.status = receipts[r].status
          /\ row.key = receipts[r].key /\ row.request = receipts[r].request
          /\ row.permit = receipts[r].permit /\ row.duties = receipts[r].duties
          /\ row.expired = receipts[r].expired
        BY <1>0 DEF Receipt
    <2> HIDE DEF row
    <2> QED
        BY <1>2, <2>1, <2>2
<1>8. ASSUME NEW r \in Receipts, BackoffElapses(r) PROVE Goal
    <2> DEFINE row == [receipts[r] EXCEPT !.ready = TRUE]
    <2>1. receipts' = [receipts EXCEPT ![r] = row] /\ UNCHANGED <<client, events>>
        BY <1>8 DEF BackoffElapses
    <2>2. /\ row \in Receipt /\ row.status = receipts[r].status
          /\ row.key = receipts[r].key /\ row.request = receipts[r].request
          /\ row.permit = receipts[r].permit /\ row.duties = receipts[r].duties
          /\ row.expired = receipts[r].expired
        BY <1>0 DEF Receipt
    <2> HIDE DEF row
    <2> QED
        BY <1>2, <2>1, <2>2
<1>9. ASSUME NEW r \in Receipts, RetentionEnds(r) PROVE Goal
    <2> DEFINE row == [receipts[r] EXCEPT !.expired = TRUE]
    <2>1. receipts' = [receipts EXCEPT ![r] = row] /\ UNCHANGED <<client, events>>
        BY <1>9 DEF RetentionEnds
    <2>2. /\ row \in Receipt /\ row.status = receipts[r].status /\ row.expired
          /\ row.key = receipts[r].key /\ row.request = receipts[r].request
          /\ row.permit = receipts[r].permit /\ row.duties = receipts[r].duties
        BY <1>0 DEF Receipt
    <2> HIDE DEF row
    <2> QED
        BY <1>2, <2>1, <2>2
<1>10. ASSUME NEW w \in Workers,
              \/ \E r \in Receipts : ClaimReceipt(w, r) \/ LoadReceipt(w, r)
              \/ \E r \in Receipts, signed \in BOOLEAN : SignReceipt(w, r, signed)
              \/ BeginPurge(w) \/ WorkerCrashes(w)
       PROVE  Goal
    <2>1. UNCHANGED receipts => Goal
        BY <1>1, <1>10 DEF ClaimReceipt, LoadReceipt, SignReceipt, BeginPurge, WorkerCrashes
    <2> HIDE DEF Goal
    <2> QED
        BY <1>5, <1>6, <1>10, <2>1 DEF LoadReceipt, BeginPurge, WorkerCrashes
<1> HIDE DEF Goal
<1>11. Goal
    BY <1>3, <1>4, <1>7, <1>8, <1>9, <1>10 DEF WorkerActs, ClockTicks, SigningStep, PurgeStep
<1> QED
    BY <1>11 DEF Goal


-----------------------------------------------------------------------------
\* Everything a client does.
ClientActs(c) ==
    \/ \E n \in 1..(IF c \in Batches THEN MaxBatch ELSE 1) : \E items \in [1..n -> Asks] :
        BeginEvaluations(c, items)
    \/ ClientStep(c)
    \/ \E outcome \in Outcomes, satisfied \in SUBSET Obligations :
        ReportAnything(c, outcome, satisfied)

\* One client's progress is rewritten.
LEMMA ClientWritten ==
    ASSUME Types, NEW c \in Clients, NEW row \in Client, client' = [client EXCEPT ![c] = row]
    PROVE  /\ client' \in [Clients -> Client]
           /\ client'[c] = row
           /\ \A d \in Clients \ {c} : client'[d] = client[d]
BY DEF Types

\* An evaluation is answered with receipt r, and rest is left of the batch.
Answers(c, r, rest) ==
    /\ rest \in {Tail(client[c].todo), <<>>}
    /\ client'[c].todo = rest
    /\ client'[c].answer = client[c].answer \cup {r}
    /\ UNCHANGED <<client[c].at, client[c].asked, client[c].satisfied, client[c].ran,
                   client[c].outcome>>

Reuses(c) ==
    \E r \in Stored, rest \in Seq(Item) :
        /\ Answers(c, r, rest)
        /\ client'[c].drafts = client[c].drafts
        /\ receipts[r].key = Head(client[c].todo).key
        /\ receipts[r].request = Head(client[c].todo).request
        /\ UNCHANGED receipts

Drafts(c) ==
    \E r \in Receipts, rest \in Seq(Item) :
        /\ Answers(c, r, rest)
        /\ client'[c].drafts = client[c].drafts \cup {r}
        /\ receipts[r].status = "absent"
        /\ receipts'[r].status = "draft"
        /\ receipts'[r].key = Head(client[c].todo).key
        /\ receipts'[r].request = Head(client[c].todo).request
        /\ \A s \in Receipts \ {r} : receipts'[s] = receipts[s]

LEMMA EvaluationSteps ==
    ASSUME Types, NEW c \in Clients, evaluate_access(c)
    PROVE  /\ client[c].at = "evaluating" /\ client[c].todo # <<>>
           /\ UNCHANGED <<events, worker, hist>>
           /\ \/ Rejected(c)
              \/ /\ Reuses(c) \/ Drafts(c)
                 /\ receipts' \in [Receipts -> Receipt]
                 /\ client' \in [Clients -> Client]
                 /\ \A d \in Clients \ {c} : client'[d] = client[d]
<1> DEFINE item == Head(client[c].todo)
           existing == Existing(item.key)
           Answered(r, rest) ==
                client' = [client EXCEPT ![c] = [client[c] EXCEPT !.todo = rest,
                            !.answer = @ \cup {r},
                            !.drafts = @ \cup (IF r \in existing THEN {} ELSE {r})]]
<1>0. /\ client \in [Clients -> Client] /\ receipts \in [Receipts -> Receipt]
      /\ client[c].at = "evaluating" /\ client[c].todo # <<>>
      /\ client[c].todo \in Seq(Item)
      /\ UNCHANGED <<events, worker, hist>>
    BY DEF Types, evaluate_access, Rejected, Client
<1>1. item \in Item /\ Tail(client[c].todo) \in Seq(Item) /\ <<>> \in Seq(Item)
    BY <1>0
<1> HIDE DEF item
<1>2. existing \subseteq Stored /\ \A r \in existing : receipts[r].key = item.key
    BY DEF Existing
<1>3. \/ Rejected(c)
      \/ \E r \in existing, rest \in {Tail(client[c].todo), <<>>} :
            ~IdempotencyConflict(item) /\ Answered(r, rest) /\ UNCHANGED receipts
      \/ \E r \in Unused, rest \in {Tail(client[c].todo), <<>>}, verdict \in Verdicts :
            /\ existing = {}
            /\ receipts' = [receipts EXCEPT ![r] =
                    [NoReceipt EXCEPT !.status = "draft", !.key = item.key,
                        !.request = item.request, !.permit = verdict.permit,
                        !.duties = verdict.duties]]
            /\ Answered(r, rest)
    <2> DEFINE Drafted(r, verdict) ==
                    receipts' = [receipts EXCEPT ![r] =
                        [NoReceipt EXCEPT !.status = "draft", !.key = item.key,
                            !.request = item.request, !.permit = verdict.permit,
                            !.duties = verdict.duties]]
    <2>1. \/ Rejected(c)
          \/ /\ ~IdempotencyConflict(item)
             /\ \E r \in existing : \E rest \in {Tail(client[c].todo), <<>>} : Answered(r, rest)
             /\ UNCHANGED receipts
          \/ /\ existing = {} /\ Unused # {}
             /\ \E r \in {CHOOSE u \in Unused : TRUE}, verdict \in Verdicts :
                    Drafted(r, verdict)
                    /\ \E rest \in {Tail(client[c].todo), <<>>} : Answered(r, rest)
        BY DEF evaluate_access, item
    <2>2. Unused # {} => (CHOOSE u \in Unused : TRUE) \in Unused
        OBVIOUS
    <2> HIDE DEF Drafted, Answered, existing
    <2>3. \/ Rejected(c)
          \/ \E r \in existing, rest \in {Tail(client[c].todo), <<>>} :
                ~IdempotencyConflict(item) /\ Answered(r, rest) /\ UNCHANGED receipts
          \/ \E r \in Unused, rest \in {Tail(client[c].todo), <<>>}, verdict \in Verdicts :
                existing = {} /\ Drafted(r, verdict) /\ Answered(r, rest)
        BY <2>1, <2>2
    <2> QED
        BY <2>3 DEF Drafted
<1>4. ASSUME NEW r \in Receipts, NEW rest \in Seq(Item), Answered(r, rest),
             rest \in {Tail(client[c].todo), <<>>}
      PROVE  /\ client' \in [Clients -> Client]
             /\ \A d \in Clients \ {c} : client'[d] = client[d]
             /\ Answers(c, r, rest)
             /\ client'[c].drafts = client[c].drafts \cup (IF r \in existing THEN {} ELSE {r})
    <2> DEFINE more == IF r \in existing THEN {} ELSE {r}
               answer == client[c].answer \cup {r}
               drafts == client[c].drafts \cup more
               row == [client[c] EXCEPT !.todo = rest, !.answer = answer, !.drafts = drafts]
    <2>1. client' = [client EXCEPT ![c] = row]
        BY <1>4
    <2>2. answer \in SUBSET Receipts /\ drafts \in SUBSET Receipts
        BY <1>0 DEF Client
    <2> HIDE DEF answer, drafts, existing
    <2>3. /\ row \in Client
          /\ row.todo = rest /\ row.answer = answer /\ row.drafts = drafts
          /\ row.at = client[c].at /\ row.asked = client[c].asked
          /\ row.satisfied = client[c].satisfied /\ row.ran = client[c].ran
          /\ row.outcome = client[c].outcome
        BY <1>0, <2>2 DEF Client
    <2> HIDE DEF row
    <2>4. /\ client' \in [Clients -> Client] /\ client'[c] = row
          /\ \A d \in Clients \ {c} : client'[d] = client[d]
        BY <2>1, <2>3, ClientWritten
    <2> QED
        BY <1>4, <2>3, <2>4 DEF Answers, answer, drafts
<1>5. ASSUME NEW r \in existing, NEW rest \in {Tail(client[c].todo), <<>>},
             ~IdempotencyConflict(item), Answered(r, rest), UNCHANGED receipts
      PROVE  /\ Reuses(c)
             /\ receipts' \in [Receipts -> Receipt]
             /\ client' \in [Clients -> Client]
             /\ \A d \in Clients \ {c} : client'[d] = client[d]
    <2>1. /\ r \in Stored /\ r \in Receipts /\ rest \in Seq(Item)
          /\ receipts[r].key = item.key
          /\ receipts[r].request = item.request
        BY <1>1, <1>2, <1>5 DEF Stored, IdempotencyConflict
    <2>2. /\ client' \in [Clients -> Client]
          /\ \A d \in Clients \ {c} : client'[d] = client[d]
          /\ Answers(c, r, rest)
          /\ client'[c].drafts = client[c].drafts
        BY <1>4, <1>5, <2>1
    <2> QED
        BY <1>0, <1>5, <2>1, <2>2 DEF Reuses, item
<1>6. ASSUME NEW r \in Unused, NEW rest \in {Tail(client[c].todo), <<>>}, NEW verdict \in Verdicts,
             existing = {},
             receipts' = [receipts EXCEPT ![r] =
                    [NoReceipt EXCEPT !.status = "draft", !.key = item.key,
                        !.request = item.request, !.permit = verdict.permit,
                        !.duties = verdict.duties]],
             Answered(r, rest)
      PROVE  /\ Drafts(c)
             /\ receipts' \in [Receipts -> Receipt]
             /\ client' \in [Clients -> Client]
             /\ \A d \in Clients \ {c} : client'[d] = client[d]
    <2> DEFINE row == [NoReceipt EXCEPT !.status = "draft", !.key = item.key,
                        !.request = item.request, !.permit = verdict.permit,
                        !.duties = verdict.duties]
    <2>1. r \in Receipts /\ receipts[r].status = "absent" /\ rest \in Seq(Item)
        BY <1>1 DEF Unused
    <2>2. /\ row \in Receipt /\ row.status = "draft"
          /\ row.key = item.key /\ row.request = item.request
        BY <1>1, ReceiptsAssumption DEF NoReceipt, Receipt, Status, Item
    <2> HIDE DEF row
    <2>3. /\ receipts' \in [Receipts -> Receipt] /\ receipts'[r] = row
          /\ \A s \in Receipts \ {r} : receipts'[s] = receipts[s]
        BY <1>6, <2>1, <2>2, RowWritten DEF row
    <2>4. /\ client' \in [Clients -> Client]
          /\ \A d \in Clients \ {c} : client'[d] = client[d]
          /\ Answers(c, r, rest)
          /\ client'[c].drafts = client[c].drafts \cup {r}
        BY <1>4, <1>6, <2>1
    <2> QED
        BY <2>1, <2>2, <2>3, <2>4 DEF Drafts, item
<1> HIDE DEF existing, Answered
<1> QED
    BY <1>0, <1>3, <1>5, <1>6


-----------------------------------------------------------------------------
\* A client that does not act keeps its transaction and its evidence as long
\* as the rows it knows stay.
LEMMA ClientKept ==
    ASSUME Types, NEW c \in Clients, Transaction(c), Enforcement(c), UNCHANGED client[c],
           \A r \in client[c].drafts \cup client[c].answer : RowStays(r)
    PROVE  (Transaction(c) /\ Enforcement(c))'
<1>0. client[c].answer \in SUBSET Receipts /\ client[c].drafts \in SUBSET Receipts
    BY DEF Types, Client
<1>1. Transaction(c)'
    <2>1. \A r \in client[c].drafts : receipts'[r].status = "draft" /\ receipts'[r].key = receipts[r].key
        BY DEF Transaction, RowStays, Committed
    <2>2. \A r \in client[c].answer :
            /\ r \in client[c].drafts \/ Committed(r)'
            /\ receipts'[r].key = receipts[r].key /\ receipts'[r].request = receipts[r].request
        BY DEF Transaction, RowStays
    <2> QED
        BY <2>1, <2>2 DEF Transaction
<1>2. Enforcement(c)'
    <2>1. client[c].answer # {} => Receipt1(c) \in client[c].answer /\ UNCHANGED Receipt1(c)
        BY DEF Receipt1
    <2>2. client[c].answer # {} /\ Entitled(c) => Entitled(c)'
        BY <2>1 DEF Entitled, RowStays
    <2> QED
        BY <2>2 DEF Enforcement
<1> QED
    BY <1>1, <1>2

LEMMA DraftsKept ==
    ASSUME Types, DraftsOwned, UNCHANGED client, \A r \in Receipts : RowStays(r)
    PROVE  DraftsOwned'
BY DEF DraftsOwned, RowStays, Committed

LEMMA KeysKept ==
    ASSUME Types, KeysUnique, \A r \in Receipts : RowStays(r)
    PROVE  KeysUnique'
BY DEF KeysUnique, Stored, RowStays, Committed

\* Evidence stays true: its receipt is committed and its operation has run.
LEMMA EventsKept ==
    ASSUME Types, EventsHold, NEW e \in Events, NEW v \in events[e],
           \A r \in Receipts : Committed(r) => RowStays(r),
           \A c \in Clients : client[c].ran => client'[c].ran
    PROVE  /\ Committed(v.receipt)'
           /\ v.outcome = "applied" =>
                /\ receipts'[v.receipt].permit /\ v.satisfied = receipts'[v.receipt].duties
                /\ v.pep \in SDK => client'[v.pep].ran
<1>1. v.receipt \in Receipts /\ v.pep \in Clients
    BY DEF Types, Event
<1>2. Committed(v.receipt) /\ RowStays(v.receipt)
    BY <1>1 DEF EventsHold
<1> QED
    BY <1>1, <1>2 DEF EventsHold, RowStays

\* Workers and the clock keep what clients rely on.
LEMMA WorkersKeepAnswers ==
    ASSUME ReceiptsInv, WorkerActs \/ ClockTicks
    PROVE  /\ \A c \in Clients : (Transaction(c) /\ Enforcement(c))'
           /\ DraftsOwned' /\ KeysUnique' /\ EventsHold'
<1>0. /\ Types /\ DraftsOwned /\ KeysUnique /\ EventsHold
      /\ \A c \in Clients : Transaction(c) /\ Enforcement(c)
      /\ \A c \in Clients : client[c].drafts \cup client[c].answer \subseteq Receipts
    BY DEF ReceiptsInv, Types, Client
<1>1. /\ \A r \in Receipts : RowStays(r)
      /\ UNCHANGED <<client, events>>
    BY <1>0, WorkerRows
<1>2. \A c \in Clients : (Transaction(c) /\ Enforcement(c))'
    BY <1>0, <1>1, ClientKept
<1>3. DraftsOwned' /\ KeysUnique'
    BY <1>0, <1>1, DraftsKept, KeysKept
<1>4. EventsHold'
    BY <1>0, <1>1, EventsKept DEF EventsHold
<1> QED
    BY <1>2, <1>3, <1>4


-----------------------------------------------------------------------------
\* What the step of a client has to establish.
ClientStepKeeps ==
    /\ Types'
    /\ \A c \in Clients : (Transaction(c) /\ Enforcement(c))'
    /\ DraftsOwned' /\ KeysUnique' /\ EventsHold'

\* A step that leaves the tables alone.
LEMMA ClientMoves ==
    ASSUME ReceiptsInv, NEW c \in Clients, NEW row \in Client,
           client' = [client EXCEPT ![c] = row], UNCHANGED <<receipts, events, worker, hist>>,
           row.drafts = client[c].drafts, client[c].ran => row.ran,
           Transaction(c)', Enforcement(c)'
    PROVE  ClientStepKeeps
<1>0. /\ Types /\ DraftsOwned /\ KeysUnique /\ EventsHold
      /\ \A d \in Clients : Transaction(d) /\ Enforcement(d)
      /\ \A d \in Clients : client[d].drafts \cup client[d].answer \subseteq Receipts
    BY DEF ReceiptsInv, Types, Client
<1>1. /\ client' \in [Clients -> Client] /\ client'[c] = row
      /\ \A d \in Clients \ {c} : client'[d] = client[d]
    BY <1>0, ClientWritten
<1>2. \A r \in Receipts : RowStays(r)
    BY DEF RowStays, Committed
<1>3. Types'
    BY <1>0, <1>1 DEF Types
<1>4. \A d \in Clients : (Transaction(d) /\ Enforcement(d))'
    <2> SUFFICES ASSUME NEW d \in Clients PROVE (Transaction(d) /\ Enforcement(d))'
        OBVIOUS
    <2>1. CASE d = c
        BY <2>1
    <2>2. CASE d # c
        BY <1>0, <1>1, <1>2, <2>2, ClientKept
    <2> QED
        BY <2>1, <2>2
<1>5. DraftsOwned'
    <2>1. \A d \in Clients : client'[d].drafts = client[d].drafts
        BY <1>1
    <2>2. \A d \in Clients : client[d].drafts # {} => client'[d].at = "evaluating"
        BY <1>4, <2>1 DEF Transaction
    <2> QED
        BY <1>0, <2>1, <2>2 DEF DraftsOwned
<1>6. KeysUnique'
    BY <1>0, <1>2, KeysKept
<1>7. EventsHold'
    <2>1. \A d \in Clients : client[d].ran => client'[d].ran
        BY <1>1
    <2> QED
        BY <1>0, <1>2, <2>1, EventsKept DEF EventsHold
<1> QED
    BY <1>3, <1>4, <1>5, <1>6, <1>7 DEF ClientStepKeeps

\* After its transaction a client keeps the answer it was given.
LEMMA PastKeeps ==
    ASSUME Types, NEW c \in Clients, Transaction(c), Past(c), UNCHANGED receipts,
           client'[c].at \notin {"idle", "evaluating"},
           UNCHANGED <<client[c].asked, client[c].todo, client[c].drafts, client[c].answer>>
    PROVE  Transaction(c)' /\ UNCHANGED Receipt1(c)
BY DEF Transaction, Past, Receipt1, Committed

LEMMA ReportTypes ==
    ASSUME Types, NEW c \in Clients, NEW outcome \in Outcomes, NEW satisfied \in SUBSET Obligations
    PROVE  LET row == Reporting(c, outcome, satisfied) IN
           /\ row \in Client /\ row.at = "report"
           /\ row.outcome = outcome /\ row.satisfied = satisfied
           /\ row.asked = client[c].asked /\ row.todo = client[c].todo
           /\ row.drafts = client[c].drafts /\ row.answer = client[c].answer
           /\ row.ran = client[c].ran
BY DEF Types, Reporting, Client

LEMMA BeginKeeps ==
    ASSUME ReceiptsInv, NEW c \in Clients, NEW n \in Nat \ {0}, NEW items \in [1..n -> Asks],
           BeginEvaluations(c, items)
    PROVE  ClientStepKeeps
<1>0. Types /\ Transaction(c) /\ Enforcement(c) /\ client[c] \in Client
    BY DEF ReceiptsInv, Types
<1> DEFINE row == [client[c] EXCEPT !.at = "evaluating", !.asked = items, !.todo = items]
<1>1. /\ client[c].at = "idle"
      /\ client' = [client EXCEPT ![c] = row] /\ UNCHANGED <<receipts, events, worker, hist>>
      /\ \A i, j \in DOMAIN items : i # j => OtherKey(items[i].key, items[j].key)
    BY DEF BeginEvaluations, OtherKey
<1>2. items \in Seq(Item) /\ items # <<>>
    BY KeysAssumption
<1>3. /\ row \in Client /\ row.at = "evaluating" /\ row.asked = items /\ row.todo = items
      /\ row.drafts = client[c].drafts /\ row.answer = client[c].answer
      /\ row.ran = client[c].ran /\ row.outcome = client[c].outcome
    BY <1>0, <1>2 DEF Client
<1> HIDE DEF row
<1>4. client'[c] = row
    BY <1>0, <1>1, <1>3, ClientWritten
<1>5. client[c].answer = {} /\ client[c].drafts = {} /\ ~client[c].ran
    BY <1>0, <1>1 DEF Transaction, Enforcement
<1>6. Transaction(c)'
    BY <1>1, <1>2, <1>3, <1>4, <1>5 DEF Transaction
<1>7. Enforcement(c)'
    BY <1>0, <1>3, <1>4, <1>5 DEF Enforcement
<1> QED
    BY <1>1, <1>3, <1>5, <1>6, <1>7, ClientMoves

\* What is left of a batch are later evaluations of it.
LEMMA RestOfBatch ==
    ASSUME NEW s \in Seq(Item), s # <<>>, NEW rest \in {Tail(s), <<>>}
    PROVE  /\ 1 \in DOMAIN s /\ Head(s) = s[1]
           /\ \A i \in DOMAIN rest : i \in Nat /\ i + 1 # 1 /\ i + 1 \in DOMAIN s /\ rest[i] = s[i + 1]
<1>1. 1 \in DOMAIN s /\ Head(s) = s[1]
    OBVIOUS
<1>2. CASE rest = Tail(s)
    BY <1>1, <1>2
<1>3. CASE rest = <<>>
    BY <1>1, <1>3
<1> QED
    BY <1>2, <1>3

LEMMA ReusesKeep ==
    ASSUME ReceiptsInv, NEW c \in Clients, client[c].at = "evaluating", client[c].todo # <<>>,
           Reuses(c), client' \in [Clients -> Client],
           \A d \in Clients \ {c} : client'[d] = client[d],
           UNCHANGED <<events, worker, hist>>
    PROVE  ClientStepKeeps
<1>0. /\ Types /\ Transaction(c) /\ Enforcement(c) /\ client[c] \in Client
      /\ client[c].todo \in Seq(Item)
      /\ client' = [client EXCEPT ![c] = client'[c]]
    BY DEF ReceiptsInv, Types, Client
<1>1. PICK r \in Stored, rest \in Seq(Item) :
        /\ Answers(c, r, rest)
        /\ client'[c].drafts = client[c].drafts
        /\ receipts[r].key = Head(client[c].todo).key
        /\ receipts[r].request = Head(client[c].todo).request
        /\ UNCHANGED receipts
    BY DEF Reuses
<1>2. \E j \in DOMAIN client[c].asked : client[c].asked[j] = Head(client[c].todo)
    BY <1>0 DEF Transaction
<1>3. receipts[r] \in Receipt /\ Head(client[c].todo) \in Item /\ Committed(r)
    BY <1>0, <1>1 DEF Types, Stored, Committed
<1>4. [key |-> receipts[r].key, request |-> receipts[r].request] = Head(client[c].todo)
    BY <1>1, <1>3 DEF Item
<1>5. \A i \in DOMAIN rest : /\ i \in Nat /\ i + 1 \in DOMAIN client[c].todo
                              /\ rest[i] = client[c].todo[i + 1]
    <2>1. PICK todo \in Seq(Item) : todo = client[c].todo
        BY <1>0
    <2>2. todo # <<>> /\ rest \in {Tail(todo), <<>>}
        BY <1>1, <2>1 DEF Answers
    <2> QED
        BY <2>1, <2>2, RestOfBatch
<1>6. \A i, j \in DOMAIN rest : i # j => OtherKey(rest[i].key, rest[j].key)
    <2> SUFFICES ASSUME NEW i \in DOMAIN rest, NEW j \in DOMAIN rest, i # j
                 PROVE  OtherKey(rest[i].key, rest[j].key)
        OBVIOUS
    <2>1. i + 1 # j + 1
        BY <1>5
    <2> QED
        BY <1>0, <1>5, <2>1 DEF Transaction
<1>7. Transaction(c)'
    <2>1. \A i \in DOMAIN rest :
            /\ \E j \in DOMAIN client[c].asked : client[c].asked[j] = rest[i]
            /\ \A d \in client[c].drafts : OtherKey(receipts[d].key, rest[i].key)
        BY <1>0, <1>5 DEF Transaction
    <2> QED
        BY <1>0, <1>1, <1>2, <1>3, <1>4, <1>6, <2>1 DEF Transaction, Answers, Committed
<1>8. Enforcement(c)'
    BY <1>0, <1>1 DEF Enforcement, Answers
<1> QED
    BY <1>0, <1>1, <1>7, <1>8, ClientMoves DEF Answers


LEMMA DraftsKeep ==
    ASSUME ReceiptsInv, NEW c \in Clients, client[c].at = "evaluating", client[c].todo # <<>>,
           Drafts(c), receipts' \in [Receipts -> Receipt], client' \in [Clients -> Client],
           \A d \in Clients \ {c} : client'[d] = client[d],
           UNCHANGED <<events, worker, hist>>
    PROVE  ClientStepKeeps
<1>0. /\ Types /\ DraftsOwned /\ KeysUnique /\ EventsHold
      /\ Transaction(c) /\ Enforcement(c) /\ client[c].todo \in Seq(Item)
      /\ \A d \in Clients : Transaction(d) /\ Enforcement(d)
      /\ \A d \in Clients : client[d].drafts \cup client[d].answer \subseteq Receipts
    BY DEF ReceiptsInv, Types, Client
<1>1. PICK r \in Receipts, rest \in Seq(Item) :
        /\ Answers(c, r, rest)
        /\ client'[c].drafts = client[c].drafts \cup {r}
        /\ receipts[r].status = "absent"
        /\ receipts'[r].status = "draft"
        /\ receipts'[r].key = Head(client[c].todo).key
        /\ receipts'[r].request = Head(client[c].todo).request
        /\ \A s \in Receipts \ {r} : receipts'[s] = receipts[s]
    BY DEF Drafts
<1>2. \A s \in Receipts \ {r} : RowStays(s)
    BY <1>1 DEF RowStays, Committed
<1>3. \A d \in Clients : r \notin client[d].drafts \cup client[d].answer
    BY <1>0, <1>1 DEF Transaction, Committed
<1>4. \A d \in Clients \ {c} : (Transaction(d) /\ Enforcement(d))'
    BY <1>0, <1>2, <1>3, ClientKept
<1>5. /\ \A i \in DOMAIN rest : /\ i \in Nat /\ i + 1 # 1 /\ i + 1 \in DOMAIN client[c].todo
                                /\ rest[i] = client[c].todo[i + 1]
      /\ 1 \in DOMAIN client[c].todo /\ Head(client[c].todo) = client[c].todo[1]
    <2>1. PICK todo \in Seq(Item) : todo = client[c].todo
        BY <1>0
    <2>2. todo # <<>> /\ rest \in {Tail(todo), <<>>}
        BY <1>1, <2>1 DEF Answers
    <2> QED
        BY <2>1, <2>2, RestOfBatch
<1>6. Transaction(c)'
    <2> DEFINE todo == client[c].todo
               asked == client[c].asked
    <2>0. \A s \in client[c].drafts \cup client[c].answer : receipts'[s] = receipts[s]
        BY <1>0, <1>1, <1>3
    <2>1. \A i, j \in DOMAIN rest : i # j => OtherKey(rest[i].key, rest[j].key)
        <3> SUFFICES ASSUME NEW i \in DOMAIN rest, NEW j \in DOMAIN rest, i # j
                     PROVE  OtherKey(rest[i].key, rest[j].key)
            OBVIOUS
        <3>1. i + 1 # j + 1
            BY <1>5
        <3> QED
            BY <1>0, <1>5, <3>1 DEF Transaction
    <2>2. \A i \in DOMAIN rest :
            /\ \E j \in DOMAIN asked : asked[j] = rest[i]
            /\ \A d \in client[c].drafts : OtherKey(receipts'[d].key, rest[i].key)
            /\ OtherKey(receipts'[r].key, rest[i].key)
        <3>1. ASSUME NEW i \in DOMAIN rest
              PROVE  /\ \E j \in DOMAIN asked : asked[j] = rest[i]
                     /\ \A d \in client[c].drafts : OtherKey(receipts[d].key, rest[i].key)
            <4>1. i + 1 \in DOMAIN todo /\ rest[i] = todo[i + 1]
                BY <1>5
            <4>2. \A k \in DOMAIN todo :
                    /\ \E j \in DOMAIN asked : asked[j] = todo[k]
                    /\ \A d \in client[c].drafts : OtherKey(receipts[d].key, todo[k].key)
                BY <1>0 DEF Transaction
            <4> HIDE DEF todo, asked
            <4> QED
                BY <4>1, <4>2
        <3>2. ASSUME NEW i \in DOMAIN rest PROVE OtherKey(receipts'[r].key, rest[i].key)
            BY <1>0, <1>1, <1>5 DEF Transaction
        <3> QED
            BY <2>0, <3>1, <3>2
    <2>3. \E j \in DOMAIN asked : asked[j] = [key |-> receipts'[r].key, request |-> receipts'[r].request]
        <3>1. Head(todo) \in Item
            BY <1>0
        <3>2. [key |-> receipts'[r].key, request |-> receipts'[r].request] = Head(todo)
            BY <1>1, <3>1 DEF Item
        <3> QED
            BY <1>0, <1>5, <3>2 DEF Transaction
    <2>4. \A d \in client[c].drafts :
            /\ receipts'[d].status = "draft"
            /\ OtherKey(receipts'[d].key, receipts'[r].key)
            /\ OtherKey(receipts'[r].key, receipts'[d].key)
        BY <1>0, <1>1, <1>3, <1>5 DEF Transaction, OtherKey
    <2>5. \A d, f \in client[c].drafts : d # f => OtherKey(receipts'[d].key, receipts'[f].key)
        BY <1>0, <1>1, <1>3 DEF Transaction
    <2>6. \A s \in client[c].answer :
            /\ s \in client[c].drafts \/ Committed(s)'
            /\ \E i \in DOMAIN asked :
                asked[i] = [key |-> receipts'[s].key, request |-> receipts'[s].request]
        <3> SUFFICES ASSUME NEW s \in client[c].answer
                     PROVE  /\ s \in client[c].drafts \/ Committed(s)'
                            /\ \E i \in DOMAIN asked :
                                asked[i] = [key |-> receipts'[s].key, request |-> receipts'[s].request]
            OBVIOUS
        <3>1. /\ s \in client[c].drafts \/ Committed(s)
              /\ \E i \in DOMAIN asked :
                    asked[i] = [key |-> receipts[s].key, request |-> receipts[s].request]
            BY <1>0 DEF Transaction
        <3>2. receipts'[s] = receipts[s]
            BY <2>0
        <3> HIDE DEF asked
        <3> QED
            BY <3>1, <3>2 DEF Committed
    <2>7. /\ client'[c].at = "evaluating" /\ client'[c].todo = rest
          /\ client'[c].asked = asked /\ client'[c].answer = client[c].answer \cup {r}
          /\ client'[c].drafts = client[c].drafts \cup {r} /\ receipts'[r].status = "draft"
        BY <1>1 DEF Answers
    <2> HIDE DEF asked, todo
    <2> QED
        BY <2>1, <2>2, <2>3, <2>4, <2>5, <2>6, <2>7 DEF Transaction
<1>7. Enforcement(c)'
    BY <1>0, <1>1 DEF Enforcement, Answers
<1>8. DraftsOwned'
    <2>1. /\ client'[c].drafts = client[c].drafts \cup {r} /\ client'[c].at = client[c].at
          /\ \A d \in Clients \ {c} : client'[d] = client[d]
        BY <1>1 DEF Answers
    <2>2. \A d, f \in Clients : d # f => client'[d].drafts \cap client'[f].drafts = {}
        BY <1>0, <1>3, <2>1 DEF DraftsOwned
    <2>3. ASSUME NEW s \in Receipts, receipts'[s].status = "draft"
          PROVE  \E d \in Clients : client'[d].at = "evaluating" /\ s \in client'[d].drafts
        <3>1. CASE s = r
            BY <1>1, <2>1, <3>1
        <3>2. CASE s # r
            <4>1. PICK d \in Clients : client[d].at = "evaluating" /\ s \in client[d].drafts
                BY <1>0, <1>1, <2>3, <3>2 DEF DraftsOwned
            <4>2. client'[d].at = client[d].at /\ client[d].drafts \subseteq client'[d].drafts
                BY <2>1
            <4> QED
                BY <4>1, <4>2
        <3> QED
            BY <3>1, <3>2
    <2> QED
        BY <2>2, <2>3 DEF DraftsOwned
<1>9. KeysUnique'
    BY <1>0, <1>1 DEF KeysUnique, Stored
<1>10. EventsHold'
    <2>1. \A d \in Clients : client[d].ran => client'[d].ran
        BY <1>1 DEF Answers
    <2>2. \A s \in Receipts : Committed(s) => RowStays(s)
        BY <1>1, <1>2 DEF Committed
    <2> QED
        BY <1>0, <2>1, <2>2, EventsKept DEF EventsHold
<1>11. Types'
    BY <1>0 DEF Types
<1> QED
    BY <1>4, <1>6, <1>7, <1>8, <1>9, <1>10, <1>11 DEF ClientStepKeeps

\* A transaction ends: its drafts become committed rows or none, and the rows
\* and clients it does not own stay.
LEMMA EndKeeps ==
    ASSUME ReceiptsInv, NEW c \in Clients, client[c].at = "evaluating", NEW row \in Client,
           client' = [client EXCEPT ![c] = row], row.drafts = {},
           receipts' \in [Receipts -> Receipt],
           \A r \in Receipts \ client[c].drafts : receipts'[r] = receipts[r],
           \A r \in client[c].drafts : receipts'[r].status # "draft",
           UNCHANGED <<events, worker, hist>>,
           KeysUnique', Transaction(c)', Enforcement(c)'
    PROVE  ClientStepKeeps
<1>0. /\ Types /\ DraftsOwned /\ KeysUnique /\ EventsHold
      /\ Transaction(c) /\ Enforcement(c)
      /\ \A d \in Clients : Transaction(d) /\ Enforcement(d)
      /\ \A d \in Clients : client[d].drafts \cup client[d].answer \subseteq Receipts
    BY DEF ReceiptsInv, Types, Client
<1>1. /\ client' \in [Clients -> Client] /\ client'[c] = row
      /\ \A d \in Clients \ {c} : client'[d] = client[d]
    BY <1>0, ClientWritten
<1>2. \A r \in Receipts \ client[c].drafts : RowStays(r)
    BY DEF RowStays, Committed
<1>3. \A r \in client[c].drafts : receipts[r].status = "draft"
    BY <1>0 DEF Transaction
<1>4. ASSUME NEW d \in Clients \ {c} PROVE (Transaction(d) /\ Enforcement(d))'
    <2>1. client[c].drafts \cap client[d].drafts = {}
        BY <1>0 DEF DraftsOwned
    <2>2. \A r \in client[d].drafts \cup client[d].answer : r \in Receipts \ client[c].drafts
        <3>0. Transaction(d)
            BY <1>0
        <3>1. \A r \in client[d].answer : r \in client[d].drafts \/ receipts[r].status # "draft"
            BY ONLY <3>0 DEF Transaction, Committed
        <3>2. client[d].drafts \cup client[d].answer \subseteq Receipts
            BY <1>0
        <3> QED
            BY ONLY <1>3, <2>1, <3>1, <3>2
    <2>3. Types /\ Transaction(d) /\ Enforcement(d) /\ UNCHANGED client[d]
        BY <1>0, <1>1
    <2>4. \A r \in client[d].drafts \cup client[d].answer : RowStays(r)
        BY <1>2, <2>2
    <2> QED
        BY <2>3, <2>4, ClientKept
<1>5. DraftsOwned'
    <2>1. \A d \in Clients, f \in Clients : d # f => client'[d].drafts \cap client'[f].drafts = {}
        BY <1>0, <1>1 DEF DraftsOwned
    <2>2. ASSUME NEW r \in Receipts, receipts'[r].status = "draft"
          PROVE  \E d \in Clients : client'[d].at = "evaluating" /\ r \in client'[d].drafts
        <3>1. r \notin client[c].drafts /\ receipts[r].status = "draft"
            BY <2>2
        <3>2. PICK d \in Clients : client[d].at = "evaluating" /\ r \in client[d].drafts
            BY <1>0, <3>1 DEF DraftsOwned
        <3> QED
            BY <1>1, <3>1, <3>2
    <2> QED
        BY <2>1, <2>2 DEF DraftsOwned
<1>6. EventsHold'
    <2>1. ~client[c].ran
        BY <1>0 DEF Enforcement
    <2>2. \A d \in Clients : client[d].ran => client'[d].ran
        BY <1>1, <2>1
    <2>3. \A r \in Receipts : Committed(r) => RowStays(r)
        BY <1>2, <1>3 DEF Committed
    <2> QED
        BY <1>0, <2>2, <2>3, EventsKept DEF EventsHold
<1>7. Types'
    BY <1>0, <1>1 DEF Types
<1> QED
    BY <1>4, <1>5, <1>6, <1>7 DEF ClientStepKeeps

LEMMA RejectedKeeps ==
    ASSUME ReceiptsInv, NEW c \in Clients, client[c].at = "evaluating", Rejected(c)
    PROVE  ClientStepKeeps
<1>0. /\ Types /\ Transaction(c) /\ KeysUnique /\ receipts \in [Receipts -> Receipt]
    BY DEF ReceiptsInv, Types
<1> DEFINE row == [IdleClient EXCEPT !.at = "done"]
<1>1. /\ receipts' = [r \in Receipts |-> IF r \in client[c].drafts THEN NoReceipt ELSE receipts[r]]
      /\ client' = [client EXCEPT ![c] = row]
      /\ UNCHANGED <<events, worker, hist>>
    BY DEF Rejected
<1>2. /\ row \in Client /\ row.at = "done" /\ row.drafts = {} /\ row.answer = {}
      /\ row.todo = <<>> /\ ~row.ran /\ row.outcome = "rejected"
    <2>1. row \in Client
        BY RowTypes DEF Client
    <2>2. /\ row.at = "done" /\ row.drafts = {} /\ row.answer = {}
          /\ row.todo = <<>> /\ ~row.ran /\ row.outcome = "rejected"
        BY DEF IdleClient
    <2> QED
        BY <2>1, <2>2
<1> HIDE DEF row
<1>3. /\ receipts' \in [Receipts -> Receipt]
      /\ \A r \in Receipts \ client[c].drafts : receipts'[r] = receipts[r]
      /\ \A r \in client[c].drafts \cap Receipts : receipts'[r].status = "absent"
    BY <1>0, <1>1, RowTypes
<1>4. client[c].drafts \subseteq Receipts /\ client'[c] = row
    BY <1>0, <1>1, <1>2, ClientWritten DEF Types, Client
<1>5. KeysUnique'
    <2>1. \A r \in Receipts : receipts'[r] = receipts[r] \/ receipts'[r].status = "absent"
        BY <1>3
    <2> QED
        BY <1>0, <2>1 DEF KeysUnique, Stored
<1>6. Transaction(c)' /\ Enforcement(c)'
    BY <1>2, <1>4 DEF Transaction, Enforcement
<1> QED
    BY <1>1, <1>2, <1>3, <1>4, <1>5, <1>6, EndKeeps


LEMMA CommitKeeps ==
    ASSUME ReceiptsInv, NEW c \in Clients, CommitEvaluations(c)
    PROVE  ClientStepKeeps
<1>0. /\ Types /\ Transaction(c) /\ Enforcement(c) /\ KeysUnique
      /\ receipts \in [Receipts -> Receipt] /\ client[c] \in Client
      /\ client[c].drafts \subseteq Receipts /\ client[c].answer \subseteq Receipts
      /\ client[c].at = "evaluating" /\ client[c].todo = <<>>
    BY DEF ReceiptsInv, Types, Client, CommitEvaluations
<1>1. CASE Rejected(c)
    BY <1>0, <1>1, RejectedKeeps
<1>2. CASE ~Rejected(c)
    <2> DEFINE after(r) == IF r \in client[c].drafts
                           THEN [receipts[r] EXCEPT !.status = Issued(r)]
                           ELSE receipts[r]
               row == [client[c] EXCEPT !.at = "answered", !.drafts = {}]
    <2>1. /\ ~DuplicateKey(c)
          /\ receipts' = [r \in Receipts |-> after(r)]
          /\ client' = [client EXCEPT ![c] = row]
          /\ UNCHANGED <<events, worker, hist>>
        BY <1>2 DEF CommitEvaluations
    <2>2. ASSUME NEW r \in Receipts
          PROVE  /\ after(r) \in Receipt
                 /\ after(r).key = receipts[r].key /\ after(r).request = receipts[r].request
                 /\ r \notin client[c].drafts => after(r) = receipts[r]
                 /\ r \in client[c].drafts => after(r).status \in {"pending", "unsigned"}
        <3>1. Issued(r) \in {"pending", "unsigned"} /\ receipts[r] \in Receipt
            BY <1>0 DEF Issued
        <3>2. CASE r \in client[c].drafts
            <4>1. after(r) = [receipts[r] EXCEPT !.status = Issued(r)]
                BY <3>2
            <4> HIDE DEF after
            <4> QED
                BY <3>1, <3>2, <4>1 DEF Receipt, Status
        <3>3. CASE r \notin client[c].drafts
            BY <3>1, <3>3
        <3> QED
            BY <3>2, <3>3
    <2>3. /\ row \in Client /\ row.at = "answered" /\ row.drafts = {} /\ row.todo = <<>>
          /\ row.answer = client[c].answer /\ row.asked = client[c].asked
          /\ row.ran = client[c].ran /\ row.outcome = client[c].outcome
        BY <1>0 DEF Client
    <2> HIDE DEF after, row
    <2>4. receipts' \in [Receipts -> Receipt] /\ \A r \in Receipts : receipts'[r] = after(r)
        BY <2>1, <2>2
    <2>5. client'[c] = row
        BY <1>0, <2>1, <2>3, ClientWritten
    <2>6. \A r \in client[c].drafts : receipts[r].status = "draft"
        BY <1>0 DEF Transaction
    <2>7. KeysUnique'
        <3>1. ASSUME NEW r \in client[c].drafts, NEW s \in Stored
              PROVE  OtherKey(receipts[r].key, receipts[s].key) /\ OtherKey(receipts[s].key, receipts[r].key)
            BY <2>1 DEF DuplicateKey, Existing, OtherKey
        <3>2. \A r, s \in client[c].drafts : r # s => OtherKey(receipts[r].key, receipts[s].key)
            BY <1>0 DEF Transaction
        <3>3. \A r, s \in Stored : r # s => OtherKey(receipts[r].key, receipts[s].key)
            BY <1>0 DEF KeysUnique
        <3>4. \A r \in Stored' : r \in Receipts /\ r \in client[c].drafts \cup Stored
            BY <2>2, <2>4 DEF Stored
        <3>5. \A r, s \in client[c].drafts \cup Stored :
                r # s => OtherKey(receipts[r].key, receipts[s].key)
            BY <3>1, <3>2, <3>3
        <3> QED
            BY <2>2, <2>4, <3>4, <3>5 DEF KeysUnique
    <2>8. Transaction(c)'
        <3>1. ASSUME NEW r \in client[c].answer
              PROVE  /\ Committed(r)'
                     /\ \E i \in DOMAIN client[c].asked : client[c].asked[i] =
                            [key |-> receipts'[r].key, request |-> receipts'[r].request]
            <4>1. /\ r \in client[c].drafts \/ Committed(r)
                  /\ \E i \in DOMAIN client[c].asked : client[c].asked[i] =
                        [key |-> receipts[r].key, request |-> receipts[r].request]
                BY <1>0 DEF Transaction
            <4>2. /\ r \in Receipts /\ receipts'[r] = after(r)
                  /\ receipts'[r].key = receipts[r].key /\ receipts'[r].request = receipts[r].request
                BY <1>0, <2>2, <2>4
            <4> QED
                BY <2>2, <4>1, <4>2 DEF Committed
        <3> QED
            BY <2>3, <2>5, <3>1 DEF Transaction
    <2>9. Enforcement(c)'
        BY <1>0, <2>3, <2>5 DEF Enforcement, Transaction
    <2>10. /\ \A r \in Receipts \ client[c].drafts : receipts'[r] = receipts[r]
           /\ \A r \in client[c].drafts : receipts'[r].status # "draft"
        BY <1>0, <2>2, <2>4
    <2> QED
        BY <1>0, <2>1, <2>3, <2>4, <2>7, <2>8, <2>9, <2>10, EndKeeps
<1> QED
    BY <1>1, <1>2

\* The handlers of an enforcement point.
LEMMA HandleKeeps ==
    ASSUME ReceiptsInv, NEW c \in Clients, HandleObligations(c)
    PROVE  ClientStepKeeps
<1>0. /\ Types /\ Transaction(c) /\ Enforcement(c) /\ client[c] \in Client
      /\ receipts \in [Receipts -> Receipt] /\ client[c].answer \subseteq Receipts
      /\ client[c].at = "answered"
      /\ UNCHANGED <<receipts, events, worker, hist>>
    BY DEF ReceiptsInv, Types, Client, HandleObligations, Single
<1>1. Past(c) /\ client[c].answer # {} /\ ~client[c].ran
    BY <1>0 DEF Past, Enforcement
<1>2. Receipt1(c) \in Receipts /\ receipts[Receipt1(c)].duties \subseteq Obligations
    <2>1. Receipt1(c) \in client[c].answer
        BY <1>1 DEF Receipt1
    <2> QED
        BY <1>0, <2>1 DEF Receipt
<1>3. ASSUME NEW outcome \in Outcomes \ {"applied"}, NEW satisfied \in SUBSET Obligations,
             client' = [client EXCEPT ![c] = Reporting(c, outcome, satisfied)]
      PROVE  ClientStepKeeps
    <2> DEFINE row == Reporting(c, outcome, satisfied)
    <2>1. /\ row \in Client /\ row.at = "report"
          /\ row.outcome = outcome /\ row.satisfied = satisfied
          /\ row.asked = client[c].asked /\ row.todo = client[c].todo
          /\ row.drafts = client[c].drafts /\ row.answer = client[c].answer
          /\ row.ran = client[c].ran
        BY <1>0, ReportTypes
    <2>2. client' = [client EXCEPT ![c] = row]
        BY <1>3
    <2> HIDE DEF row
    <2>3. client'[c] = row
        BY <1>0, <2>1, <2>2, ClientWritten
    <2>4. Transaction(c)' /\ UNCHANGED Receipt1(c)
        BY <1>0, <1>1, <2>1, <2>3, PastKeeps
    <2>5. Enforcement(c)'
        BY <1>0, <1>1, <2>1, <2>3 DEF Enforcement
    <2> QED
        BY <1>0, <2>1, <2>2, <2>4, <2>5, ClientMoves
<1>4. ASSUME NEW satisfied \in SUBSET Obligations,
             MayHandle(c), satisfied = receipts[Receipt1(c)].duties,
             client' = [client EXCEPT ![c] =
                [client[c] EXCEPT !.at = "operate", !.satisfied = satisfied]]
      PROVE  ClientStepKeeps
    <2> DEFINE row == [client[c] EXCEPT !.at = "operate", !.satisfied = satisfied]
    <2>1. /\ row \in Client /\ row.at = "operate"
          /\ row.outcome = client[c].outcome /\ row.satisfied = satisfied
          /\ row.asked = client[c].asked /\ row.todo = client[c].todo
          /\ row.drafts = client[c].drafts /\ row.answer = client[c].answer
          /\ row.ran = client[c].ran
        BY <1>0 DEF Client
    <2>2. client' = [client EXCEPT ![c] = row]
        BY <1>4
    <2> HIDE DEF row
    <2>3. client'[c] = row
        BY <1>0, <2>1, <2>2, ClientWritten
    <2>4. Transaction(c)' /\ UNCHANGED Receipt1(c)
        BY <1>0, <1>1, <2>1, <2>3, PastKeeps
    <2>5. Entitled(c)'
        BY <1>0, <1>4, <2>1, <2>3, <2>4 DEF Entitled, MayHandle
    <2>6. Enforcement(c)'
        BY <1>0, <1>1, <2>1, <2>3, <2>5 DEF Enforcement
    <2> QED
        BY <1>0, <2>1, <2>2, <2>4, <2>6, ClientMoves
<1>5. \/ client' = [client EXCEPT ![c] = Reporting(c, "rejected", {})]
      \/ \E satisfied \in SUBSET receipts[Receipt1(c)].duties :
            \/ client' = [client EXCEPT ![c] = Reporting(c, "failed", satisfied)]
            \/ /\ MayHandle(c) /\ satisfied = receipts[Receipt1(c)].duties
               /\ client' = [client EXCEPT ![c] =
                    [client[c] EXCEPT !.at = "operate", !.satisfied = satisfied]]
    BY DEF HandleObligations
<1>6. "rejected" \in Outcomes \ {"applied"} /\ "failed" \in Outcomes \ {"applied"}
    BY DEF Outcomes
<1>7. client' = [client EXCEPT ![c] = Reporting(c, "rejected", {})] => ClientStepKeeps
    <2>1. {} \in SUBSET Obligations
        OBVIOUS
    <2> QED
        BY <1>3, <1>6, <2>1
<1>8. ASSUME NEW satisfied \in SUBSET receipts[Receipt1(c)].duties,
             \/ client' = [client EXCEPT ![c] = Reporting(c, "failed", satisfied)]
             \/ /\ MayHandle(c) /\ satisfied = receipts[Receipt1(c)].duties
                /\ client' = [client EXCEPT ![c] =
                    [client[c] EXCEPT !.at = "operate", !.satisfied = satisfied]]
      PROVE  ClientStepKeeps
    <2>1. satisfied \in SUBSET Obligations
        BY <1>2
    <2>2. CASE client' = [client EXCEPT ![c] = Reporting(c, "failed", satisfied)]
        BY <1>3, <1>6, <2>1, <2>2
    <2>3. CASE /\ MayHandle(c) /\ satisfied = receipts[Receipt1(c)].duties
               /\ client' = [client EXCEPT ![c] =
                    [client[c] EXCEPT !.at = "operate", !.satisfied = satisfied]]
        BY <1>4, <2>1, <2>3
    <2> QED
        BY <1>8, <2>2, <2>3
<1> QED
    BY <1>5, <1>7, <1>8

\* The protected operation of an enforcement point.
LEMMA OperateKeeps ==
    ASSUME ReceiptsInv, NEW c \in Clients, Operate(c)
    PROVE  ClientStepKeeps
<1>0. /\ Types /\ Transaction(c) /\ Enforcement(c) /\ client[c] \in Client
      /\ client[c].satisfied \in SUBSET Obligations
      /\ client[c].at = "operate" /\ Past(c) /\ client[c].answer # {}
      /\ UNCHANGED <<receipts, events, worker, hist>>
      /\ Entitled(c) /\ ~client[c].ran
    BY DEF ReceiptsInv, Types, Client, Operate, Past, Enforcement
<1>1. ASSUME NEW outcome \in Outcomes, NEW ran \in BOOLEAN, ran = (outcome = "applied"),
             NEW row \in Client, client' = [client EXCEPT ![c] = row],
             row.at = "report" /\ row.outcome = outcome /\ row.ran = ran,
             row.satisfied = client[c].satisfied,
             row.asked = client[c].asked /\ row.todo = client[c].todo,
             row.drafts = client[c].drafts /\ row.answer = client[c].answer
      PROVE  ClientStepKeeps
    <2>1. client'[c] = row
        BY <1>0, <1>1, ClientWritten
    <2>2. Transaction(c)' /\ UNCHANGED Receipt1(c)
        BY <1>0, <1>1, <2>1, PastKeeps
    <2>3. Entitled(c)'
        BY <1>0, <1>1, <2>1, <2>2 DEF Entitled
    <2>4. Enforcement(c)'
        BY <1>0, <1>1, <2>1, <2>3 DEF Enforcement
    <2> QED
        BY <1>0, <1>1, <2>2, <2>4, ClientMoves
<1>2. ASSUME client' = [client EXCEPT ![c] = Reporting(c, "failed", client[c].satisfied)]
      PROVE  ClientStepKeeps
    <2> DEFINE row == Reporting(c, "failed", client[c].satisfied)
    <2>1. /\ row \in Client /\ row.at = "report"
          /\ row.outcome = "failed" /\ row.satisfied = client[c].satisfied
          /\ row.asked = client[c].asked /\ row.todo = client[c].todo
          /\ row.drafts = client[c].drafts /\ row.answer = client[c].answer
          /\ row.ran = client[c].ran
        <3>1. "failed" \in Outcomes
            BY DEF Outcomes
        <3> QED
            BY <1>0, <3>1, ReportTypes
    <2>2. client' = [client EXCEPT ![c] = row]
        BY <1>2
    <2>3. row.ran = FALSE
        BY <1>0, <2>1 DEF Client
    <2> HIDE DEF row
    <2> QED
        BY <1>1, <2>1, <2>2, <2>3 DEF Outcomes
<1>3. ASSUME client' = [client EXCEPT ![c] =
                [Reporting(c, "applied", client[c].satisfied) EXCEPT !.ran = TRUE]]
      PROVE  ClientStepKeeps
    <2> DEFINE report == Reporting(c, "applied", client[c].satisfied)
               row == [report EXCEPT !.ran = TRUE]
    <2>1. /\ report \in Client /\ report.at = "report"
          /\ report.outcome = "applied" /\ report.satisfied = client[c].satisfied
          /\ report.asked = client[c].asked /\ report.todo = client[c].todo
          /\ report.drafts = client[c].drafts /\ report.answer = client[c].answer
        <3>1. "applied" \in Outcomes
            BY DEF Outcomes
        <3> QED
            BY <1>0, <3>1, ReportTypes
    <2>2. client' = [client EXCEPT ![c] = row]
        BY <1>3
    <2> HIDE DEF report
    <2>3. /\ row \in Client /\ row.at = "report" /\ row.ran = TRUE
          /\ row.outcome = "applied" /\ row.satisfied = client[c].satisfied
          /\ row.asked = client[c].asked /\ row.todo = client[c].todo
          /\ row.drafts = client[c].drafts /\ row.answer = client[c].answer
        BY <2>1 DEF Client
    <2> HIDE DEF row
    <2> QED
        BY <1>1, <2>2, <2>3 DEF Outcomes
<1> QED
    BY <1>2, <1>3 DEF Operate


LEMMA ReportKeeps ==
    ASSUME ReceiptsInv, NEW c \in Clients, NEW outcome \in Outcomes,
           NEW satisfied \in SUBSET Obligations, ReportAnything(c, outcome, satisfied)
    PROVE  ClientStepKeeps
<1>0. /\ Types /\ Transaction(c) /\ Enforcement(c) /\ client[c] \in Client
      /\ client[c].at = "answered" /\ Past(c) /\ c \notin SDK
      /\ UNCHANGED <<receipts, events, worker, hist>>
    BY DEF ReceiptsInv, Types, ReportAnything, Single, Past
<1> DEFINE row == Reporting(c, outcome, satisfied)
<1>1. /\ row \in Client /\ row.at = "report"
      /\ row.outcome = outcome /\ row.satisfied = satisfied
      /\ row.asked = client[c].asked /\ row.todo = client[c].todo
      /\ row.drafts = client[c].drafts /\ row.answer = client[c].answer
      /\ row.ran = client[c].ran
    BY <1>0, ReportTypes
<1>2. client' = [client EXCEPT ![c] = row]
    BY DEF ReportAnything
<1> HIDE DEF row
<1>3. client'[c] = row
    BY <1>0, <1>1, <1>2, ClientWritten
<1>4. Transaction(c)'
    BY <1>0, <1>1, <1>3, PastKeeps
<1>5. Enforcement(c)'
    BY <1>0, <1>1, <1>3 DEF Enforcement
<1> QED
    BY <1>0, <1>1, <1>2, <1>4, <1>5, ClientMoves

LEMMA LookupKeeps ==
    ASSUME ReceiptsInv, NEW c \in Clients, NEW e \in Events, LookupEvent(c, e)
    PROVE  ClientStepKeeps
<1>0. /\ Types /\ Transaction(c) /\ Enforcement(c) /\ client[c] \in Client
      /\ client[c].at = "report" /\ Past(c)
      /\ UNCHANGED <<receipts, events, worker, hist>>
    BY DEF ReceiptsInv, Types, LookupEvent, Past
<1>1. ASSUME NEW row \in Client, client' = [client EXCEPT ![c] = row],
             row.at = "done" \/ (row.at = "record" /\ Acceptable(c)),
             row.outcome = client[c].outcome, row.satisfied = client[c].satisfied,
             row.asked = client[c].asked /\ row.todo = client[c].todo,
             row.drafts = client[c].drafts /\ row.answer = client[c].answer,
             row.ran = client[c].ran
      PROVE  ClientStepKeeps
    <2>1. client'[c] = row
        BY <1>0, <1>1, ClientWritten
    <2>2. Transaction(c)' /\ UNCHANGED Receipt1(c)
        BY <1>0, <1>1, <2>1, PastKeeps
    <2>3. Entitled(c) => Entitled(c)'
        BY <1>0, <1>1, <2>1, <2>2 DEF Entitled
    <2>4. Acceptable(c) /\ client[c].outcome = "applied" => Entitled(c)
        BY DEF Acceptable, Entitled
    <2>5. Enforcement(c)'
        BY <1>0, <1>1, <2>1, <2>3, <2>4 DEF Enforcement
    <2> QED
        BY <1>0, <1>1, <2>2, <2>5, ClientMoves
<1>2. CASE Acceptable(c) /\ events[e] = {}
    <2> DEFINE row == [client[c] EXCEPT !.at = "record", !.event = {e}]
    <2>1. client' = [client EXCEPT ![c] = row]
        BY <1>2 DEF LookupEvent
    <2>2. /\ row \in Client /\ row.at = "record"
          /\ row.outcome = client[c].outcome /\ row.satisfied = client[c].satisfied
          /\ row.asked = client[c].asked /\ row.todo = client[c].todo
          /\ row.drafts = client[c].drafts /\ row.answer = client[c].answer
          /\ row.ran = client[c].ran
        BY <1>0 DEF Client
    <2> HIDE DEF row
    <2> QED
        BY <1>1, <1>2, <2>1, <2>2
<1>3. CASE ~(Acceptable(c) /\ events[e] = {})
    <2> DEFINE row == [client[c] EXCEPT !.at = "done"]
    <2>1. client' = [client EXCEPT ![c] = row]
        BY <1>3 DEF LookupEvent
    <2>2. /\ row \in Client /\ row.at = "done"
          /\ row.outcome = client[c].outcome /\ row.satisfied = client[c].satisfied
          /\ row.asked = client[c].asked /\ row.todo = client[c].todo
          /\ row.drafts = client[c].drafts /\ row.answer = client[c].answer
          /\ row.ran = client[c].ran
        BY <1>0 DEF Client
    <2> HIDE DEF row
    <2>3. row.at = "done" \/ (row.at = "record" /\ Acceptable(c))
        BY <2>2
    <2> QED
        BY <1>1, <2>1, <2>2, <2>3
<1> QED
    BY <1>2, <1>3

\* What was true of an answer when its evidence is inserted is true of the row.
LEMMA RecordKeeps ==
    ASSUME ReceiptsInv, NEW c \in Clients, record_enforcement_event(c)
    PROVE  ClientStepKeeps
<1>0. /\ Types /\ DraftsOwned /\ KeysUnique /\ EventsHold
      /\ Transaction(c) /\ Enforcement(c) /\ client[c] \in Client
      /\ \A d \in Clients : Transaction(d) /\ Enforcement(d)
      /\ \A d \in Clients : client[d].drafts \cup client[d].answer \subseteq Receipts
      /\ client[c].at = "record" /\ Past(c) /\ client[c].answer # {}
      /\ UNCHANGED <<receipts, worker, hist>>
    BY DEF ReceiptsInv, Types, Client, record_enforcement_event, Past, Enforcement
<1> DEFINE row == [client[c] EXCEPT !.at = "done"]
<1>1. client' = [client EXCEPT ![c] = row]
    BY <1>0 DEF record_enforcement_event
<1>2. /\ row \in Client /\ row.at = "done"
      /\ row.outcome = client[c].outcome /\ row.satisfied = client[c].satisfied
      /\ row.asked = client[c].asked /\ row.todo = client[c].todo
      /\ row.drafts = client[c].drafts /\ row.answer = client[c].answer
      /\ row.ran = client[c].ran
    BY <1>0 DEF Client
<1> HIDE DEF row
<1>3. /\ client' \in [Clients -> Client] /\ client'[c] = row
      /\ \A d \in Clients \ {c} : client'[d] = client[d]
    BY <1>0, <1>1, <1>2, ClientWritten
<1>4. Transaction(c)' /\ UNCHANGED Receipt1(c)
    BY <1>0, <1>2, <1>3, PastKeeps
<1>5. Entitled(c) => Entitled(c)'
    BY <1>0, <1>2, <1>3, <1>4 DEF Entitled
<1>6. Enforcement(c)'
    BY <1>0, <1>2, <1>3, <1>5 DEF Enforcement
<1>7. \A r \in Receipts : RowStays(r)
    BY <1>0 DEF RowStays, Committed
<1>8. ASSUME NEW d \in Clients PROVE (Transaction(d) /\ Enforcement(d))'
    <2>1. CASE d = c
        BY <1>4, <1>6, <2>1
    <2>2. CASE d # c
        BY <1>0, <1>3, <1>7, <2>2, ClientKept
    <2> QED
        BY <2>1, <2>2
<1>9. DraftsOwned' /\ KeysUnique'
    <2>1. \A d \in Clients : client'[d].drafts = client[d].drafts
        BY <1>2, <1>3
    <2>2. \A d \in Clients : client[d].drafts # {} => client'[d].at = "evaluating"
        BY <1>8, <2>1 DEF Transaction
    <2> QED
        BY <1>0, <1>7, <2>1, <2>2, KeysKept DEF DraftsOwned
<1>10. Receipt1(c) \in Receipts /\ Committed(Receipt1(c))
    <2>1. Receipt1(c) \in client[c].answer
        BY <1>0 DEF Receipt1
    <2> QED
        BY <1>0, <2>1 DEF Transaction
<1>11. /\ Report(c) \in Event /\ Report(c).receipt = Receipt1(c) /\ Report(c).pep = c
       /\ Report(c).outcome = client[c].outcome /\ Report(c).satisfied = client[c].satisfied
    BY <1>0, <1>10 DEF Report, Event, Client
<1>12. ASSUME NEW e \in Events
       PROVE  events'[e] = events[e] \/ events'[e] = {Report(c)}
    BY DEF record_enforcement_event, Insert
<1>13. Types'
    <2>1. events' \in [Events -> SUBSET Event]
        <3>1. events' = [e \in Events |-> IF e \in client[c].event THEN Insert(c, e) ELSE events[e]]
            BY DEF record_enforcement_event
        <3>2. \A e \in Events : events'[e] \in SUBSET Event
            BY <1>0, <1>11, <1>12 DEF Types
        <3> QED
            BY <3>1, <3>2
    <2>2. \A e \in Events : events'[e] = {} \/ \E v \in Event : events'[e] = {v}
        BY <1>0, <1>11, <1>12 DEF Types
    <2> QED
        BY <1>0, <1>3, <2>1, <2>2 DEF Types
<1>14. EventsHold'
    <2>1. \A d \in Clients : client[d].ran => client'[d].ran
        BY <1>2, <1>3
    <2>2. \A r \in Receipts : Committed(r) => RowStays(r)
        BY <1>7
    <2> SUFFICES ASSUME NEW e \in Events, NEW v \in events'[e]
                 PROVE  /\ Committed(v.receipt)'
                        /\ v.outcome = "applied" =>
                            /\ receipts'[v.receipt].permit
                            /\ v.satisfied = receipts'[v.receipt].duties
                            /\ v.pep \in SDK => client'[v.pep].ran
        BY DEF EventsHold
    <2>3. CASE v \in events[e]
        BY <1>0, <2>1, <2>2, <2>3, EventsKept
    <2>4. CASE v = Report(c)
        <3>1. Committed(v.receipt)'
            BY <1>0, <1>10, <1>11, <2>4 DEF Committed
        <3>2. v.outcome = "applied" => Entitled(c) /\ (c \in SDK => client[c].ran)
            BY <1>0, <1>11, <2>4 DEF Enforcement
        <3> QED
            BY <1>0, <1>2, <1>3, <1>11, <2>4, <3>1, <3>2 DEF Entitled
    <2> QED
        BY <1>12, <2>3, <2>4
<1> QED
    BY <1>8, <1>9, <1>13, <1>14 DEF ClientStepKeeps

LEMMA ClientsKeepAnswers ==
    ASSUME ReceiptsInv, NEW c \in Clients, ClientActs(c)
    PROVE  ClientStepKeeps
<1>1. ASSUME NEW n \in 1..(IF c \in Batches THEN MaxBatch ELSE 1), NEW items \in [1..n -> Asks],
             BeginEvaluations(c, items)
      PROVE  ClientStepKeeps
    <2>1. n \in Nat \ {0}
        BY ReceiptsAssumption
    <2> QED
        BY <1>1, <2>1, BeginKeeps
<1>2. ASSUME evaluate_access(c) PROVE ClientStepKeeps
    <2>1. Types
        BY DEF ReceiptsInv
    <2> QED
        BY <1>2, <2>1, EvaluationSteps, RejectedKeeps, ReusesKeep, DraftsKeep
<1> QED
    BY <1>1, <1>2, CommitKeeps, HandleKeeps, OperateKeeps, LookupKeeps, RecordKeeps, ReportKeeps
       DEF ClientActs, ClientStep



-----------------------------------------------------------------------------
\* What the step of a worker or of the clock has to establish besides.
WorkerKeeps ==
    /\ worker' \in [Workers -> Worker] /\ hist' \in History
    /\ ClaimsHold'

\* Worker w moves to row: the rows that others hold or are about to purge stay
\* as they are wanted, and so do the ones w holds or is about to purge then.
LEMMA ClaimsMove ==
    ASSUME Types, ClaimsHold, NEW w \in Workers, NEW row \in Worker,
           worker' = [worker EXCEPT ![w] = row],
           hist' \in History, hist'.timely = hist.timely,
           hist.timely => \A v \in Workers \ {w} :
                /\ \A r \in worker[v].held : InHand(r)'
                /\ worker[v].at = "purging" => \A r \in worker[v].todo : Due(r)',
           row.at \notin {"claimed", "signing"} => row.held = {},
           hist.timely => \A r \in row.held :
                InHand(r)' /\ \A v \in Workers \ {w} : r \notin worker[v].held,
           hist.timely /\ row.at = "purging" => \A r \in row.todo : Due(r)'
    PROVE  WorkerKeeps
<1>1. /\ worker' \in [Workers -> Worker] /\ worker'[w] = row
      /\ \A v \in Workers \ {w} : worker'[v] = worker[v]
    BY DEF Types
<1>2. \A v \in Workers : worker'[v].at \notin {"claimed", "signing"} => worker'[v].held = {}
    BY <1>1 DEF ClaimsHold
<1>3. ASSUME NEW v \in Workers, hist.timely
      PROVE  /\ \A r \in worker'[v].held :
                InHand(r)' /\ \A u \in Workers : u # v => r \notin worker'[u].held
             /\ worker'[v].at = "purging" => \A r \in worker'[v].todo : Due(r)'
    <2>1. CASE v = w
        BY <1>1, <1>3, <2>1
    <2>2. CASE v # w
        <3>1. /\ \A r \in worker[v].held : InHand(r)'
              /\ worker[v].at = "purging" => \A r \in worker[v].todo : Due(r)'
            BY <1>3, <2>2
        <3>2. \A r \in worker[v].held : r \notin row.held
            BY <1>3, <2>2
        <3>3. \A r \in worker[v].held : \A u \in Workers : u # v => r \notin worker[u].held
            BY <1>3 DEF ClaimsHold
        <3>4. \A r \in worker[v].held : \A u \in Workers : u # v => r \notin worker'[u].held
            BY <1>1, <3>2, <3>3
        <3> QED
            BY <1>1, <2>2, <3>1, <3>4
    <2> QED
        BY <2>1, <2>2
<1> QED
    BY <1>1, <1>2, <1>3 DEF WorkerKeeps, ClaimsHold

\* A worker gives up what it held, and no row changes.
LEMMA WorkerEnds ==
    ASSUME Types, ClaimsHold, NEW w \in Workers, NEW row \in Worker,
           worker' = [worker EXCEPT ![w] = row], row.held = {}, row.at # "purging",
           hist' \in History, hist'.timely = hist.timely, UNCHANGED receipts
    PROVE  WorkerKeeps
<1>1. hist.timely => \A v \in Workers \ {w} :
        /\ \A r \in worker[v].held : InHand(r)'
        /\ worker[v].at = "purging" => \A r \in worker[v].todo : Due(r)'
    BY DEF ClaimsHold, InHand, Due, Committed
<1> QED
    BY <1>1, ClaimsMove

LEMMA BeginSigningKeeps ==
    ASSUME Types, ClaimsHold, NEW w \in Workers, BeginSigning(w)
    PROVE  WorkerKeeps
<1> DEFINE after(r) == IF Stale(r) THEN [receipts[r] EXCEPT !.status = "pending",
                                            !.claim = "none", !.ready = TRUE]
                       ELSE receipts[r]
           todo == {r \in Receipts : Selectable(after(r))}
           row == [IdleWorker EXCEPT !.at = "claiming", !.todo = todo]
<1>1. /\ receipts' = [r \in Receipts |-> after(r)]
      /\ UNCHANGED <<events, client, hist>>
    BY DEF BeginSigning
<1>2. worker' = [worker EXCEPT ![w] = row]
    BY DEF BeginSigning
<1>3. todo \in SUBSET Receipts
    OBVIOUS
<1> HIDE DEF todo
<1>4. row \in Worker /\ row.held = {} /\ row.at = "claiming"
    BY <1>3, RowTypes DEF IdleWorker, Worker
<1> HIDE DEF row
<1>5. ASSUME NEW r \in Receipts
      PROVE  (InHand(r) => InHand(r)') /\ (Due(r) => Due(r)')
    BY <1>1 DEF InHand, Due, Committed, Stale
<1> HIDE DEF after
<1>6. \A v \in Workers : worker[v].held \subseteq Receipts /\ worker[v].todo \subseteq Receipts
    BY DEF Types, Worker
<1>7. hist.timely => \A v \in Workers \ {w} :
        /\ \A r \in worker[v].held : InHand(r)'
        /\ worker[v].at = "purging" => \A r \in worker[v].todo : Due(r)'
    BY <1>5, <1>6 DEF ClaimsHold
<1>8. hist' \in History /\ hist'.timely = hist.timely
    BY <1>1 DEF Types
<1> QED
    BY <1>2, <1>4, <1>7, <1>8, ClaimsMove


LEMMA EndTypes ==
    ASSUME NEW w, NEW todo \in SUBSET Receipts
    PROVE  /\ EndOf(w, todo) \in Worker /\ EndOf(w, todo).held = {}
           /\ EndOf(w, todo).at \in {"idle", "claiming"}
BY RowTypes DEF EndOf, IdleWorker, Worker

LEMMA ClaimKeeps ==
    ASSUME Types, ClaimsHold, NEW w \in Workers, NEW r \in Receipts, ClaimReceipt(w, r)
    PROVE  WorkerKeeps
<1>0. /\ receipts \in [Receipts -> Receipt] /\ worker[w] \in Worker
      /\ \A v \in Workers : worker[v].held \subseteq Receipts /\ worker[v].todo \subseteq Receipts
      /\ hist' \in History /\ hist'.timely = hist.timely
      /\ worker[w].at = "claiming" /\ worker[w].held = {}
    BY DEF Types, Worker, ClaimReceipt, ClaimsHold
<1>1. CASE ClaimableReceipt(receipts[r])
    <2> DEFINE attempts == receipts[r].attempts + 1
               new == [receipts[r] EXCEPT !.status = "signing", !.claim = "live",
                                          !.attempts = attempts]
               todo == worker[w].todo \ {r}
               row == [worker[w] EXCEPT !.at = "claimed", !.held = {r}, !.todo = todo]
    <2>1. /\ receipts' = [receipts EXCEPT ![r] = new]
          /\ worker' = [worker EXCEPT ![w] = row]
          /\ receipts[r].status = "pending"
        BY <1>1 DEF ClaimReceipt, ClaimableReceipt
    <2>2. todo \in SUBSET Receipts
        BY <1>0
    <2> HIDE DEF attempts, todo
    <2>3. row \in Worker /\ row.at = "claimed" /\ row.held = {r}
        BY <1>0, <2>2 DEF Worker
    <2>4. new.status = "signing" /\ new.claim = "live"
        BY <1>0 DEF Receipt
    <2> HIDE DEF new, row
    <2>5. receipts'[r] = new /\ \A s \in Receipts \ {r} : receipts'[s] = receipts[s]
        BY <1>0, <2>1
    <2>6. InHand(r)'
        BY <2>4, <2>5 DEF InHand
    <2>7. \A s \in Receipts : (InHand(s) => InHand(s)') /\ (Due(s) => Due(s)')
        BY <2>1, <2>5, <2>6 DEF InHand, Due, Committed
    <2>8. hist.timely => \A v \in Workers \ {w} :
            /\ r \notin worker[v].held
            /\ \A s \in worker[v].held : InHand(s)'
            /\ worker[v].at = "purging" => \A s \in worker[v].todo : Due(s)'
        BY <1>0, <2>1, <2>7 DEF ClaimsHold, InHand
    <2> QED
        BY <1>0, <2>1, <2>3, <2>6, <2>8, ClaimsMove
<1>2. CASE ~ClaimableReceipt(receipts[r])
    <2>1. /\ worker' = [worker EXCEPT ![w] = EndOf(w, worker[w].todo \ {r})]
          /\ UNCHANGED receipts
        BY <1>2 DEF ClaimReceipt
    <2>2. worker[w].todo \ {r} \in SUBSET Receipts
        BY <1>0
    <2> DEFINE row == EndOf(w, worker[w].todo \ {r})
    <2>3. row \in Worker /\ row.held = {} /\ row.at # "purging"
        BY <2>2, EndTypes
    <2> HIDE DEF row
    <2> QED
        BY <1>0, <2>1, <2>3, WorkerEnds DEF row
<1> QED
    BY <1>1, <1>2

LEMMA LoadKeeps ==
    ASSUME Types, ClaimsHold, NEW w \in Workers, NEW r \in Receipts, LoadReceipt(w, r)
    PROVE  WorkerKeeps
<1>0. /\ receipts \in [Receipts -> Receipt] /\ worker[w] \in Worker
      /\ hist' \in History /\ hist'.timely = hist.timely
      /\ worker[w].at = "claimed" /\ UNCHANGED receipts
    BY DEF Types, LoadReceipt
<1>1. CASE r \in Stored
    <2> DEFINE row == [worker[w] EXCEPT !.at = "signing", !.copy = receipts[r].attempts]
    <2>1. worker' = [worker EXCEPT ![w] = row]
        BY <1>1 DEF LoadReceipt
    <2>2. receipts[r].attempts \in Nat
        BY <1>0 DEF Receipt
    <2>3. row \in Worker /\ row.at = "signing" /\ row.held = worker[w].held
        BY <1>0, <2>2 DEF Worker
    <2> HIDE DEF row
    <2>4. \A s \in Receipts : (InHand(s) => InHand(s)') /\ (Due(s) => Due(s)')
        BY <1>0 DEF InHand, Due, Committed
    <2>5. \A v \in Workers : worker[v].held \subseteq Receipts /\ worker[v].todo \subseteq Receipts
        BY DEF Types, Worker
    <2>6. hist.timely => \A v \in Workers :
            /\ \A s \in worker[v].held : InHand(s)' /\ \A u \in Workers : u # v => s \notin worker[u].held
            /\ worker[v].at = "purging" => \A s \in worker[v].todo : Due(s)'
        BY <2>4, <2>5 DEF ClaimsHold
    <2> QED
        BY <1>0, <2>1, <2>3, <2>6, ClaimsMove
<1>2. CASE r \notin Stored
    <2>1. worker' = [worker EXCEPT ![w] = IdleWorker]
        BY <1>2 DEF LoadReceipt
    <2> QED
        BY <1>0, <2>1, RowTypes, WorkerEnds
<1> QED
    BY <1>1, <1>2

LEMMA SignKeeps ==
    ASSUME Types, ClaimsHold, NEW w \in Workers, NEW r \in Receipts, NEW signed \in BOOLEAN,
           SignReceipt(w, r, signed)
    PROVE  WorkerKeeps
<1>0. /\ receipts \in [Receipts -> Receipt] /\ worker[w] \in Worker
      /\ \A v \in Workers : worker[v].held \subseteq Receipts /\ worker[v].todo \subseteq Receipts
      /\ hist' \in History /\ hist'.timely = hist.timely
      /\ r \in worker[w].held
    BY DEF Types, Worker, SignReceipt
<1>1. CASE r \in Stored
    <2> DEFINE row == EndOf(w, worker[w].todo)
    <2>1. worker' = [worker EXCEPT ![w] = row]
        BY <1>1 DEF SignReceipt
    <2>2. row \in Worker /\ row.held = {} /\ row.at \in {"idle", "claiming"}
        BY <1>0, EndTypes
    <2> HIDE DEF row
    <2>3. \A s \in Receipts \ {r} : receipts'[s] = receipts[s]
        BY <1>0, <1>1 DEF SignReceipt
    <2>4. ASSUME NEW v \in Workers \ {w}, hist.timely
          PROVE  /\ \A s \in worker[v].held : InHand(s)'
                 /\ worker[v].at = "purging" => \A s \in worker[v].todo : Due(s)'
        <3>1. InHand(r) /\ r \notin worker[v].held
            BY <1>0, <2>4 DEF ClaimsHold
        <3>2. \A s \in worker[v].held : s \in Receipts \ {r} /\ InHand(s)
            BY <1>0, <2>4, <3>1 DEF ClaimsHold
        <3>3. worker[v].at = "purging" => \A s \in worker[v].todo : s \in Receipts /\ Due(s)
            BY <1>0, <2>4 DEF ClaimsHold
        <3>4. ~Due(r)
            BY <3>1 DEF InHand, Due
        <3>5. \A s \in Receipts \ {r} : (InHand(s) => InHand(s)') /\ (Due(s) => Due(s)')
            BY <2>3 DEF InHand, Due, Committed
        <3> QED
            BY <3>2, <3>3, <3>4, <3>5
    <2> QED
        BY <1>0, <2>1, <2>2, <2>4, ClaimsMove
<1>2. CASE r \notin Stored
    <2>1. worker' = [worker EXCEPT ![w] = IdleWorker] /\ UNCHANGED receipts
        BY <1>2 DEF SignReceipt
    <2> QED
        BY <1>0, <2>1, RowTypes, WorkerEnds
<1> QED
    BY <1>1, <1>2


LEMMA BeginPurgeKeeps ==
    ASSUME Types, ClaimsHold, NEW w \in Workers, BeginPurge(w)
    PROVE  WorkerKeeps
<1>0. /\ receipts \in [Receipts -> Receipt] /\ worker[w] \in Worker
      /\ \A v \in Workers : worker[v].held \subseteq Receipts /\ worker[v].todo \subseteq Receipts
      /\ hist' \in History /\ hist'.timely = hist.timely
      /\ worker[w].at = "idle" /\ worker[w].held = {} /\ UNCHANGED receipts
    BY DEF Types, Worker, BeginPurge, ClaimsHold
<1> DEFINE todo == {r \in Receipts : Purgeable(r)}
           row == [worker[w] EXCEPT !.at = "purging", !.todo = todo]
<1>1. worker' = [worker EXCEPT ![w] = row]
    BY DEF BeginPurge
<1>2. todo \in SUBSET Receipts /\ \A r \in todo : Due(r)
    BY DEF Purgeable, Stored, Due, Committed
<1> HIDE DEF todo
<1>3. row \in Worker /\ row.at = "purging" /\ row.held = {} /\ row.todo = todo
    BY <1>0, <1>2 DEF Worker
<1> HIDE DEF row
<1>4. \A s \in Receipts : (InHand(s) => InHand(s)') /\ (Due(s) => Due(s)')
    BY <1>0 DEF InHand, Due, Committed
<1>5. hist.timely => \A v \in Workers :
        /\ \A s \in worker[v].held : InHand(s)'
        /\ worker[v].at = "purging" => \A s \in worker[v].todo : Due(s)'
    BY <1>0, <1>4 DEF ClaimsHold
<1> QED
    BY <1>0, <1>1, <1>2, <1>3, <1>4, <1>5, ClaimsMove

LEMMA PurgeKeeps ==
    ASSUME Types, ClaimsHold, NEW w \in Workers, purge_expired_receipts(w)
    PROVE  WorkerKeeps
<1>0. /\ receipts \in [Receipts -> Receipt]
      /\ \A v \in Workers : worker[v].held \subseteq Receipts /\ worker[v].todo \subseteq Receipts
      /\ hist' \in History /\ hist'.timely = hist.timely
      /\ worker[w].at = "purging"
      /\ worker' = [worker EXCEPT ![w] = IdleWorker]
    BY DEF Types, Worker, purge_expired_receipts
<1> DEFINE after(r) == IF r \in worker[w].todo /\ r \in Stored
                       THEN [receipts[r] EXCEPT !.status = "purged", !.claim = "none"]
                       ELSE receipts[r]
<1>1. receipts' = [r \in Receipts |-> after(r)]
    BY DEF purge_expired_receipts
<1>2. ASSUME NEW r \in Receipts
      PROVE  /\ r \notin worker[w].todo => after(r) = receipts[r]
             /\ \/ after(r) = receipts[r]
                \/ after(r).status = "purged" /\ after(r).expired = receipts[r].expired
    BY <1>0 DEF Receipt
<1> HIDE DEF after
<1>3. \A r \in Receipts : receipts'[r] = after(r)
    BY <1>1
<1>4. \A r \in Receipts : Due(r) => Due(r)'
    BY <1>2, <1>3 DEF Due, Committed
<1>5. hist.timely => \A r \in worker[w].todo : ~InHand(r)
    BY <1>0 DEF ClaimsHold, Due, InHand
<1>6. hist.timely => \A v \in Workers \ {w} :
        /\ \A r \in worker[v].held : InHand(r)'
        /\ worker[v].at = "purging" => \A r \in worker[v].todo : Due(r)'
    <2> SUFFICES ASSUME hist.timely, NEW v \in Workers \ {w}
                 PROVE  /\ \A r \in worker[v].held : InHand(r)'
                        /\ worker[v].at = "purging" => \A r \in worker[v].todo : Due(r)'
        OBVIOUS
    <2>1. \A r \in worker[v].held : r \in Receipts /\ InHand(r) /\ r \notin worker[w].todo
        BY <1>0, <1>5 DEF ClaimsHold
    <2>2. \A r \in worker[v].held : InHand(r)'
        BY <1>2, <1>3, <2>1 DEF InHand
    <2>3. worker[v].at = "purging" => \A r \in worker[v].todo : Due(r)'
        BY <1>0, <1>4 DEF ClaimsHold
    <2> QED
        BY <2>2, <2>3
<1> QED
    BY <1>0, <1>6, RowTypes, ClaimsMove

\* The rows that one tick of the clock leaves in hand, and due.
LEMMA ClockKeeps ==
    ASSUME Types, ClaimsHold, NEW r \in Receipts,
           ClaimExpires(r) \/ BackoffElapses(r) \/ RetentionEnds(r)
    PROVE  WorkerKeeps
<1>0. /\ receipts \in [Receipts -> Receipt] /\ worker \in [Workers -> Worker] /\ hist \in History
      /\ \A v \in Workers : worker[v].held \subseteq Receipts /\ worker[v].todo \subseteq Receipts
      /\ UNCHANGED worker
    BY DEF Types, Worker, ClaimExpires, BackoffElapses, RetentionEnds
<1>1. /\ hist' \in History
      /\ hist'.timely => hist.timely
      /\ hist'.timely /\ ClaimExpires(r) => \A w \in Workers : r \notin worker[w].held
    BY <1>0 DEF History, ClaimExpires, BackoffElapses, RetentionEnds
<1>2. ASSUME NEW s \in Receipts
      PROVE  /\ receipts'[s].status = receipts[s].status
             /\ receipts[s].expired => receipts'[s].expired
             /\ (ClaimExpires(r) /\ s = r) \/ receipts'[s].claim = receipts[s].claim
    <2>1. receipts[r] \in Receipt
        BY <1>0
    <2>2. CASE ClaimExpires(r)
        BY <1>0, <2>1, <2>2 DEF ClaimExpires, Receipt
    <2>3. CASE BackoffElapses(r)
        BY <1>0, <2>1, <2>3 DEF BackoffElapses, Receipt
    <2>4. CASE RetentionEnds(r)
        BY <1>0, <2>1, <2>4 DEF RetentionEnds, Receipt
    <2> QED
        BY <2>2, <2>3, <2>4
<1>3. \A s \in Receipts :
        /\ Due(s) => Due(s)'
        /\ InHand(s) /\ (ClaimExpires(r) => s # r) => InHand(s)'
    BY <1>2 DEF Due, Committed, InHand
<1>4. ASSUME hist'.timely, NEW w \in Workers
      PROVE  /\ \A s \in worker[w].held :
                InHand(s)' /\ \A v \in Workers : v # w => s \notin worker[v].held
             /\ worker[w].at = "purging" => \A s \in worker[w].todo : Due(s)'
    <2>1. hist.timely
        BY <1>1, <1>4
    <2>2. /\ \A s \in worker[w].held :
                InHand(s) /\ \A v \in Workers : v # w => s \notin worker[v].held
          /\ worker[w].at = "purging" => \A s \in worker[w].todo : Due(s)
        BY <2>1 DEF ClaimsHold
    <2>3. \A s \in worker[w].held : s \in Receipts /\ (ClaimExpires(r) => s # r)
        BY <1>0, <1>1, <1>4
    <2> QED
        BY <1>0, <1>3, <2>2, <2>3
<1>5. \A w \in Workers : worker[w].at \notin {"claimed", "signing"} => worker[w].held = {}
    BY DEF ClaimsHold
<1>6. ClaimsHold'
    BY <1>0, <1>4, <1>5 DEF ClaimsHold
<1> QED
    BY <1>0, <1>1, <1>6 DEF WorkerKeeps

LEMMA WorkersKeepClaims ==
    ASSUME Types, ClaimsHold, WorkerActs \/ ClockTicks
    PROVE  WorkerKeeps
<1>1. ASSUME NEW w \in Workers, WorkerCrashes(w) PROVE WorkerKeeps
    <2> DEFINE crashes == hist.crashes + 1
    <2>1. /\ worker' = [worker EXCEPT ![w] = IdleWorker] /\ UNCHANGED receipts
          /\ hist' = [hist EXCEPT !.crashes = crashes]
        BY <1>1 DEF WorkerCrashes
    <2>2. crashes \in Nat
        BY DEF Types, History
    <2> HIDE DEF crashes
    <2>3. hist' \in History /\ hist'.timely = hist.timely
        BY <2>1, <2>2 DEF Types, History
    <2> QED
        BY <2>1, <2>3, RowTypes, WorkerEnds
<1> QED
    BY <1>1, BeginSigningKeeps, ClaimKeeps, LoadKeeps, SignKeeps, BeginPurgeKeeps, PurgeKeeps,
       ClockKeeps DEF WorkerActs, ClockTicks, SigningStep, PurgeStep



-----------------------------------------------------------------------------
\* Clients change no row that is committed, and replace no evidence.
LEMMA ClientRows ==
    ASSUME ReceiptsInv, NEW c \in Clients, ClientActs(c)
    PROVE  /\ \A r \in Receipts : Committed(r) => receipts'[r] = receipts[r]
           /\ \A e \in Events : events[e] # {} => events'[e] = events[e]
           /\ UNCHANGED <<worker, hist>>
<1>0. Types /\ Transaction(c)
    BY DEF ReceiptsInv
<1>1. \A r \in client[c].drafts : ~Committed(r)
    BY <1>0 DEF Transaction, Committed
<1> DEFINE Goal == /\ \A r \in Receipts : Committed(r) => receipts'[r] = receipts[r]
                   /\ \A e \in Events : events[e] # {} => events'[e] = events[e]
                   /\ UNCHANGED <<worker, hist>>
<1>2. ASSUME UNCHANGED <<receipts, events, worker, hist>> PROVE Goal
    BY <1>2
<1>3. ASSUME Rejected(c) PROVE Goal
    BY <1>0, <1>1, <1>3 DEF Rejected, Types
<1>4. ASSUME evaluate_access(c) PROVE Goal
    <2>1. UNCHANGED <<events, worker, hist>> /\ (Rejected(c) \/ Reuses(c) \/ Drafts(c))
        BY <1>0, <1>4, EvaluationSteps
    <2>2. ASSUME Reuses(c) PROVE Goal
        BY <1>2, <2>1, <2>2 DEF Reuses
    <2>3. ASSUME Drafts(c) PROVE Goal
        BY <2>1, <2>3 DEF Drafts, Committed
    <2> QED
        BY <1>3, <2>1, <2>2, <2>3
<1>5. ASSUME CommitEvaluations(c) PROVE Goal
    <2>1. CASE Rejected(c)
        BY <1>3, <2>1
    <2>2. CASE ~Rejected(c)
        BY <1>0, <1>1, <1>5, <2>2 DEF CommitEvaluations, Types
    <2> QED
        BY <2>1, <2>2
<1>6. ASSUME record_enforcement_event(c) PROVE Goal
    BY <1>0, <1>6 DEF record_enforcement_event, Insert, Types
<1>7. ASSUME NEW outcome \in Outcomes, NEW satisfied \in SUBSET Obligations,
             ReportAnything(c, outcome, satisfied)
      PROVE  Goal
    BY <1>2, <1>7 DEF ReportAnything
<1>8. ASSUME NEW n \in Nat, NEW items \in [1..n -> Asks], BeginEvaluations(c, items) PROVE Goal
    BY <1>2, <1>8 DEF BeginEvaluations
<1>9. ASSUME ClientStep(c) PROVE Goal
    <2>1. HandleObligations(c) \/ Operate(c) \/ (\E e \in Events : LookupEvent(c, e)) => Goal
        BY <1>2 DEF HandleObligations, Operate, LookupEvent
    <2> HIDE DEF Goal
    <2> QED
        BY <1>4, <1>5, <1>6, <1>9, <2>1 DEF ClientStep
<1> HIDE DEF Goal
<1>10. Goal
    <2>1. 1..(IF c \in Batches THEN MaxBatch ELSE 1) \subseteq Nat
        BY ReceiptsAssumption
    <2> QED
        BY <1>7, <1>8, <1>9, <2>1 DEF ClientActs
<1> QED
    BY <1>10 DEF Goal

LEMMA ClientsKeepClaims ==
    ASSUME ReceiptsInv, NEW c \in Clients, ClientActs(c)
    PROVE  ClaimsHold'
<1>0. /\ ClaimsHold
      /\ \A v \in Workers : worker[v].held \subseteq Receipts /\ worker[v].todo \subseteq Receipts
    BY DEF ReceiptsInv, Types, Worker
<1>1. /\ \A r \in Receipts : Committed(r) => receipts'[r] = receipts[r]
      /\ UNCHANGED <<worker, hist>>
    BY ClientRows
<1>2. \A r \in Receipts : (InHand(r) => InHand(r)') /\ (Due(r) => Due(r)')
    BY <1>1 DEF InHand, Due, Committed
<1> QED
    BY <1>0, <1>1, <1>2 DEF ClaimsHold

\* One row may be of a transaction, or be moved by a worker: by its claim, by
\* the recovery of a stale one, by the signer that holds it or by a purge.
LEMMA StatusMoves ==
    ASSUME Types, WorkerActs \/ ClockTicks
    PROVE  /\ hist'.timely => hist.timely
           /\ \A r \in Receipts :
                \/ receipts'[r].status = receipts[r].status
                \/ receipts[r].status = "pending" /\ receipts'[r].status = "signing"
                \/ receipts[r].status = "signing" /\ receipts'[r].status = "pending"
                \/ /\ \E w \in Workers : r \in worker[w].held
                   /\ receipts'[r].status # "purged"
                \/ /\ \E w \in Workers : worker[w].at = "purging" /\ r \in worker[w].todo
                   /\ receipts'[r].status = "purged"
<1>0. receipts \in [Receipts -> Receipt] /\ hist \in History
    BY DEF Types
<1> DEFINE Moves(r) ==
                \/ receipts'[r].status = receipts[r].status
                \/ receipts[r].status = "pending" /\ receipts'[r].status = "signing"
                \/ receipts[r].status = "signing" /\ receipts'[r].status = "pending"
                \/ /\ \E w \in Workers : r \in worker[w].held
                   /\ receipts'[r].status # "purged"
                \/ /\ \E w \in Workers : worker[w].at = "purging" /\ r \in worker[w].todo
                   /\ receipts'[r].status = "purged"
           Goal == (hist'.timely => hist.timely) /\ \A r \in Receipts : Moves(r)
<1>1. ASSUME UNCHANGED receipts, hist'.timely = hist.timely PROVE Goal
    BY <1>1
<1>2. ASSUME NEW w \in Workers, BeginSigning(w) PROVE Goal
    <2>1. \A r \in Receipts : \/ receipts'[r] = receipts[r]
                              \/ receipts[r].status = "signing" /\ receipts'[r].status = "pending"
        BY <1>0, <1>2 DEF BeginSigning, Stale, Receipt
    <2> QED
        BY <1>2, <2>1 DEF BeginSigning
<1>3. ASSUME NEW w \in Workers, NEW r \in Receipts, ClaimReceipt(w, r) PROVE Goal
    <2>1. CASE ClaimableReceipt(receipts[r])
        <3>1. /\ receipts[r].status = "pending" /\ receipts'[r].status = "signing"
              /\ \A s \in Receipts \ {r} : receipts'[s] = receipts[s]
              /\ UNCHANGED hist
            BY <1>0, <1>3, <2>1 DEF ClaimReceipt, ClaimableReceipt, Receipt
        <3> QED
            BY <3>1
    <2>2. CASE ~ClaimableReceipt(receipts[r])
        BY <1>1, <1>3, <2>2 DEF ClaimReceipt
    <2> QED
        BY <2>1, <2>2
<1>4. ASSUME NEW w \in Workers, NEW r \in Receipts, NEW signed \in BOOLEAN, SignReceipt(w, r, signed)
      PROVE  Goal
    <2>1. CASE r \in Stored
        <3>1. /\ receipts'[r].status \in {"signed", "failed", "pending"}
              /\ \A s \in Receipts \ {r} : receipts'[s] = receipts[s]
              /\ r \in worker[w].held /\ UNCHANGED hist
            <4> DEFINE status == IF signed THEN "signed"
                                 ELSE IF LastAttempt(worker[w].copy) THEN "failed" ELSE "pending"
                       ready == receipts[r].ready /\ (signed \/ LastAttempt(worker[w].copy))
                       row == [receipts[r] EXCEPT !.claim = "none", !.status = status, !.ready = ready]
            <4>1. receipts' = [receipts EXCEPT ![r] = row]
                BY <1>4, <2>1 DEF SignReceipt
            <4>2. status \in {"signed", "failed", "pending"}
                OBVIOUS
            <4> HIDE DEF status, ready
            <4>3. row.status = status
                BY <1>0 DEF Receipt
            <4> HIDE DEF row
            <4> QED
                BY <1>0, <1>4, <4>1, <4>2, <4>3 DEF SignReceipt
        <3> QED
            BY <3>1
    <2>2. CASE r \notin Stored
        BY <1>1, <1>4, <2>2 DEF SignReceipt
    <2> QED
        BY <2>1, <2>2
<1>5. ASSUME NEW w \in Workers, purge_expired_receipts(w) PROVE Goal
    <2>1. \A r \in Receipts : \/ receipts'[r] = receipts[r]
                              \/ r \in worker[w].todo /\ receipts'[r].status = "purged"
        BY <1>0, <1>5 DEF purge_expired_receipts, Receipt
    <2> QED
        BY <1>5, <2>1 DEF purge_expired_receipts
<1>6. ASSUME NEW r \in Receipts, ClaimExpires(r) \/ BackoffElapses(r) \/ RetentionEnds(r) PROVE Goal
    <2>1. hist'.timely => hist.timely
        BY <1>0, <1>6 DEF History, ClaimExpires, BackoffElapses, RetentionEnds
    <2>2. receipts[r] \in Receipt
        BY <1>0
    <2>3. \A s \in Receipts : receipts'[s].status = receipts[s].status
        <3>1. CASE ClaimExpires(r)
            BY <1>0, <2>2, <3>1 DEF ClaimExpires, Receipt
        <3>2. CASE BackoffElapses(r)
            BY <1>0, <2>2, <3>2 DEF BackoffElapses, Receipt
        <3>3. CASE RetentionEnds(r)
            BY <1>0, <2>2, <3>3 DEF RetentionEnds, Receipt
        <3> QED
            BY <1>6, <3>1, <3>2, <3>3
    <2> QED
        BY <2>1, <2>3
<1>7. ASSUME NEW w \in Workers,
             (\E r \in Receipts : LoadReceipt(w, r)) \/ BeginPurge(w) \/ WorkerCrashes(w)
      PROVE  Goal
    <2>1. UNCHANGED receipts /\ hist'.timely = hist.timely
        BY <1>0, <1>7 DEF LoadReceipt, BeginPurge, WorkerCrashes, History
    <2> QED
        BY <1>1, <2>1
<1> HIDE DEF Goal
<1>8. Goal
    BY <1>2, <1>3, <1>4, <1>5, <1>6, <1>7 DEF WorkerActs, ClockTicks, SigningStep, PurgeStep
<1> QED
    BY <1>8 DEF Goal



-----------------------------------------------------------------------------
LEMMA InitInv == Init => ReceiptsInv
<1> SUFFICES ASSUME Init PROVE ReceiptsInv
    OBVIOUS
<1>1. PICK backlog \in SUBSET Signing, ask \in Asks, verdict \in Verdicts :
        /\ \A r, s \in backlog : r = s
        /\ receipts = [r \in Receipts |->
                IF r \in backlog
                THEN [NoReceipt EXCEPT !.status = "pending", !.key = ask.key,
                        !.request = ask.request, !.permit = verdict.permit,
                        !.duties = verdict.duties]
                ELSE NoReceipt]
    BY DEF Init
<1> DEFINE pending == [NoReceipt EXCEPT !.status = "pending", !.key = ask.key,
                        !.request = ask.request, !.permit = verdict.permit,
                        !.duties = verdict.duties]
<1>2. pending \in Receipt /\ pending.status = "pending"
    BY KeysAssumption, ReceiptsAssumption, RowTypes DEF NoReceipt, Receipt, Status, Item
<1>3. receipts = [r \in Receipts |-> IF r \in backlog THEN pending ELSE NoReceipt]
    BY <1>1
<1> HIDE DEF pending
<1>4. /\ receipts \in [Receipts -> Receipt]
      /\ \A r \in Receipts : receipts[r].status \in {"pending", "absent"}
      /\ Stored \subseteq backlog
    BY <1>2, <1>3, RowTypes DEF Stored
<1>5. PICK C \in SUBSET Clients, W \in SUBSET Workers :
        /\ client = [c \in Clients |-> [IdleClient EXCEPT !.at = IF c \in C THEN "idle" ELSE "done"]]
        /\ worker = [w \in Workers |-> [IdleWorker EXCEPT !.at = IF w \in W THEN "idle" ELSE "down"]]
    BY DEF Init
<1>6. ASSUME NEW at \in {"idle", "done"}
      PROVE  LET row == [IdleClient EXCEPT !.at = at] IN
             /\ row \in Client /\ row.at = at
             /\ row.drafts = {} /\ row.answer = {} /\ ~row.ran /\ row.outcome = "rejected"
             /\ row.todo = <<>>
    <2> DEFINE row == [IdleClient EXCEPT !.at = at]
    <2>1. row \in Client
        BY RowTypes DEF Client
    <2>2. /\ row.at = at /\ row.drafts = {} /\ row.answer = {} /\ ~row.ran
          /\ row.outcome = "rejected" /\ row.todo = <<>>
        BY DEF IdleClient
    <2> QED
        BY <2>1, <2>2
<1>7. ASSUME NEW at \in {"idle", "down"}
      PROVE  LET row == [IdleWorker EXCEPT !.at = at] IN
             row \in Worker /\ row.at = at /\ row.held = {}
    BY DEF IdleWorker, Worker
<1>8. ASSUME NEW c \in Clients
      PROVE  /\ client[c] \in Client /\ client[c].at \in {"idle", "done"}
             /\ client[c].drafts = {} /\ client[c].answer = {}
             /\ ~client[c].ran /\ client[c].outcome = "rejected" /\ client[c].todo = <<>>
    <2> DEFINE at == IF c \in C THEN "idle" ELSE "done"
    <2>1. at \in {"idle", "done"} /\ client[c] = [IdleClient EXCEPT !.at = at]
        BY <1>5
    <2> HIDE DEF at
    <2> QED
        BY <1>6, <2>1
<1>9. ASSUME NEW w \in Workers
      PROVE  worker[w] \in Worker /\ worker[w].at \in {"idle", "down"} /\ worker[w].held = {}
    <2> DEFINE at == IF w \in W THEN "idle" ELSE "down"
    <2>1. at \in {"idle", "down"} /\ worker[w] = [IdleWorker EXCEPT !.at = at]
        BY <1>5
    <2> HIDE DEF at
    <2> QED
        BY <1>7, <2>1
<1>10. events = [e \in Events |-> {}] /\ hist = [crashes |-> 0, timely |-> TRUE]
    BY DEF Init
<1>11. Types
    <2>1. client \in [Clients -> Client] /\ worker \in [Workers -> Worker]
        BY <1>5, <1>8, <1>9
    <2> QED
        BY <1>4, <1>10, <2>1 DEF Types, History
<1>12. \A c \in Clients : Transaction(c) /\ Enforcement(c)
    BY <1>8 DEF Transaction, Enforcement
<1>13. DraftsOwned
    BY <1>4, <1>8 DEF DraftsOwned
<1>14. KeysUnique
    BY <1>1, <1>4 DEF KeysUnique
<1>15. EventsHold
    BY <1>10 DEF EventsHold
<1>16. ClaimsHold
    BY <1>9 DEF ClaimsHold
<1> QED
    BY <1>11, <1>12, <1>13, <1>14, <1>15, <1>16 DEF ReceiptsInv

LEMMA StepPreserves == ReceiptsInv /\ [Next]_vars => ReceiptsInv'
<1> SUFFICES ASSUME ReceiptsInv, [Next]_vars PROVE ReceiptsInv'
    OBVIOUS
<1>1. ASSUME NEW c \in Clients, ClientActs(c) PROVE ReceiptsInv'
    BY <1>1, ClientsKeepAnswers, ClientsKeepClaims DEF ReceiptsInv, ClientStepKeeps
<1>2. ASSUME WorkerActs \/ ClockTicks PROVE ReceiptsInv'
    <2>1. Types /\ ClaimsHold
        BY DEF ReceiptsInv
    <2>2. WorkerKeeps
        BY <1>2, <2>1, WorkersKeepClaims
    <2>3. receipts' \in [Receipts -> Receipt] /\ UNCHANGED <<client, events>>
        BY <1>2, <2>1, WorkerRows
    <2>4. Types'
        BY <2>1, <2>2, <2>3 DEF Types, WorkerKeeps
    <2>5. /\ \A c \in Clients : (Transaction(c) /\ Enforcement(c))'
          /\ DraftsOwned' /\ KeysUnique' /\ EventsHold'
        BY <1>2, WorkersKeepAnswers
    <2> QED
        BY <2>2, <2>4, <2>5 DEF ReceiptsInv, WorkerKeeps
<1>3. ASSUME UNCHANGED vars PROVE ReceiptsInv'
    BY <1>3 DEF vars, ReceiptsInv, Types, Transaction, Enforcement, Entitled, Receipt1, DraftsOwned,
                KeysUnique, Stored, EventsHold, ClaimsHold, InHand, Due, Committed
<1>4. Next => (\E c \in Clients : ClientActs(c)) \/ WorkerActs \/ ClockTicks
    BY DEF Next, ClientActs, WorkerActs, ClockTicks
<1> QED
    BY <1>1, <1>2, <1>3, <1>4

\* ReceiptsInv holds of every reachable state.
THEOREM ReceiptsInvariant == Spec => []ReceiptsInv
BY InitInv, StepPreserves, PTL DEF Spec

\* The tables and every actor's progress keep their types.
THEOREM ReceiptsTypeOK == Spec => []TypeOK
<1>1. ReceiptsInv => TypeOK
    <2> SUFFICES ASSUME ReceiptsInv PROVE TypeOK
        OBVIOUS
    <2>1. Types
        BY DEF ReceiptsInv
    <2>2. ASSUME NEW e \in Events PROVE Cardinality(events[e]) <= 1
        <3>1. CASE events[e] = {}
            BY <3>1, FS_EmptySet
        <3>2. ASSUME NEW v \in Event, events[e] = {v} PROVE Cardinality(events[e]) <= 1
            <4>1. Cardinality({v}) = 1
                BY FS_Singleton
            <4> QED
                BY <3>2, <4>1
        <3> QED
            BY <2>1, <3>1, <3>2 DEF Types
    <2>3. ASSUME NEW c \in Clients
          PROVE  /\ client[c].at \in {"idle", "evaluating", "answered", "operate",
                                      "report", "record", "done"}
                 /\ client[c].drafts \cup client[c].answer \subseteq Receipts
                 /\ client[c].outcome \in Outcomes
                 /\ client[c].satisfied \subseteq Obligations
        BY <2>1 DEF Types, Client
    <2> QED
        BY <2>1, <2>2, <2>3 DEF TypeOK, Types
<1> QED
    BY <1>1, ReceiptsInvariant, PTL

\* What evaluate_runtime_decision answered stands: answers are committed rows,
\* and one idempotency key has one decision.
THEOREM ReceiptsStand == Spec => []AnswersStand
<1>1. ReceiptsInv => AnswersStand
    <2> SUFFICES ASSUME ReceiptsInv PROVE AnswersStand
        OBVIOUS
    <2>1. /\ DraftsOwned /\ KeysUnique
          /\ \A c \in Clients : Transaction(c)
          /\ \A c \in Clients : client[c].answer \subseteq Receipts
        BY DEF ReceiptsInv, Types, Client
    <2>2. ASSUME NEW c \in Clients, Past(c), NEW r \in client[c].answer
          PROVE  /\ r \in Receipts /\ Committed(r)
                 /\ \E i \in DOMAIN client[c].asked : client[c].asked[i] =
                        [key |-> receipts[r].key, request |-> receipts[r].request]
        BY <2>1, <2>2 DEF Transaction, Past
    <2>3. AnswerIsDurable
        BY <2>1, <2>2 DEF AnswerIsDurable, Committed, DraftsOwned
    <2>4. ASSUME NEW c \in Clients, Past(c), NEW r \in client[c].answer,
                 NEW d \in Clients, Past(d), NEW s \in client[d].answer,
                 r # s, receipts[r].status # "purged", receipts[s].status # "purged"
          PROVE  OtherKey(receipts[r].key, receipts[s].key)
        <3>1. r \in Stored /\ s \in Stored
            BY <2>2, <2>4 DEF Stored, Committed
        <3> QED
            BY <2>1, <2>4, <3>1 DEF KeysUnique
    <2>5. OneDecisionPerKey
        BY <2>2, <2>4 DEF OneDecisionPerKey, OtherKey
    <2> QED
        BY <2>3, <2>5 DEF AnswersStand
<1> QED
    BY <1>1, ReceiptsInvariant, PTL

\* A permit and all its obligations come before the operation and before
\* evidence of it; an enforcement point reports only what it ran.
THEOREM ReceiptsEnforced == Spec => []EnforcementSound
<1>1. ReceiptsInv => EnforcementSound
    BY DEF ReceiptsInv, EnforcementSound, Enforcement, Entitled, EventsHold
<1> QED
    BY <1>1, ReceiptsInvariant, PTL

\* Evidence is never replaced, signatures stay and a purge spares what is
\* pending, in progress or within its retention, unless a signer outlived its
\* claim.
THEOREM ReceiptsRecorded == Spec => RecordsStay
<1> DEFINE Evidence == \A e \in Events : events[e] # {} => events'[e] = events[e]
           Signed == \A r \in Receipts : receipts[r].status = "signed" /\ hist'.timely =>
                        receipts'[r].status \in {"signed", "purged"}
           Spared == \A r \in Receipts :
                r \in Stored /\ receipts'[r].status = "purged" /\ hist.timely =>
                    receipts[r].expired /\ receipts[r].status \notin {"pending", "signing"}
<1>1. ASSUME ReceiptsInv, NEW c \in Clients, ClientActs(c)
      PROVE  Evidence /\ Signed /\ Spared
    BY <1>1, ClientRows DEF Committed, Stored
<1>2. ASSUME ReceiptsInv, WorkerActs \/ ClockTicks
      PROVE  Evidence /\ Signed /\ Spared
    <2>1. Types /\ ClaimsHold /\ UNCHANGED events
        BY <1>2, WorkerRows DEF ReceiptsInv
    <2>2. hist'.timely => hist.timely
        BY <1>2, <2>1, StatusMoves
    <2>3. Signed
        BY <1>2, <2>1, <2>2, StatusMoves DEF ClaimsHold, InHand
    <2>4. Spared
        BY <1>2, <2>1, StatusMoves DEF ClaimsHold, Due, Stored
    <2> QED
        BY <2>1, <2>3, <2>4
<1>3. ReceiptsInv /\ Next => Evidence /\ Signed /\ Spared
    BY <1>1, <1>2 DEF Next, ClientActs, WorkerActs, ClockTicks
<1>4. ReceiptsInv /\ [Next]_vars => [Evidence]_events /\ [Signed]_vars /\ [Spared]_vars
    BY <1>3 DEF vars
<1> QED
    BY <1>4, ReceiptsInvariant, PTL DEF Spec, RecordsStay, EvidenceStays, SignedStays, PurgeSparesPending
=============================================================================
