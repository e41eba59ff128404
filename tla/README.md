# Verification of OpenDataGraph

TLA+ models of the parts of OpenDataGraph that run concurrently, survive
crashes or decide who may do what; the TLC configurations that check them; and
TLAPS proofs of the results that should hold at any size. Source references are
relative to the repository (`app/services/jobs.py` and so on); `PROJECT.json`
maps every definition to the lines it models.

## The system

OpenDataGraph is a governance service: a FastAPI application and any number of
worker processes share one SQL database through SQLAlchemy. The database is the
only channel between processes. Three facts about the session shape every race
in the models:

- rows are loaded into a session and written back by a later commit; a column is
  written only if the value assigned differs from the value loaded, so a commit
  overwrites what it assigned and keeps what it did not;
- every commit expires the session's objects (`expire_on_commit`), so an object
  read after a commit shows the row as it is *then*;
- nothing is flushed before a query (`autoflush=False`), so a request does not
  find what it has itself added until it flushes or commits.

A worker's loop runs, in this order: connector schedules, ownership schedules,
ownership escalations, receipt signing, the outbox, the receipt purge, one job.
Nothing in the loop catches exceptions: a phase that raises ends the process,
and its supervisor starts it again.

### Inventory

| Component | State | Operations | Interacts with | What is hard | What makes it correct |
|---|---|---|---|---|---|
| Job queue (`services/jobs.py`) | `background_jobs`: status, attempts, availability, claim, cancellation flag | enqueue, claim, execute (return, raise, cancelled), recover, cancel, retry | workers, every producer of jobs, the handlers | two workers on one row, a claim that ages under a live worker, requests that commit an old copy, crash of a worker | one claim per turn, one executor at a time, bounded attempts, every job ends |
| Worker (`worker.py`) | none but its loop | recover once at start, then the phases above | all of the above | recovery happens only at start | as for the parts |
| Governance outbox (`services/outbox.py`) | `governance_outbox_events` | queue, recover, claim, fan out, settle | integrations | overlapping dispatches, crash in the middle of the fan-out, claims that expire or are erased, last attempt | a dispatched event is queued for every enabled endpoint, bounded duplicates, every event ends |
| Integrations (`services/integrations.py`) | `integration_endpoints`, `integration_deliveries` | queue, deliver, dead-letter, replay, disable | job queue, outbox, receivers | lost answers, duplicate jobs, crash between delivery and job | completed means received, failed means dead letter, delivered stays |
| Connector schedules (`services/schedules.py`, `v13.py`) | `connector_schedules` | create, edit, delete, enqueue what is due | job queue | compare-and-update on a copy reloaded after a commit, interval and window arithmetic | one job per occurrence, whatever is due is finally claimed |
| Provider budgets (`services/schedules.py`) | `provider_rate_limits` | configure, reset the window, charge | connector scans, job queue | two charges on one count, a new limit against charges in flight, window boundary, attempts used up by refusals | no window admits more than its limit, a refused scan returns in another window |
| Connectors (`services/connectors.py`, `connectors/`, `classification.py`) | `data_assets`, `classification_reviews`, connector policies, cursors held by clients | scan a page, upsert, classify, review, set policy | providers, schedules, budgets | items that move while a walk is under way, failed pages, reviews resolved under a scan | a walk finds what was there all along, low confidence has one review |
| Policy rollouts and bundles (`services/policy_rollouts.py`, `policy_governance.py`, `policy.py`) | `policy_bundles`, `policy_rollouts`, per-process caches | submit, approve, activate, roll out, advance, decide | runtime authorization | concurrent activation, cache staleness | one active bundle, one active rollout, reviewed before enforced |
| Policy exceptions and delegations (`services/policy_governance.py`) | `policy_exceptions`, `approval_delegations`, review tasks | request, renew, approve, revoke, expire, delegate | reviews, policy engine | requests that commit old columns, tasks opened and closed in commits of their own | nobody extends alone, what waits has a review, revoked stays revoked |
| Policy engine (`services/policy_engine.py`, `policy.py`) | none but the cache | match, decide, except | search, runtime authorization | the order of the rules | a policy more never loosens a decision |
| AuthZEN search (`services/authzen_search.py`) | page tokens held by clients | search a page | policy engine, inventory | candidates come and go between pages, a page stops at its scan limit | each permitted candidate once |
| Runtime authorization (`services/runtime_authorization.py`, `enforcement.py`, the SDK's enforcement point) | `runtime_decision_receipts`, `enforcement_events` | evaluate, sign, purge, record enforcement | policy, worker | concurrent requests with one idempotency key, signing claims that age, purge of unsigned receipts | one decision per key, operations and evidence fit their receipt, records stay |
| Evidence (`services/evidence.py`) | `evidence_records`, `evidence_dispositions`, object store | hold, retain, request, approve, reject, execute, delete | job queue, reviews, S3 | a hold placed late, deletion before its commit, repeated jobs | nothing under hold is deleted, two persons, every deletion is recorded |
| Evidence packages and graph exports (`services/evidence_packages.py`, `graph_exports.py`, `export_sinks.py`, `evidence_signing.py`) | package and export rows, stored objects | request, execute, fail, download, verify | job queue, integrations | repeated execution, failure after upload, the graph moves on, rows that come late or are purged | a completed row has its object, a section what was in its window when it was read, trust is genuine |
| Ownership (`services/ownership.py`) | campaigns, assignments, schedules, escalation events | create, launch, attest, dispute, reassign, remediate, complete, escalate | job queue, integrations | concurrent decisions, the scheduled pass, claims that run out, a batch that earlier campaigns fill | a campaign completes exactly when nothing is left to decide, one launch per occurrence, what is due is escalated if its campaign fits the batch |
| Reviews (`services/governance.py`) | `governance_review_tasks` | create, assign, complete | dispositions, exceptions, bundles | task and subject are commits of their own | open exactly while the subject waits |
| Identity (`services/identity.py`) | SCIM resources, deprovisioning workflows | create, replace, patch, delete, deprovision | job queue | reactivation while a workflow runs, old copies of a group | deprovisioned stays out, every workflow ends |
| Service accounts (`services/service_accounts.py`) | accounts, credentials, rotations | issue, authenticate, rotate, complete, disable | every API call | overlap of old and new credentials, keys of different lifetimes | credentials of a disabled account and superseded ones stay out, the newest one works |
| AI inventory (`services/ai_resources.py`, `genai_telemetry.py`) | resources, relationships, observations, graph edges, telemetry events | declare, observe, import a batch | graph, outbox | counters in copied rows, a batch that repeats a span, rollback | relationship, edge and telemetry tell one story |
| Graph and text search, token exchange, authentication, tooling | none, or a cache | see `PROJECT.json` | | parsing, queries and I/O | |

## Modules

| Module | Models | State and steps |
|---|---|---|
| `JobQueue` | what `services/jobs.py` promises producers and handlers | `queue`: status and counted attempts; one step per operation. The modules whose work is done by jobs are composed with it |
| `BackgroundJobs` | `services/jobs.py`, the job half of `worker.py`, the cancel and retry endpoints | `rows` the table; `pc`, `held`, `snap` each worker's place, job and session copy; `req` requests between load and commit; `turn` and `ticket` are history (how often a job became pending, which of these a worker claimed). One step per SQL statement or commit; a handler is its outcome. `Seen` maps a row to one of `JobQueue` |
| `IntegrationDelivery` (extends `BackgroundJobs`) | `services/integrations.py` as the handler of `integration.deliver` | `deliveries`, `payload`, `endpointOn`, each worker's `step` and `copy`; `received` what reached the receiver. Lookup, commit of the attempt, send (lost, refused or accepted, received or not), commit of the answer, dead letter together with the job's failure |
| `GovernanceOutbox` | `services/outbox.py` and the fan-out `queue_integration_event` | `events`, `enabled`, `deliveries`, `jobs`, `disp` (each running dispatch with its copy of the event); one step per statement of the fan-out, and one for a commit of it that raises |
| `ConnectorSchedules` | the schedule half of `services/schedules.py`, its endpoints | `sched`, `pass` (each worker's pass), `edit` the request in flight; `jobs` and `planned` count scans and occurrences |
| `ProviderBudget`, `ScanBudget` | the budget half of `services/schedules.py`; scan jobs that it refuses | `budget`, each caller's loop, updates in flight; `granted` counts admissions of the window. `ScanBudget` adds the jobs, the clock and `available_at` |
| `ConnectorCatalog`, `ConnectorScans` | listings of the providers, `ingest_connector`, classification and its review, connector policies; composed with `ScanBudget` | the provider's `listing`, each scan between listing, load and commit, assets, pending reviews, the client's `walk` |
| `PolicyRollouts` | bundle endpoints of `v13.py`, `services/policy_rollouts.py`, the caches, their use by decisions | `bundles`, `rollouts`; each process's request between load, lookup, commit and invalidation; `pcache`, `rcache`; `hist`. The traffic percentage of a canary becomes a free choice |
| `PolicyDecision` | matching, order of decisions, risk, exceptions | operators only: a query in, the set of possible answers out |
| `PolicyExceptions` | `services/policy_governance.py`: exceptions, renewals, delegations, a bundle's approval, their reviews | one exception, one bundle, delegations, the requests between load, commits and review; `asked` is history. An owner has one delegation at a time |
| `GovernanceReviews` | `services/governance.py` | `tasks`; create, assign, complete, instantiated by the subjects' modules |
| `AuthorizationSearch` (extends `PolicyExceptions` and `PolicyDecision`) | `services/authzen_search.py` | rows searched, the client's `walk` with its token; one step per page |
| `ServiceAccounts` | `services/service_accounts.py` | `account`, `cred`, `rotation`, requests of administrators between load and commit, each with the lifetime it asks for, the clock |
| `IdentityLifecycle` | `services/identity.py`, its endpoints, the job `identity.deprovision` | `user` (column and JSON apart), `member`, `workflow`, the handler, the requests; jobs are cancelled and retried |
| `AILineage` | `services/ai_resources.py`, `genai_telemetry.py` | `relation`, `edge`, `observed`, `imported`, and each request's session: what it loaded and what it will write at its one commit |
| `AccessControl` | the composition of `IdentityLifecycle`, `ServiceAccounts`, `AuthorizationSearch` and `AILineage`; searches see the exceptions of governance | `part` says which of them a behaviour exercises, as they share no other state |
| `EvidenceLifecycle` | `services/evidence.py`, its endpoints, reviews and jobs | `records`, `object` (the store, no part of a transaction), `disp`, `tasks`, handlers, requests; `cancels` are the running jobs asked to stop |
| `EvidenceSigning`, `Artifacts` | signing and verification; `graph_exports.py`, `evidence_packages.py`, `export_sinks.py` and their jobs | `artifact`, `stored`, `sunk`, each worker's `run`, the sources `edges` and `inside` (how many rows are in a package's window, which late ones enter and purged ones leave), `flagged` jobs asked to stop, a package `file` outside |
| `OwnershipCampaigns`, `OwnershipEscalations` | `services/ownership.py`, its endpoints, its scheduled passes | `campaign`, `assignment`, `sched`, each worker's pass or job, requests between load, decision and completion check; the escalation `event`, its delivery and job; `others` are the active campaigns that are due earlier and take a place in the batch |
| `RuntimeReceipts` | `services/runtime_authorization.py`, the evaluation endpoints of `v18.py`, `services/enforcement.py`, the SDK's enforcement point | `receipts` (a receipt of an open transaction is a `draft`, a deleted one `purged`), `events`, each client's request, answer, obligations and report, each worker's signing or purging pass |
| `IntegrationDeliveryProofs`, `OwnershipProofs`, `ConnectorScansProofs`, `GovernanceOutboxProofs`, `EvidenceLifecycleProofs`, `RuntimeReceiptsProofs`, `PolicyRolloutsProofs`, `AccessControlProofs` | theorems | see *Proofs* |

`MC*` modules give TLC symmetry sets and the values of constants that are
records. An operator introduced by the word *Mutant* is not part of the model:
it is a plausible bug of the definition below it, kept to show that a property
notices it.

Abstractions common to all: payloads, tenants, metrics and audit rows are left
out; timestamps become the bit the code asks of them (due or not, claim live or
stale), except in `ConnectorSchedules`, `ScanBudget`, `ServiceAccounts` and
`PolicyExceptions`, where comparisons of times are the point; a clock step may
happen at any moment, so every timeout can race everything else. A digest stands
for what it was computed from and a signature for its signer and contents.

## Runs

Constants whose comment starts with *bound* limit behaviours; `MaxLoad` or `MaxBusy` limits
the requests, crashes, failures and outside changes of a behaviour together.

| Run | Shows | Bounds and why they suffice |
|---|---|---|
| `jobs` | `OneClaimPerTurn` and, under fairness, `SettledOrStranded` on all interleavings | two workers, one job, two attempts, one crash, two requests of one client: every race in this table is between two writers of one row |
| `delivery_timely` | on timely schedules: `ImplementsJobQueue` (the abstract queue as a property), `ExclusiveRun`, `JobTellsDelivery` (completed means received; without a crash a final failure leaves a dead letter), `DeliveredStays` | two workers, two jobs, a delivery and its replay, two attempts, one crash, one request |
| `outbox` | `FannedOut` (a dispatched event has a delivery and a job at every enabled endpoint, no more jobs than claims), `EventSettles` | two overlapping dispatchers, one event, three attempts, one crash, so that an attempt is left after a recovery and a death; one endpoint, since endpoints are handled independently |
| `schedules` | `OneJobPerOccurrence` and, under fairness, `DueIsClaimed`: what is due is finally claimed | an interval and a cron schedule, four instants, one edit; windows that a search gets past and one that it does not; `MaxBusy` 3 allows two passes over one schedule or one pass over two; `OccurrencesUsedOnce` and `SinglesUsedOnce` prove `OneJobPerOccurrence` for any number of edits and instants, under their hypotheses |
| `schedules_batch` | finding: two passes over two schedules enqueue one occurrence twice | `MaxBusy` 4 |
| `scans` | `WithinBudget`, `GivesUpAfterWindows`; `WalkCovers`, `LowConfidenceReviewed` | two scan jobs, four windows, two updates of the limit, clock ticks finer than a second; three items in pages of one (the provider's of two), a client and a scheduled scan, four outside events |
| `rollouts` | `EnforcedWasReviewed`, `OneConfiguration`, `PromotionsEarned` and, under fairness, `ReplicasConverge` | two bundles, two rollouts, two processes (one serving decisions), two requests from any of the starting states, so that every pair of operations overlaps in every order |
| `receipts` | `AnswersStand`, `EnforcementSound`, `RecordsStay` and `ReceiptSettles` | any two of an SDK client, a batching client and two workers, with an earlier receipt waiting or not; three receipts, two keys, two requests, one crash |
| `evidence` | `ApprovalDecides`, `HoldRespected`, `DeletionRecorded` | one record on disk or S3, approval required or not, two dispositions, two requests in flight of three (a cancellation or retry of a job is one of them), two identities, two jobs, one crash |
| `artifacts` | `ContentsHold`, `TrustedIsGenuine`, `ArtifactEnds` | two artifacts that share a sink or not, two workers, two categories of up to two records, those of the second purged, three edges, two outside events (crashes, failures, cancellations, retries, rows that come late or go) |
| `ownership` | `CompletionIsExact`, `LaunchesOnce`, `QueuedIsSent`, `EscalationArrives` | two assets, two workers, two requests in flight, two occurrences, three outside events, among them the due date and what happens to the one earlier campaign; a batch of one, so that this campaign fills it |
| `access` | `CredentialsHold`, `WithdrawnStaysOut`; `DeprovisionSticks`, `DeprovisionEnds`; `ApprovalsGoverned`; `SearchCovers`, `PoliciesOnlyRestrict`; `LineageHolds` | two administrators and three credentials of one or two instants each; two SCIM clients, two workflows; two governance requests, two owners and a delegate; four candidates in pages of two with a scan limit of three; two models, two spans in three batches; three outside events |

Deadlock is not checked: an idle system with its bounds used up may stop. Every
module has a type invariant (`TypeOK` and the like); all hold on these
instances.

### Exceptions named by the properties

A property names what the code does not promise, so that nothing hides in a
bound. Most exempt requests that *overlap* on one row: the later commit
overwrites what the earlier one changed. `DeliveredStays` exempts a delivery
with several jobs, `SettledOrStranded` a job stranded by a dead worker or
pending with its cancellation requested, `EventSettles` and `ReceiptSettles` a
last allowed claim that died: the recoveries of `dispatch_outbox_events` and
`process_pending_receipts` only match rows with attempts left and, unlike
`recover_stale_jobs`, nothing fails the others. They stay `dispatching` or
`signing` for ever, and such a receipt is never purged. `EventSettles` also exempts
an abandoned event whose claim was erased, the subject of a finding below.

`DeletionRecorded` exempts an object whose direct deletion or purge died between
the store and the commit, and after a crash that of a disposition whose job waits
for recovery, failed again or is cancelled; cancellation alone exempts nothing.
`ArtifactEnds` exempts an artifact for what became of its own job, and only as
long as no run of it is left (`Stranded`): never enqueued, waiting for a recovery,
cancelled, expired in its last attempt, or ended under an overlapping run. A crash
that is recovered exempts nothing. `DueIsClaimed` exempts a schedule in front of
which one without a further run raises, `EscalationArrives` one whose campaign the
batch has no place for, `RetiredStaysOut` a key past its grace period when no later
key works.

### Timely schedules

The queue's design assumes that a handler ends before its claim is older than
the claim timeout and that a request commits on the row it loaded. The code
enforces neither. `TimelySpec` keeps exactly the steps that respect both; on it
the queue is exclusive and bounded, and implements `JobQueue`. On `Spec` these
fail: a slow worker whose claim was recovered still writes its copy of the row,
and can send a job back to `pending` after its last attempt; two overlapping
retries can requeue a job that has completed. What holds on every schedule is
`OneClaimPerTurn`. The modules composed with `JobQueue` inherit the assumption,
except `Artifacts` and `OwnershipEscalations`, which let slow workers be
overtaken.

### Fairness

A started worker keeps running its loop, its handlers end (their I/O has
timeouts), dead workers and dispatchers are restarted (`docker-compose.yml` has
`restart: unless-stopped`), and clocks advance. No fairness is given to crashes,
requests or restarts of healthy workers. `recover_stale_jobs` runs only when a
worker starts, so recovery of jobs has no fairness either; hence
`SettledOrStranded` and `ArtifactEnds` name stranded jobs, and in
`EvidenceLifecycle` and `IdentityLifecycle` a job lost to a dead worker need not
be recovered. API requests run to their end once they
have begun, unless their process dies. In `PolicyRollouts` decisions keep being
asked for and the cache intervals elapse; `ReplicasConverge` needs the last of
these. In `RuntimeReceipts` clients are not fair: they may stop anywhere. In
`OwnershipEscalations` the time of the next attempt comes and dead workers are
started again, while nothing obliges the earlier campaigns to end. In
`ConnectorSchedules` a pass may die at any statement, but the passes do not all die
at the same one: selection, claim and reload are strongly fair, as a worker that is
started again begins the next pass.

## Findings

- **Duplicate scheduled scan** (`schedules_batch`). The compare-and-update of
  `enqueue_due_schedules` compares with a value reloaded after the previous
  commit, so for every schedule but the first it no longer compares with what
  was selected; `docs/SCHEDULING_AND_RATE_LIMITS.md:34` promises that it
  prevents duplicates.

Six more disagreements with the documentation can be seen with the same
instances by checking a definition that is kept in its module for this:

- **Claim erased** (`AbandonedKeepsClaim` of `GovernanceOutbox` in `outbox`). When
  a commit of the fan-out has expired the event, the `except` branch of
  `dispatch_outbox_events` assigns `claimed_at` before it reloads the row
  (`outbox.py:150`), so NULL is written also over the claim of a dispatcher that
  has taken the event after a recovery. If that one dies, `claimed_at < cutoff`
  never holds: the event stays `dispatching` with attempts left, while
  `docs/INTEGRATIONS.md:23` promises that stale claims are recovered.
- **Retired key comes back** (`GraceEnds` of `ServiceAccounts` in `access`).
  `rotate_service_account` takes the latest active unexpired credential
  (`service_accounts.py:118`), also one already retired, and gives it a new grace
  period (`:143`). A key rotated to one of a shorter lifetime is picked again when
  the newer one has expired, and authenticates again without any overlap;
  `docs/SERVICE_ACCOUNTS.md:15` says that credentials past their grace period are
  rejected.
- **Escalation starved** (`DueStageIsClaimed` of `OwnershipEscalations` in
  `ownership`). The pass takes the first `limit` active campaigns with a policy by
  due date (`ownership.py:624`) and only then looks for stages that are due.
  Campaigns escalated long ago, or whose policy is disabled, keep their places
  until they end, so a batch full of them (50 by default) keeps later stages from
  ever being claimed; `docs/BACKGROUND_JOBS.md:26` says that workers claim due
  stages.
- **Lost cancellation** (`NoCancelledPending` of `BackgroundJobs` in `jobs`;
  `docs/BACKGROUND_JOBS.md:40`). The `except` branch of `execute_job`
  (`jobs.py:187`) decides on the session's copy. If the handler made no commit,
  the copy predates a cancellation made meanwhile; the job becomes `pending`
  with `cancel_requested` set, and the claim query skips it for ever.
- **Missing dead letter** (`FailedIsDeadLetter` of `IntegrationDelivery` in
  `delivery_timely`; `docs/INTEGRATIONS.md:29`). `recover_stale_jobs`
  (`jobs.py:244`) fails a job without `mark_delivery_dead_letter`.
- **Activation missed by its own process** (`LocalActivationVisible` of
  `PolicyRollouts` in `rollouts`; `docs/SCALING.md:64`).
  `_effective_policy_definitions` (`policy.py:172`) stores what it read before
  the activation after the activation has cleared the cache. The rollout cache
  loads under its lock and is not affected.

The exceptions in the properties stand for the following, each a path of the
model that the code takes too.

Queue and integrations. A crash between the commit that claims an occurrence
and the one that enqueues its scan loses the occurrence. `OneActiveBundle`
without its exemption fails: two activations that overlap leave two bundles
active (`_activate_policy_bundle` takes no lock).

Connectors. SharePoint's `items[:max_items]` drops the rest of a provider page
although the cursor moves past it (`docs/CONNECTOR_SDK.md:19`). GitHub's pages
are sorted by update time and skip items when others change in between. A
tenant's connector policy replaces the deployment's entirely. Overlapping scans
can open two reviews for an asset or none, and a rescan overwrites a human
correction. A scheduled scan always starts from the cursor in its payload.

Policies and exceptions. Of two overlapping renewal requests one may keep the
requester column of the other (an unchanged column is not written,
`policy_governance.py:171`), so that a requester may approve her own extension
(`docs/POLICY_GOVERNANCE.md:37`). An expired exception whose renewal is pending
can still be approved and comes back; a stale renewal can shorten an expiry
extended meanwhile; a revoked exception leaves its renewal's review open, and so
does an approval that overtakes the creation of the task. An exception for one
policy lifts the denials of all other matching policies and of an unapproved
agent. Among several matching exceptions the choice is not ordered. A search
offset shifts when a row before it comes or goes, and a page that fills exactly
at the end is followed by an empty one.

Evidence. On S3 a crash between the deletion of an object and its commit leaves
the disposition approved for good: `head_object` fails for ever
(`evidence.py:284`). A crash between the commit of an approval and its job does
the same and blocks new dispositions. A review task overtaken by the decision
stays open. Of an overlapping approval and rejection the later commit wins. A
hold placed between the test and the deletion is not seen. `execute_disposition`
does not look at `retention_until`, and dispositions requested by retention get
no review task.

Artifacts. A package's window is not fixed: enforcement events and telemetry carry
the dates their clients report (`enforcement.py:80`, `genai_telemetry.py:307`), so
rows enter a window that is over, and receipts are purged from it
(`runtime_authorization.py:395`); a package made again after a failed attempt can
differ from what the first attempt read. A package whose limit is reached exactly is flagged truncated when
the next category is empty. The window of its analytics ends when it is made,
that of its records when it was requested. Two exports with one sink URI
overwrite each other. Overlapping runs of one job replace the object after the
commit of its digest. A crash in the last attempt, or between the row and its
job, leaves the row pending or running for ever, and so does a cancelled job.

Ownership. A disabled escalation policy fails every scheduled launch. A violated
unique key in a job's handler ends the worker. A crash between a decision and
the completion check leaves the campaign active for good. A slow worker whose
claim was taken over can set a queued escalation back. The completed event may be
queued twice. A dispute that overlaps a confirmation leaves a completed campaign
with an open assignment.

Connector schedules. A schedule reloaded in a batch can have its next occurrence
claimed early. One that is due and has no further run within the reach of the
search (`schedules.py:183`, `:197`) raises in every pass, which ends each worker
before it comes to the schedules behind.

Accounts. A pending workflow without a job (a crash between the commits or in a
last attempt, or a cancelled job) makes every later DELETE a no-op. A stale
group PATCH lists a removed member again. A DELETE while a workflow is pending
after a reactivation leaves `active` true in the JSON, so that a later PATCH
reactivates the user. Overlapping rotations can bring a retired credential back;
a rotation that overlaps a disabling leaves an active credential on a disabled
account, which does not authenticate.

AI inventory. A span repeated within a batch is counted as a duplicate only if
a flush has happened in between; otherwise the unique key fails the whole batch
(`genai_telemetry.py:59`; `docs/GENAI_TELEMETRY.md:26`). An event id observed
before for another model fails every batch that contains it. Overlapping
requests about one relationship lose counts or leave the edge's metadata behind
(`ai_resources.py:191`).

## Proofs

Checked by TLAPS for all values of the constants that satisfy the assumptions
named in the modules: the bounds are natural numbers and limits of attempts
positive (`BoundsAssumption`, `DeliveriesAssumption`, `BudgetAssumption`,
`OutboxAssumption`, `EvidenceAssumption`, `ReceiptsAssumption`,
`RolloutAssumption`, `AccountsAssumption`, `IdentityAssumption`,
`ExceptionsAssumption`, `LoadAssumption`, `EscalationsAssumption`, which also says
that finitely many campaigns are due earlier), the sets of identities, requests and
the like are what their names say, and a value that stands for nobody or for no key is no member
of its set (`NobodyAssumption`, `KeysAssumption`, `LineageAssumption`, which also
says that there are finitely many events and that a batch is a sequence of
spans; `OwnershipAssumption`: `"none"`, which stands for no asset, is not one, 0 is no
job, and a scope that can be launched is not empty; `ArtifactsAssumption`, which also
says that the foreign signer is not the profile's). `BundleAssumption` is what
`validate_policy_definitions` checks of a policy (`policy_engine.py:72`): a known
decision and a risk from 0 to 100. `ScanAssumption` and `CatalogAssumption` say
what the request schemas do, that a window and `max_items` are at least 1
(`schemas.py:254`, `:121`, `:133`), that items are numbered in the order of their
keys, and that the client is a scanner. `SearchAssumption`: finitely many
candidates, known by their ids, and pages of at least one (`schemas.py:580`,
`authzen_search.py:237`); 0 is the search of no token. `ScheduleAssumption`: an interval is at
least 1 (`schemas.py:225`). The proofs take the bounds as they are, never their values in
a run. Every inductive invariant below was first checked by TLC as an invariant
of the run's instance.

- `IntegrationDeliveryProofs`, the queue. `JobsTypeOK` and `JobsOneClaim` hold on
  every schedule. `OneClaimPerTurn` is inductive together with `TypeOK`: its last
  conjunct (a pending row's turn is not claimed yet) is what the guarded update
  needs. `JobsTimelyInv` proves the invariant of timely schedules. Exclusive
  execution alone is not inductive: a second claim is excluded because a held
  job is `running` under a live claim (`HeldIsLive`), which recovery and the
  claim query respect; the bound on attempts needs that the copy deciding a
  failure has the row's attempts (`CopiesCount`) and that whatever is pending
  has an attempt left (`PendingHasAttempts`); and a completed job stays so
  because a retry in flight was accepted for a failed or cancelled one
  (`RetriesFinished`). `JobsExclusive`, `JobsAttempts` and
  `JobsCompletedStaysDone` follow. `JobsImplementQueue` is
  `TimelySpec => ImplementsJobQueue`: under the mapping `Seen` the initial table
  is the empty queue, and every step under `TimelyInv` is one operation of
  `JobQueue` or leaves it alone. One lemma per kind of commit shows which: a
  request is judged on the row it overwrites, because on timely schedules its
  copy is that row; a worker's commit fails or completes a running job whose
  attempts its copy knows; a recovery is one `Recover` of all the stale rows at
  once. The modules that are composed with `JobQueue` therefore rely on what
  `jobs.py` provides.
- `IntegrationDeliveryProofs`, the deliveries. The handler runs in the middle of
  a job, so every step of `IntegrationDelivery` is first shown to be a step of
  `BackgroundJobs` or to leave the queue alone: `DeliveriesExclusive` and
  `DeliveriesImplementQueue` carry the queue's theorems over to the composition.
  `DeliveryInvariant` adds where `deliver_integration` is when `execute_job` is
  at each of its places (`StepShapes`), that the session at work has loaded a
  running job (`CopiesRunning`), that a delivery is committed before its job
  (`PayloadsKnown`), and that a handler with an answer knows its delivery
  received (`AnswersKnown`); a completed job is then a received delivery whatever
  crashes. The other half of `DeliveriesTold`, a failed job has a dead letter, is
  true only while no worker dies, and needs three more parts: a running job has a
  worker (`RunningHeld`), a failed delivery has a job or a handler that will still
  take it further (`FailedMinded`), and one never attempted has no failed job
  (`PendingFresh`). `DeliveriesStay` is the action property, from
  `DeliveredRests`: the only job of a delivered delivery does not send again.
- `OwnershipProofs`. `CampaignsComplete` is `CompletionIsExact`. The completion
  check reads assignments that other requests are deciding, so the invariant says
  what a request knows when it commits: two requests on one assignment are on
  record as overlapping (`RequestsApart`), one that met no other overwrites what
  it loaded (`DecisionsFresh`), and what it found before it completes a campaign
  still holds (`FinishKnown`), because nothing re-opens a decided assignment but
  a decision that overlapped another. `CampaignsLaunch` is an account
  (`PlansCovered`): the jobs of an occurrence, the passes about to enqueue one and
  the occurrence's being next are together at most the times it was planned; the
  compare-and-update moves one from the second term to the first, a crash loses
  one, an edit that plans it again adds one on both sides. `StagesSent` is an
  action property from `EscalationInv`: an event is marked only by a worker that
  has seen both its delivery and the job of it, and is in the hands of one worker
  while no claim was taken over.
- `ConnectorScansProofs`, the budget. `BudgetInvariant`: `used_requests` counts
  every admission of its window, and a pending charge can only succeed on the
  window and count it was decided on. `BudgetHolds` is the limit itself, for the
  endpoints and workers of `ProviderBudget` alone, `ScansWithinBudget` for the
  scan jobs over them. `ScansGiveUp` needs `ScansInvariant`: windows that refused
  a job are not to come (`SpentIsPast`), a job the window in force has refused is
  pending until that window's end (`WaitsForWindow`, which needs that a window
  not over ends later, `WindowGoesOn`), so a refusal always adds a new window to
  those that account for the attempts (`AttemptsAccounted`).
- `ConnectorScansProofs`, the catalog. `WalksCover` is proved once for the three
  kinds of cursors: `WalkKnown` says that what is `Behind` the client's cursor has
  been ingested, and that a batch leaves nothing out between the cursor and the
  next one (`Covered`). Keys cover because a page holds the smallest keys after
  the cursor (`Lowest`, `LastKey`: the least of a finite set exists, as finite
  sets are well founded under strict inclusion); page numbers cover while the
  listing does not change; a delta while its pages fit into `max_items`.
  `LowConfidenceIsReviewed` needs `ScansApart`: as long as nothing overlapped,
  the one scan under way commits over the rows that it has loaded.
- `ConnectorScansProofs`, the schedules. `PlanInvariant` is what the account below
  needs of the arithmetic: what `next_schedule_run` and `next_cron_run` find is
  later than the pass (`NextRunIsPlanned`, by `CandidateIsNext` for intervals), and
  a copy not reloaded was due when the pass began (`PassKnown`).
  `OccurrencesUsedOnce` is an account again (`OccurrenceInv`): the jobs of a
  schedule and the passes about to enqueue one (`Used`) are fewer than the
  occurrences planned, and fewer by two where the next run is later than a pass
  believes. A claim adds one to `Used`, and the run it plans is another instant
  than a copy that was due, so it adds one to the plan as well. This breaks where
  a reloaded copy is claimed that another worker has moved, which `schedules_batch`
  shows; the theorem's hypothesis `BatchesAlone` (no other pass runs beside one
  over several schedules) excludes that overlap. `SinglesUsedOnce` shows that with
  one schedule or one worker no hypothesis about the behaviour is needed.
- `GovernanceOutboxProofs`. `OutboxFansOut` is `FannedOut`. That a dispatched
  event reached every endpoint follows from what a dispatcher has behind it
  (`BehindIsQueued`): every enabled endpoint that is neither on its list nor in
  its hands has a delivery and a job. `LookupDelivery` skips an endpoint whose
  delivery is already delivered, which is sound because a delivery is delivered
  only through a job (`DeliveredHadJob`). The bound on jobs is an account
  (`ClaimsCoverJobs`): for each event and endpoint, the jobs enqueued and the
  dispatchers that may still enqueue one are together at most the event's
  claims; a claim adds one to both sides, an enqueue moves one, a crash loses
  one. It needs the cardinality of a changing set of dispatchers, hence the
  lemmas about finite sets.
- `EvidenceLifecycleProofs`. `EvidenceApproval` and `EvidenceHolds`. A handler
  deletes long after its tests, so the invariant keeps what it still knows:
  `JobsSanctioned` (a handler past its tests works for a disposition that is
  decided and has a second approver, or for retention where no approval is
  required; a disposition never leaves that state, except through requests that
  met), `HoldsSeen` (between the test and the deletion the record is held only by
  a hold that came late). Deleted objects keep their sanction
  (`DeletedWasSanctioned`). A decision that another request overlaps is what the
  exception is for: `RequestsMeet` says that two requests on one disposition have
  met and that one that was alone still finds it pending, which is what a commit
  of an approval, a rejection or a review relies on. `RequestsCarry` is each
  request's own knowledge, `TasksHaveSubjects` and `QueueCounts` what reviews
  and jobs need.
- `EvidenceLifecycleProofs`, exports and packages. `ContentsKept`: a handler writes
  the object first and the digest to the row later, so the invariant says that the
  object is still what the handler holds (`StoredIsKept`). Only another run of the
  same job or an export with the same sink can replace it in between; `RunsAlone`
  says that a job has a second run only if it was recovered under its worker, and
  that nobody but this one run completes the row. A package reads its categories one after the other while rows enter and leave
  the window. `PackagesGather` says of a run under way that each section taken so far
  is what was in the window when it was read, as far as the limit left room
  (`GatheringStarts`, `GatheringGoesOn`, `GatheringEnds`), and `WindowsGrow` that
  where nothing is purged no row of the window at the request has gone. The count
  of the rows before a category is a recursive function: `RowsCounted` shows that it
  exists, `LimitLeaves` and `RowsAgree` what it says of the limit. They go through
  the numbers of the categories by `Upward`, which is induction for a set instead of
  an operator and follows from finite sets being well founded under strict inclusion. `TrustedPackages` rests on
  `TrustedUnaltered`, which is about documents only: the certified signer excludes
  what others signed, the signature fixes the manifest, the manifest the payload.
- `RuntimeReceiptsProofs`. `ReceiptsStand` needs the transaction of a batch
  (`Transaction`): its drafts are its own and uncommitted, its answer consists of
  drafts and committed receipts that match what was asked, and the keys of what
  is still to do are apart from each other and from its drafts. `KeysUnique` (the
  table's unique constraint) then gives one receipt per key across transactions,
  and `DraftsOwned` that a commit publishes its own rows only. `ReceiptsEnforced`
  needs `Enforcement` (an operation is started only by a client that is entitled
  by its receipt, and a report says applied only of one that ran) and that events
  name committed receipts (`EventsHold`), whose permit and obligations no later
  step rewrites. `ReceiptsRecorded` needs `ClaimsHold`: while no signer has
  outlived its claim, a held receipt is held alone and in time, and what a purge
  has selected is still due when it deletes.
- `PolicyRolloutsProofs`. `EnforcedReviewed` holds whatever requests overlap and
  however old caches are, because approval is never taken back:
  `BundlesReviewed`, `RequestVetted`, `RolloutsVetted` and `CacheVetted` say it
  of the tables, of requests in flight, of rollouts and of caches and decisions.
  `RolloutsPromoted` needs `CanariesSeen` (who asks to enforce a rollout has seen
  it as a canary) and, for the row that records the outcome, what a request whose
  tables are current knows of them (`RequestKnows`). `RolloutsAgree` states the
  three parts of `OneConfiguration` with the condition each has: one active
  bundle and the visibility of a local change hold on every database; one active
  rollout only where creation takes the advisory lock, that is under PostgreSQL
  (`LockHeld`). On another database two creations that overlap can both find no
  active rollout.
- `AccessControlProofs`. `AccessInvariant` conjoins one inductive invariant per
  part, as the parts share no state but the exceptions that a search reads.
  `CredentialsStand` needs `AccountHasKey`, which names the witness: the
  credential issued last is active and never retired (`InUse`). Overlapping
  rotations cannot take it away, since a rotation retires only a credential that
  has a successor (`RotationsSupersede`, `AdminKnows`), and keys are issued in the
  order of their rows (`IssuedInOrder`); nothing is said of their lifetimes, which
  each request chooses. `Deprovisioning` needs that a request or
  handler that met no other has a copy equal to the row it overwrites
  (`CopiesFresh`) and that what a workflow does is kept in steps: deactivated
  when it is requested, out of the group when it is completed
  (`RequestsDeactivate`). `Approvals` needs what a renewal under way found
  (`RenewalKnown`: the row still holds what it loaded, and an approver is not the
  requester) and where the one request about a subject stands between the commit
  of its state and that of its review (`ReviewKnown`). `Lineage` needs what each
  session has loaded and what it will write: its copy counts one more than the
  loaded row for each observation it adds (`CopyKnown`), and sessions that share
  a relationship are on record (`SessionsApart`); the commit then adds disjoint
  finite sets of observations. `Withdrawal` is an action property. For keys of any lifetimes it rests on what a
  rotation under way knows (`AdminKnows`, `ReplacesLatest`): every key issued after
  the one it is about to retire is revoked or expired, so a key that a later one
  supersedes gets no new grace period unless rotations overlapped. `SearchesCover` needs that a walk
  has returned just those steady and permitted candidates that precede the offset
  of its token (`ReturnedOnce`), under the search that the token names
  (`WalkKnown`). A page then adds the first rows of the rest: `FirstCounts` shows
  that the first n rows are n unless there are fewer, `FirstOfRest` that the first
  n of the rest follow the first o rows up to the first o + n, and
  `ConsumedBounds` that a page which is neither full nor at the scan limit has
  tested every candidate left. `AccessTypeOK` collects the types.
- `Restriction` in the same module is about functions, not steps. `Harshest` and
  `MorePoliciesDecide` show that more matches give a decision at least as harsh,
  `MorePoliciesRisk` that they give no lower risk (`Greatest`: the maximum of a set
  of risks exists, by `Least`, which rests on finite sets being well founded
  under strict inclusion), `MorePoliciesRestrict` that both decision rules are monotone in
  these. An exception is looked up by the policies that matched, so with an
  exception for other policies both bundles find the same one.

Out of the prover's reach are liveness and fairness: `SettledOrStranded`,
`EventSettles`, `DueIsClaimed`, `ReceiptSettles`, `ReplicasConverge`, `DeletionRecorded`,
`ArtifactEnds`, `EscalationArrives` and `DeprovisionEnds` stay with TLC. Every
safety property that the passing runs check is stated by a theorem, under the
assumptions and hypotheses named above.

## Plan

Models next: replays of rollouts and the outbox event of each change; overdue
reviews; the phases of the worker's loop in one process.

## Not modelled

The entitlement graph and text search are read-only; token exchange,
authentication and secrets keep no state but a key cache; operations,
benchmarks, demo data, the dashboard and the MCP server are tooling around the
API. Validation, pages and listings of the API, payload formats of integrations,
parsing of cron fields, OTLP and SCIM filters, the model-backed classifier,
cryptography and network calls are data to the models or external. The components
table of `PROJECT.json` gives the reason for each.
