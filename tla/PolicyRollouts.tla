--------------------------- MODULE PolicyRollouts ---------------------------
(***************************************************************************)
(* Policy bundles (the endpoints of app/v13.py), policy rollouts           *)
(* (app/services/policy_rollouts.py) and the per-process caches through    *)
(* which runtime decisions see them (app/services/policy.py).              *)
(*                                                                         *)
(* An administrative request loads its target, looks up what else it       *)
(* needs, commits, and then invalidates the caches of its own process.     *)
(* Each process serves one request and one decision at a time; the traffic *)
(* percentage of a canary becomes a free choice of the requests selected.  *)
(***************************************************************************)
EXTENDS Integers, FiniteSets

CONSTANTS
    Bundles,        \* policy_bundles of a tenant
    Rollouts,       \* policy_rollouts of a tenant
    Subjects,       \* authenticated identities
    Approvers,      \* administrators and identities with a live delegation
    Development,    \* the subject "development" of a server without authentication
    Processes,      \* API processes, each with its caches
    Deciders,       \* bound: the processes that are asked for decisions
    PostgreSQL,     \* whether the advisory lock of create_rollout exists
    StartStatus,    \* bound: the statuses bundles start with
    MaxRequests     \* bound: administrative requests

BundleStatus == {"absent", "draft", "pending", "approved", "active", "retired"}

ASSUME RolloutAssumption ==
    /\ Approvers \cup Development \subseteq Subjects
    /\ Deciders \subseteq Processes
    /\ PostgreSQL \in BOOLEAN
    /\ StartStatus \subseteq BundleStatus
    /\ MaxRequests \in Nat

Nobody == "nobody"
ASSUME NobodyAssumption == Nobody \notin Subjects

VARIABLES
    bundles,    \* the table
    rollouts,   \* the table
    req,        \* each process's administrative request
    pcache,     \* each process's _POLICY_CACHE entry
    rcache,     \* each process's _ROLLOUT_CACHE entry
    decision,   \* each process's runtime decision in progress
    used,       \* requests begun, for the bound
    hist        \* history, see History

vars == <<bundles, rollouts, req, pcache, rcache, decision, used, hist>>

Bundle == [status : BundleStatus, author : Subjects \cup {Nobody},
           approver : Subjects \cup {Nobody}, activated : Nat]

NoBundle == [status |-> "absent", author |-> Nobody, approver |-> Nobody,
             activated |-> 0]

Stages == {"shadow", "canary", "paused", "enforce", "completed"}
Rollout == [status : {"absent", "active", "completed"}, stage : Stages,
            bundle : SUBSET Bundles]
NoRollout == [status |-> "absent", stage |-> "shadow", bundle |-> {}]

(***************************************************************************)
(* A request: its operation, where it is, its target bundle and rollout,   *)
(* the stage asked for, the approver and the approver it loaded, the       *)
(* active bundle it found (at most one), utc_now of the activation, and    *)
(* whether the tables are still as it loaded them.                         *)
(***************************************************************************)
Operations == {"none", "submit", "approve", "activate", "rollback", "create", "advance"}
Request == [op : Operations, at : {"idle", "loaded", "located", "committed"},
            bundle : SUBSET Bundles, rollout : SUBSET Rollouts, stage : Stages,
            by : Subjects \cup {Nobody}, copy : Subjects \cup {Nobody},
            active : SUBSET Bundles, now : Nat, current : BOOLEAN]
IdleRequest == [op |-> "none", at |-> "idle", bundle |-> {}, rollout |-> {},
                stage |-> "shadow", by |-> Nobody, copy |-> Nobody,
                active |-> {}, now |-> 0, current |-> TRUE]

\* A cache entry: valid or not, what was read, and (history) whether a request
\* of the same process has since committed a change.
PolicyEntry == [live : BOOLEAN, bundle : SUBSET Bundles, old : BOOLEAN]
RolloutEntry == [live : BOOLEAN, config : SUBSET [stage : Stages, bundle : SUBSET Bundles],
                 old : BOOLEAN]
NoPolicyEntry == [live |-> FALSE, bundle |-> {}, old |-> FALSE]
NoRolloutEntry == [live |-> FALSE, config |-> {}, old |-> FALSE]

\* A decision: the baseline it found, old as above.
Decision == [at : {"idle", "read", "ready"}, bundle : SUBSET Bundles, old : BOOLEAN]
NoDecision == [at |-> "idle", bundle |-> {}, old |-> FALSE]

(***************************************************************************)
(* History: the last reading of the clock, the rollouts that have been     *)
(* canaries, those that activated their bundle, and whether every commit   *)
(* so far was on the tables its request had loaded.                        *)
(***************************************************************************)
History == [clock : Nat, canaried : SUBSET Rollouts, promoted : SUBSET Rollouts,
            clean : BOOLEAN]

\* Approved by an eligible identity other than the author.
Reviewed(row) ==
    row.approver \in Approvers /\ (row.approver # row.author \/ row.approver \in Development)

Active == {b \in Bundles : bundles[b].status = "active"}

\* A quiescent state: reviewed bundles, at most one of them active, and no
\* rollout or one in progress for an approved bundle.
Init ==
    /\ bundles \in [Bundles -> [status : StartStatus, author : Subjects \cup {Nobody},
                                approver : Subjects \cup {Nobody}, activated : 0..2]]
    /\ \A b \in Bundles :
        LET r == bundles[b] IN
        /\ r.activated = CASE r.status = "active" -> 2 [] r.status = "retired" -> 1
                           [] OTHER -> 0
        /\ r.author = Nobody <=> r.status = "absent"
        /\ IF r.status \in {"absent", "draft", "pending"} THEN r.approver = Nobody
                                                         ELSE Reviewed(r)
    /\ \A a, b \in Active : a = b
    /\ rollouts \in [Rollouts -> {NoRollout} \cup
            [status : {"active"}, stage : {"shadow", "canary"}, bundle : SUBSET Bundles]]
    /\ \A r \in Rollouts : rollouts[r].status = "active" =>
        \E b \in Bundles : bundles[b].status = "approved" /\ rollouts[r].bundle = {b}
    /\ \A r, s \in Rollouts :
        rollouts[r].status = "active" /\ rollouts[s].status = "active" => r = s
    /\ req = [p \in Processes |-> IdleRequest]
    /\ pcache = [p \in Processes |-> NoPolicyEntry]
    /\ rcache = [p \in Processes |-> NoRolloutEntry]
    /\ decision = [p \in Processes |-> NoDecision]
    /\ used = 0
    /\ hist = [clock |-> 2, promoted |-> {}, clean |-> TRUE,
               canaried |-> {r \in Rollouts : rollouts[r].stage = "canary"}]

-----------------------------------------------------------------------------
(***************************************************************************)
(* Administrative requests.                                                *)
(***************************************************************************)
create_policy_bundle(b, s) ==
    /\ bundles[b].status = "absent"
    /\ used < MaxRequests
    /\ used' = used + 1
    /\ bundles' = [bundles EXCEPT ![b] = [NoBundle EXCEPT !.status = "draft",
                                                          !.author = s]]
    /\ UNCHANGED <<rollouts, req, pcache, rcache, decision, hist>>

\* Mutant: an author may approve.
ApprovalAllowedSelf(row, s) == row.status = "pending" /\ s \in Approvers

ApprovalAllowed(row, s) ==
    row.status = "pending" /\ s \in Approvers /\ (row.author # s \/ s \in Development)

\* What each endpoint requires of the bundle it loads.
BundleAccepts(op, row, s) ==
    CASE op = "submit"   -> row.status = "draft"
      [] op = "approve"  -> ApprovalAllowed(row, s)
      [] op = "activate" -> row.status = "approved"
      [] op = "rollback" -> row.status \in {"retired", "approved"}

Begin(p, request) ==
    /\ req[p].at = "idle"
    /\ used < MaxRequests
    /\ used' = used + 1
    /\ req' = [req EXCEPT ![p] = [request EXCEPT !.at = "loaded"]]
    /\ UNCHANGED <<bundles, rollouts, pcache, rcache, decision, hist>>

BeginBundleRequest(p, op, b, s) ==
    /\ BundleAccepts(op, bundles[b], s)
    /\ op # "approve" => s = bundles[b].author
    /\ Begin(p, [IdleRequest EXCEPT !.op = op, !.bundle = {b},
                                    !.by = IF op = "approve" THEN s ELSE Nobody,
                                    !.copy = IF op = "approve" THEN bundles[b].approver
                                                               ELSE Nobody])

\* create_rollout finds no active rollout; on PostgreSQL the advisory lock
\* keeps every other creation out until the commit.
NoneActive(p) ==
    /\ PostgreSQL => \A q \in Processes : ~(req[q].op = "create" /\ req[q].at = "loaded")
    /\ \A r \in Rollouts : rollouts[r].status # "active"

create_rollout(p, r, b, stage) ==
    /\ NoneActive(p)
    /\ rollouts[r].status = "absent"
    /\ \A q \in Processes : r \notin req[q].rollout
    /\ bundles[b].status = "approved"
    /\ Begin(p, [IdleRequest EXCEPT !.op = "create", !.rollout = {r}, !.bundle = {b},
                                    !.stage = stage])

\* Mutant: shadow may go straight to enforce.
TransitionsOpen ==
    [shadow |-> {"canary", "enforce", "paused", "completed"},
     canary |-> {"shadow", "enforce", "paused", "completed"},
     paused |-> {"shadow", "canary", "completed"}]

Transitions ==
    [shadow |-> {"canary", "paused", "completed"},
     canary |-> {"shadow", "enforce", "paused", "completed"},
     paused |-> {"shadow", "canary", "completed"}]

BeginAdvance(p, r, stage) ==
    /\ rollouts[r].status = "active"
    /\ rollouts[r].stage \in DOMAIN Transitions
    /\ stage \in Transitions[rollouts[r].stage]
    /\ Begin(p, [IdleRequest EXCEPT !.op = "advance", !.rollout = {r}, !.stage = stage,
                                    !.bundle = rollouts[r].bundle])

\* Whether the request changes a rollout, and whether it activates its bundle.
ChangesRollout(q) == q.op \in {"create", "advance"}
Activates(q) ==
    q.op \in {"activate", "rollback"} \/ (q.op = "advance" /\ q.stage = "enforce")

\* The activation looks for an active bundle; enforcing first reads whether
\* the candidate is still approved and answers 400 if not.
Locate(p) ==
    /\ req[p].at = "loaded"
    /\ Activates(req[p])
    /\ IF req[p].op = "advance" /\ \E b \in req[p].bundle : bundles[b].status # "approved"
       THEN /\ req' = [req EXCEPT ![p] = IdleRequest]
            /\ UNCHANGED hist
       ELSE /\ \E found \in IF Active = {} THEN {{}} ELSE {{a} : a \in Active} :
                req' = [req EXCEPT ![p] = [@ EXCEPT !.at = "located", !.active = found,
                                                    !.now = hist.clock + 1]]
            /\ hist' = [hist EXCEPT !.clock = @ + 1]
    /\ UNCHANGED <<bundles, rollouts, pcache, rcache, decision, used>>

-----------------------------------------------------------------------------
(***************************************************************************)
(* Commits.  Every status assigned differs from the one loaded, so it is   *)
(* written whatever the row says by now.                                   *)
(***************************************************************************)
activate_bundle(b, q) ==
    IF b \in q.bundle
    THEN [bundles[b] EXCEPT !.status = "active", !.activated = q.now]
    ELSE IF b \in q.active THEN [bundles[b] EXCEPT !.status = "retired"]
    ELSE bundles[b]

BundlesAfter(q) ==
    CASE q.op = "submit" ->
            [b \in Bundles |-> IF b \in q.bundle
                               THEN [bundles[b] EXCEPT !.status = "pending"]
                               ELSE bundles[b]]
      [] q.op = "approve" ->
            [b \in Bundles |-> IF b \in q.bundle
                               THEN [bundles[b] EXCEPT !.status = "approved",
                                        !.approver = IF q.by = q.copy THEN @ ELSE q.by]
                               ELSE bundles[b]]
      [] Activates(q) -> [b \in Bundles |-> activate_bundle(b, q)]
      [] OTHER -> bundles

RolloutsAfter(q) ==
    CASE q.op = "create" ->
            [r \in Rollouts |-> IF r \in q.rollout
                                THEN [status |-> "active", stage |-> q.stage, bundle |-> q.bundle]
                                ELSE rollouts[r]]
      [] q.op = "advance" ->
            [r \in Rollouts |-> IF r \in q.rollout
                                THEN [rollouts[r] EXCEPT !.stage = q.stage,
                                        !.status = IF q.stage \in {"enforce", "completed"}
                                                   THEN "completed" ELSE @]
                                ELSE rollouts[r]]
      [] OTHER -> rollouts

Commit(p) ==
    LET q == req[p] IN
    /\ q.at = IF Activates(q) THEN "located" ELSE "loaded"
    /\ bundles' = BundlesAfter(q)
    /\ rollouts' = RolloutsAfter(q)
    /\ req' = [i \in Processes |->
                IF i = p THEN [q EXCEPT !.at = "committed"]
                ELSE [req[i] EXCEPT !.current = req[i].at \in {"idle", "committed"}]]
    /\ hist' = [hist EXCEPT
            !.clean = @ /\ q.current,
            !.canaried = IF q.op \in {"create", "advance"} /\ q.stage = "canary"
                         THEN @ \cup q.rollout ELSE @,
            !.promoted = IF q.op = "advance" /\ q.stage = "enforce"
                         THEN @ \cup q.rollout ELSE @]
    /\ rcache' = [rcache EXCEPT ![p].old = @ \/ (rcache[p].live /\ ChangesRollout(q))]
    /\ pcache' = [pcache EXCEPT ![p].old = @ \/ (pcache[p].live /\ Activates(q))]
    /\ decision' = [decision EXCEPT ![p].old =
                        @ \/ (decision[p].at = "read" /\ Activates(q))]
    /\ UNCHANGED used

\* Mutant: a change of a rollout leaves the rollout cache alone.
InvalidatesRolloutNever(q) == FALSE

InvalidatesRollout(q) == q.op \in {"create", "advance"}

InvalidatesPolicy(q) == q.op \in {"activate", "rollback", "advance"}

\* invalidate_rollout_cache and invalidate_policy_cache, and the response.
Respond(p) ==
    LET q == req[p] IN
    /\ q.at = "committed"
    /\ rcache' = IF InvalidatesRollout(q) THEN [rcache EXCEPT ![p] = NoRolloutEntry]
                                          ELSE rcache
    /\ pcache' = IF InvalidatesPolicy(q) THEN [pcache EXCEPT ![p] = NoPolicyEntry]
                                         ELSE pcache
    /\ req' = [req EXCEPT ![p] = IdleRequest]
    /\ UNCHANGED <<bundles, rollouts, decision, used, hist>>

-----------------------------------------------------------------------------
(***************************************************************************)
(* Runtime decisions: _effective_policy_definitions, then runtime_rollout. *)
(***************************************************************************)
\* The newest active bundle, or none: the policy directory applies.
Effective == {b \in Active : \A a \in Active : bundles[a].activated <= bundles[b].activated}

\* A live entry is used; otherwise the database is read, outside the lock.
LookupPolicy(p) ==
    /\ decision[p].at = "idle"
    /\ \/ /\ pcache[p].live
          /\ decision' = [decision EXCEPT ![p] =
                    [NoDecision EXCEPT !.at = "ready", !.bundle = pcache[p].bundle]]
       \/ /\ ~pcache[p].live
          /\ decision' = [decision EXCEPT ![p] =
                    [NoDecision EXCEPT !.at = "read", !.bundle = Effective]]
    /\ UNCHANGED <<bundles, rollouts, req, pcache, rcache, used, hist>>

StorePolicy(p) ==
    /\ decision[p].at = "read"
    /\ pcache' = [pcache EXCEPT ![p] = [live |-> TRUE, bundle |-> decision[p].bundle,
                                        old |-> decision[p].old]]
    /\ decision' = [decision EXCEPT ![p].at = "ready", ![p].old = FALSE]
    /\ UNCHANGED <<bundles, rollouts, req, rcache, used, hist>>

\* The active rollout in shadow or canary whose bundle is still approved.
load_runtime_rollout ==
    {[stage |-> rollouts[r].stage, bundle |-> rollouts[r].bundle] :
        r \in {i \in Rollouts : /\ rollouts[i].status = "active"
                                /\ rollouts[i].stage \in {"shadow", "canary"}
                                /\ \A b \in rollouts[i].bundle : bundles[b].status = "approved"}}

\* The entry runtime_rollout uses; a missing one is loaded under the lock.
RuntimeRollout(p) ==
    IF rcache[p].live THEN rcache[p]
    ELSE [live |-> TRUE, config |-> load_runtime_rollout, old |-> FALSE]

\* The bundles a decision may enforce: the candidate for the selected requests
\* of a canary, the baseline it looked up for all others.
Enforceable(p) ==
    decision[p].bundle \cup
        UNION {c.bundle : c \in {i \in RuntimeRollout(p).config : i.stage = "canary"}}

Decide(p) ==
    /\ decision[p].at = "ready"
    /\ rcache' = [rcache EXCEPT ![p] = RuntimeRollout(p)]
    /\ decision' = [decision EXCEPT ![p] = NoDecision]
    /\ UNCHANGED <<bundles, rollouts, req, pcache, used, hist>>

\* Mutant: the interval of an entry is not looked at.
PolicyEntryKept(p) == FALSE /\ UNCHANGED vars

\* The cache intervals elapse.
PolicyEntryExpires(p) ==
    /\ pcache[p].live
    /\ pcache' = [pcache EXCEPT ![p] = NoPolicyEntry]
    /\ UNCHANGED <<bundles, rollouts, req, rcache, decision, used, hist>>

RolloutEntryExpires(p) ==
    /\ rcache[p].live
    /\ rcache' = [rcache EXCEPT ![p] = NoRolloutEntry]
    /\ UNCHANGED <<bundles, rollouts, req, pcache, decision, used, hist>>

-----------------------------------------------------------------------------
RequestStep(p) == Locate(p) \/ Commit(p) \/ Respond(p)

DecisionStep(p) ==
    \/ LookupPolicy(p)
    \/ StorePolicy(p)
    \/ Decide(p)

Next ==
    \/ \E b \in Bundles, s \in Subjects : create_policy_bundle(b, s)
    \/ \E p \in Processes :
        \/ \E op \in {"submit", "approve", "activate", "rollback"}, b \in Bundles,
              s \in Subjects : BeginBundleRequest(p, op, b, s)
        \/ \E r \in Rollouts, b \in Bundles, stage \in {"shadow", "canary"} :
              create_rollout(p, r, b, stage)
        \/ \E r \in Rollouts, stage \in Stages : BeginAdvance(p, r, stage)
        \/ RequestStep(p)
        \/ p \in Deciders /\ DecisionStep(p)
        \/ PolicyEntryExpires(p)
        \/ RolloutEntryExpires(p)

Spec == Init /\ [][Next]_vars

(***************************************************************************)
(* Fairness: requests run to their end, decisions keep being asked for,    *)
(* and cache intervals elapse.                                             *)
(***************************************************************************)
FairSpec ==
    /\ Spec
    /\ \A p \in Processes :
        /\ WF_vars(RequestStep(p))
        /\ WF_vars(p \in Deciders /\ DecisionStep(p))
        /\ WF_vars(PolicyEntryExpires(p))
        /\ WF_vars(RolloutEntryExpires(p))

-----------------------------------------------------------------------------
\* Types of the tables, the requests, the caches and the history.
TypeOK ==
    /\ bundles \in [Bundles -> Bundle]
    /\ rollouts \in [Rollouts -> Rollout]
    /\ req \in [Processes -> Request]
    /\ pcache \in [Processes -> PolicyEntry]
    /\ rcache \in [Processes -> RolloutEntry]
    /\ decision \in [Processes -> Decision]
    /\ used \in 0..MaxRequests
    /\ hist \in History

\* Separation of duty reaches the enforcement point: every bundle a decision
\* enforces, through any cache and on any interleaving of requests, was
\* approved by an eligible identity other than its author.
EnforcedWasReviewed ==
    \A p \in Processes : decision[p].at = "ready" => \A b \in Enforceable(p) :
        Reviewed(bundles[b])

\* No direct promotion: a rollout whose bundle was activated has been a canary.
PromotedWasCanary == hist.promoted \subseteq hist.canaried

\* Only one rollout can be active per tenant.
OneActiveRollout ==
    \A r, s \in Rollouts :
        rollouts[r].status = "active" /\ rollouts[s].status = "active" => r = s

\* Activation retires the previous active bundle: as long as no request
\* committed over another one's commit, at most one bundle is active.
OneActiveBundle == hist.clean => \A a, b \in Active : a = b

\* A rollout closed as completed did not activate its candidate, and one that
\* did says so, unless two requests for it overlapped.
OutcomeRecorded ==
    hist.clean => \A r \in Rollouts :
        /\ r \in hist.promoted <=> rollouts[r].stage = "enforce"
        /\ rollouts[r].stage \in {"enforce", "completed"} => rollouts[r].status = "completed"

\* Local changes of a rollout invalidate the local cache immediately: once the
\* request has returned, its process never uses an older configuration.
LocalRolloutVisible ==
    \A p \in Processes : rcache[p].live /\ rcache[p].old => req[p].at = "committed"

\* Local activation invalidates the local process immediately (it need not: a
\* decision that read the policy before may store it after the invalidation).
LocalActivationVisible ==
    \A p \in Processes : pcache[p].live /\ pcache[p].old => req[p].at = "committed"

\* Which configuration is in force is never in doubt, whatever create_rollout,
\* advance_rollout and the activations interleave: one rollout and one bundle
\* are active, and a process sees its own change of the rollout at once.
OneConfiguration == OneActiveRollout /\ OneActiveBundle /\ LocalRolloutVisible

\* A promotion is earned and recorded by advance_rollout on every sequence of
\* stages, pauses and promotions of several administrators.
PromotionsEarned == PromotedWasCanary /\ OutcomeRecorded

\* Other replicas converge after the cache interval: once the requests are
\* over, every cache entry finally agrees with the tables for good.
ReplicasConverge ==
    <>[](\A p \in Processes :
            /\ pcache[p].live => pcache[p].bundle = Effective
            /\ rcache[p].live => rcache[p].config = load_runtime_rollout)
=============================================================================
