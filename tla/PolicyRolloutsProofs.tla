------------------------ MODULE PolicyRolloutsProofs ------------------------
(***************************************************************************)
(* Enforced bundles were reviewed, promotions are earned and, with the     *)
(* advisory lock of PostgreSQL, one configuration is in force, for any     *)
(* number of bundles, rollouts, processes and requests: RolloutsInv is     *)
(* inductive and implies the invariants of PolicyRollouts.                 *)
(***************************************************************************)
EXTENDS PolicyRollouts, TLAPS

\* A bundle that somebody has approved, whatever became of it.
Vetted(b) == bundles[b].approver # Nobody

\* An approval is by an eligible identity other than the author, and comes
\* before everything that puts a bundle in force.
BundlesReviewed ==
    \A b \in Bundles :
        /\ bundles[b].status \in {"approved", "active", "retired"} => Vetted(b)
        /\ Vetted(b) => bundles[b].status # "absent" /\ Reviewed(bundles[b])

\* What a request has checked of its bundle stays true until it commits: the
\* author of a stored bundle never changes.
RequestVetted(p) ==
    /\ \A b \in req[p].bundle :
        /\ bundles[b].status # "absent"
        /\ req[p].op \notin {"submit", "approve"} => Vetted(b)
        /\ req[p].op = "approve" =>
            /\ req[p].by \in Approvers
            /\ bundles[b].author # req[p].by \/ req[p].by \in Development
            /\ req[p].by = req[p].copy => Vetted(b)
    /\ \A b \in req[p].active : Vetted(b)

RolloutsVetted == \A r \in Rollouts : \A b \in rollouts[r].bundle : Vetted(b)

\* Whatever a process remembers of the tables was approved.
CacheVetted(p) ==
    /\ \A b \in pcache[p].bundle \cup decision[p].bundle : Vetted(b)
    /\ \A c \in rcache[p].config : \A b \in c.bundle : Vetted(b)

\* Every rollout is about at most one bundle, and so is every request, which is
\* about at most one rollout.
SingleBundle ==
    /\ \A p \in Processes : \A a, b \in req[p].bundle : a = b
    /\ \A p \in Processes : \A r, s \in req[p].rollout : r = s
    /\ \A r \in Rollouts : \A a, b \in rollouts[r].bundle : a = b

\* A request whose tables are current knows the active bundle it is about to
\* retire and the state of its rollout.
InProgress(p) == req[p].at \in {"loaded", "located"} /\ req[p].current

RequestKnows(p) ==
    /\ hist.clean /\ InProgress(p) /\ req[p].at = "located" => req[p].active = Active
    /\ InProgress(p) => \A r \in req[p].rollout :
        rollouts[r].status = IF req[p].op = "create" THEN "absent" ELSE "active"
    /\ req[p].op = "create" => req[p].stage \in {"shadow", "canary"}
    /\ req[p].rollout # {} => req[p].op \in {"create", "advance"}

\* Who asks to enforce a rollout has seen it as a canary.
CanariesSeen ==
    /\ hist.promoted \subseteq hist.canaried
    /\ \A r \in Rollouts : rollouts[r].stage = "canary" => r \in hist.canaried
    /\ \A p \in Processes :
        req[p].op = "advance" /\ req[p].stage = "enforce" => req[p].rollout \subseteq hist.canaried

Creating(p) == req[p].op = "create" /\ req[p].at = "loaded"

\* The advisory lock: one creation at a time, and only while nothing is active.
LockHeld ==
    PostgreSQL =>
        /\ OneActiveRollout
        /\ \A p, q \in Processes : Creating(p) /\ Creating(q) => p = q
        /\ \A p \in Processes : Creating(p) => \A r \in Rollouts : rollouts[r].status # "active"

\* An outdated entry is of a change that is committed and not yet answered.
RolloutCacheFresh ==
    \A p \in Processes : rcache[p].live /\ rcache[p].old =>
        req[p].at = "committed" /\ ChangesRollout(req[p])

RolloutsInv ==
    /\ TypeOK
    /\ BundlesReviewed
    /\ \A p \in Processes : RequestVetted(p)
    /\ RolloutsVetted
    /\ \A p \in Processes : CacheVetted(p)
    /\ SingleBundle
    /\ OneActiveBundle
    /\ \A p \in Processes : RequestKnows(p)
    /\ CanariesSeen
    /\ OutcomeRecorded
    /\ LockHeld
    /\ RolloutCacheFresh



-----------------------------------------------------------------------------
LEMMA RowTypes ==
    /\ NoBundle \in Bundle /\ NoBundle.approver = Nobody
    /\ NoRollout \in Rollout /\ NoRollout.status = "absent" /\ NoRollout.stage = "shadow"
    /\ NoRollout.bundle = {}
    /\ IdleRequest \in Request /\ IdleRequest.at = "idle" /\ IdleRequest.op = "none"
    /\ IdleRequest.bundle = {} /\ IdleRequest.rollout = {} /\ IdleRequest.active = {}
    /\ IdleRequest.by = Nobody /\ IdleRequest.copy = Nobody
    /\ IdleRequest.stage = "shadow" /\ IdleRequest.current = TRUE
    /\ NoPolicyEntry \in PolicyEntry /\ ~NoPolicyEntry.live /\ NoPolicyEntry.bundle = {}
    /\ NoRolloutEntry \in RolloutEntry /\ ~NoRolloutEntry.live /\ NoRolloutEntry.config = {}
    /\ NoDecision \in Decision /\ NoDecision.at = "idle" /\ NoDecision.bundle = {}
BY DEF NoBundle, Bundle, BundleStatus, NoRollout, Rollout, Stages, IdleRequest, Request, Operations,
       NoPolicyEntry, PolicyEntry, NoRolloutEntry, RolloutEntry, NoDecision, Decision

\* Approvers are subjects, and a reviewed bundle has an approver.
LEMMA ReviewNames ==
    /\ \A s \in Approvers : s \in Subjects /\ s # Nobody
    /\ \A b : Reviewed(bundles[b]) => Vetted(b)
BY RolloutAssumption, NobodyAssumption DEF Reviewed, Vetted

-----------------------------------------------------------------------------
LEMMA InitInv == Init => RolloutsInv
<1> SUFFICES ASSUME Init PROVE RolloutsInv
    OBVIOUS
<1>1. /\ bundles \in [Bundles -> [status : StartStatus, author : Subjects \cup {Nobody},
                                  approver : Subjects \cup {Nobody}, activated : 0..2]]
      /\ rollouts \in [Rollouts -> {NoRollout} \cup
            [status : {"active"}, stage : {"shadow", "canary"}, bundle : SUBSET Bundles]]
      /\ req = [p \in Processes |-> IdleRequest]
      /\ pcache = [p \in Processes |-> NoPolicyEntry]
      /\ rcache = [p \in Processes |-> NoRolloutEntry]
      /\ decision = [p \in Processes |-> NoDecision]
      /\ used = 0
      /\ hist = [clock |-> 2, promoted |-> {}, clean |-> TRUE,
                 canaried |-> {r \in Rollouts : rollouts[r].stage = "canary"}]
    BY DEF Init
<1>2. /\ \A b \in Bundles :
            IF bundles[b].status \in {"absent", "draft", "pending"}
            THEN bundles[b].approver = Nobody ELSE Reviewed(bundles[b])
      /\ \A a, b \in Active : a = b
      /\ \A r \in Rollouts : rollouts[r].status = "active" =>
            \E b \in Bundles : bundles[b].status = "approved" /\ rollouts[r].bundle = {b}
      /\ OneActiveRollout
    BY DEF Init, OneActiveRollout
<1>3. /\ \A p \in Processes : req[p] = IdleRequest
      /\ \A p \in Processes : pcache[p] = NoPolicyEntry /\ rcache[p] = NoRolloutEntry
      /\ \A p \in Processes : decision[p] = NoDecision
    BY <1>1
<1>4. TypeOK
    <2>1. bundles \in [Bundles -> Bundle]
        BY <1>1, RolloutAssumption DEF Bundle
    <2>2. rollouts \in [Rollouts -> Rollout]
        BY <1>1, RowTypes DEF Rollout, Stages
    <2>3. hist \in History /\ used \in 0..MaxRequests
        BY <1>1, RolloutAssumption DEF History
    <2> QED
        BY <1>1, <2>1, <2>2, <2>3, RowTypes DEF TypeOK
<1>5. BundlesReviewed
    BY <1>2, ReviewNames DEF BundlesReviewed, Vetted
<1>6. /\ \A r \in Rollouts : rollouts[r] = NoRollout \/ rollouts[r].status = "active"
      /\ \A r \in Rollouts : rollouts[r].stage \in {"shadow", "canary"}
      /\ RolloutsVetted
    BY <1>1, <1>2, <1>5, RowTypes DEF RolloutsVetted, BundlesReviewed
<1>7. SingleBundle
    BY <1>2, <1>3, <1>6, RowTypes DEF SingleBundle
<1>8. \A p \in Processes : RequestVetted(p) /\ CacheVetted(p) /\ RequestKnows(p)
    BY <1>3, RowTypes DEF RequestVetted, CacheVetted, RequestKnows, InProgress
<1>9. CanariesSeen /\ OneActiveBundle /\ OutcomeRecorded /\ LockHeld /\ RolloutCacheFresh
    <2>1. CanariesSeen
        BY <1>1, <1>3, RowTypes DEF CanariesSeen
    <2>2. OneActiveBundle /\ OutcomeRecorded
        BY <1>1, <1>2, <1>6 DEF OneActiveBundle, OutcomeRecorded
    <2>3. LockHeld /\ RolloutCacheFresh
        BY <1>2, <1>3, RowTypes DEF LockHeld, Creating, RolloutCacheFresh
    <2> QED
        BY <2>1, <2>2, <2>3
<1> QED
    BY <1>4, <1>5, <1>6, <1>7, <1>8, <1>9 DEF RolloutsInv



-----------------------------------------------------------------------------
(***************************************************************************)
(* Steps that leave both tables alone.                                     *)
(***************************************************************************)
\* The caches and decisions of the processes change.
LEMMA CachesMove ==
    ASSUME RolloutsInv, UNCHANGED <<bundles, rollouts, req, used, hist>>,
           pcache' \in [Processes -> PolicyEntry], rcache' \in [Processes -> RolloutEntry],
           decision' \in [Processes -> Decision],
           \A p \in Processes : CacheVetted(p)',
           RolloutCacheFresh'
    PROVE  RolloutsInv'
<1>1. TypeOK'
    BY DEF RolloutsInv, TypeOK
<1>2. BundlesReviewed' /\ RolloutsVetted' /\ SingleBundle' /\ OneActiveBundle'
    BY DEF RolloutsInv, BundlesReviewed, RolloutsVetted, Vetted, Reviewed, SingleBundle,
           OneActiveBundle, Active
<1>3. \A p \in Processes : RequestVetted(p)' /\ RequestKnows(p)'
    BY DEF RolloutsInv, RequestVetted, RequestKnows, Vetted, InProgress, Active
<1>4. CanariesSeen' /\ OutcomeRecorded' /\ LockHeld'
    BY DEF RolloutsInv, CanariesSeen, OutcomeRecorded, LockHeld, OneActiveRollout, Creating
<1> QED
    BY <1>1, <1>2, <1>3, <1>4 DEF RolloutsInv

\* One process's request moves to row.
LEMMA RequestMoves ==
    ASSUME RolloutsInv, NEW p \in Processes, NEW row \in Request,
           req' = [req EXCEPT ![p] = row], UNCHANGED <<bundles, rollouts>>,
           pcache' \in [Processes -> PolicyEntry], rcache' \in [Processes -> RolloutEntry],
           UNCHANGED decision, used' \in 0..MaxRequests, hist' \in History,
           hist'.clean = hist.clean, hist'.canaried = hist.canaried,
           hist'.promoted = hist.promoted,
           RequestVetted(p)', RequestKnows(p)',
           \A a, b \in row.bundle : a = b, \A r, s \in row.rollout : r = s,
           row.op = "advance" /\ row.stage = "enforce" => row.rollout \subseteq hist.canaried,
           PostgreSQL /\ row.op = "create" /\ row.at = "loaded" =>
                /\ \A q \in Processes \ {p} : ~Creating(q)
                /\ \A r \in Rollouts : rollouts[r].status # "active",
           \A q \in Processes : CacheVetted(q)',
           RolloutCacheFresh'
    PROVE  RolloutsInv'
<1>1. /\ req' \in [Processes -> Request] /\ req'[p] = row
      /\ \A q \in Processes \ {p} : req'[q] = req[q]
    BY DEF RolloutsInv, TypeOK
<1>2. TypeOK'
    BY <1>1 DEF RolloutsInv, TypeOK
<1>3. BundlesReviewed' /\ RolloutsVetted' /\ OneActiveBundle' /\ OutcomeRecorded'
    BY DEF RolloutsInv, BundlesReviewed, RolloutsVetted, Vetted, Reviewed, OneActiveBundle, Active,
           OutcomeRecorded
<1>4. SingleBundle'
    BY <1>1 DEF RolloutsInv, SingleBundle
<1>5. ASSUME NEW q \in Processes PROVE RequestVetted(q)' /\ RequestKnows(q)'
    <2>1. CASE q = p
        BY <2>1
    <2>2. CASE q # p
        BY <1>1, <2>2 DEF RolloutsInv, RequestVetted, RequestKnows, Vetted, InProgress, Active
    <2> QED
        BY <2>1, <2>2
<1>6. CanariesSeen'
    BY <1>1 DEF RolloutsInv, CanariesSeen
<1>7. LockHeld'
    <2> SUFFICES ASSUME PostgreSQL
                 PROVE  /\ OneActiveRollout'
                        /\ \A i, j \in Processes : Creating(i)' /\ Creating(j)' => i = j
                        /\ \A i \in Processes : Creating(i)' =>
                            \A r \in Rollouts : rollouts[r].status # "active"
        BY DEF LockHeld, Creating
    <2>1. LockHeld
        BY DEF RolloutsInv
    <2>2. \A i \in Processes : Creating(i)' => i = p \/ Creating(i)
        BY <1>1 DEF Creating
    <2>3. Creating(p)' => /\ \A q \in Processes \ {p} : ~Creating(q)
                          /\ \A r \in Rollouts : rollouts[r].status # "active"
        BY <1>1 DEF Creating
    <2>4. OneActiveRollout'
        BY <2>1 DEF LockHeld, OneActiveRollout
    <2> QED
        BY <2>1, <2>2, <2>3, <2>4 DEF LockHeld
<1> QED
    BY <1>2, <1>3, <1>4, <1>5, <1>6, <1>7 DEF RolloutsInv

\* A request begins.
LEMMA BeginKeeps ==
    ASSUME RolloutsInv, NEW p \in Processes, NEW request \in Request, Begin(p, request),
           request.current, request.active = {},
           request.op = "create" => request.stage \in {"shadow", "canary"},
           request.rollout # {} => request.op \in {"create", "advance"},
           \A a, b \in request.bundle : a = b, \A r, s \in request.rollout : r = s,
           \A b \in request.bundle :
                /\ bundles[b].status # "absent"
                /\ request.op \notin {"submit", "approve"} => Vetted(b)
                /\ request.op = "approve" =>
                    /\ request.by \in Approvers
                    /\ bundles[b].author # request.by \/ request.by \in Development
                    /\ request.by = request.copy => Vetted(b),
           \A r \in request.rollout :
                rollouts[r].status = IF request.op = "create" THEN "absent" ELSE "active",
           request.op = "advance" /\ request.stage = "enforce" =>
                request.rollout \subseteq hist.canaried,
           PostgreSQL /\ request.op = "create" =>
                /\ \A q \in Processes \ {p} : ~Creating(q)
                /\ \A r \in Rollouts : rollouts[r].status # "active"
    PROVE  RolloutsInv'
<1> DEFINE row == [request EXCEPT !.at = "loaded"]
<1>1. /\ req' = [req EXCEPT ![p] = row]
      /\ used' = used + 1 /\ used < MaxRequests /\ req[p].at = "idle"
      /\ UNCHANGED <<bundles, rollouts, pcache, rcache, decision, hist>>
    BY DEF Begin
<1>2. /\ row \in Request /\ row.at = "loaded" /\ row.op = request.op
      /\ row.bundle = request.bundle /\ row.rollout = request.rollout
      /\ row.stage = request.stage /\ row.by = request.by /\ row.copy = request.copy
      /\ row.active = request.active /\ row.current = request.current
    BY DEF Request
<1> HIDE DEF row
<1>3. req'[p] = row
    BY <1>1 DEF RolloutsInv, TypeOK
<1>4. RequestVetted(p)'
    BY <1>1, <1>2, <1>3 DEF RequestVetted, Vetted
<1>5. RequestKnows(p)'
    BY <1>1, <1>2, <1>3 DEF RequestKnows, InProgress
<1>6. \A q \in Processes : CacheVetted(q)'
    BY <1>1 DEF RolloutsInv, CacheVetted, Vetted
<1>7. RolloutCacheFresh'
    BY <1>1, <1>3 DEF RolloutsInv, RolloutCacheFresh, TypeOK
<1>8. /\ used' \in 0..MaxRequests
      /\ pcache' \in [Processes -> PolicyEntry] /\ rcache' \in [Processes -> RolloutEntry]
      /\ hist' \in History
    BY <1>1, RolloutAssumption DEF RolloutsInv, TypeOK
<1> QED
    <2>1. /\ \A a, b \in row.bundle : a = b
          /\ \A r, s \in row.rollout : r = s
          /\ row.op = "advance" /\ row.stage = "enforce" => row.rollout \subseteq hist.canaried
        BY <1>2
    <2>2. PostgreSQL /\ row.op = "create" /\ row.at = "loaded" =>
            /\ \A q \in Processes \ {p} : ~Creating(q)
            /\ \A r \in Rollouts : rollouts[r].status # "active"
        BY <1>2
    <2>3. hist'.clean = hist.clean /\ hist'.canaried = hist.canaried /\ hist'.promoted = hist.promoted
        BY <1>1
    <2> HIDE DEF row
    <2> QED
        BY <1>1, <1>2, <1>4, <1>5, <1>6, <1>7, <1>8, <2>1, <2>2, <2>3, RequestMoves

LEMMA BeginBundleKeeps ==
    ASSUME RolloutsInv, NEW p \in Processes,
           NEW op \in {"submit", "approve", "activate", "rollback"}, NEW b \in Bundles,
           NEW s \in Subjects, BeginBundleRequest(p, op, b, s)
    PROVE  RolloutsInv'
<1> DEFINE by == IF op = "approve" THEN s ELSE Nobody
           copy == IF op = "approve" THEN bundles[b].approver ELSE Nobody
           request == [IdleRequest EXCEPT !.op = op, !.bundle = {b}, !.by = by, !.copy = copy]
<1>1. Begin(p, request) /\ BundleAccepts(op, bundles[b], s)
    BY DEF BeginBundleRequest
<1>2. by \in Subjects \cup {Nobody} /\ copy \in Subjects \cup {Nobody}
    BY DEF RolloutsInv, TypeOK, Bundle
<1>3. op = "approve" => /\ by \in Approvers
                        /\ bundles[b].author # by \/ by \in Development
                        /\ by = copy => Vetted(b)
    BY <1>1, ReviewNames DEF BundleAccepts, ApprovalAllowed, Vetted
<1> HIDE DEF by, copy
<1>4. /\ request \in Request /\ request.op = op /\ request.bundle = {b} /\ request.by = by
      /\ request.copy = copy /\ request.rollout = {} /\ request.active = {} /\ request.current
    <2>1. request \in Request
        BY <1>2, RowTypes DEF Request, Operations
    <2>2. /\ request.op = op /\ request.bundle = {b} /\ request.by = by
          /\ request.copy = copy /\ request.rollout = {} /\ request.active = {} /\ request.current
        BY DEF IdleRequest
    <2> QED
        BY <2>1, <2>2
<1> HIDE DEF request
<1>5. bundles[b].status # "absent" /\ (op \notin {"submit", "approve"} => Vetted(b))
    BY <1>1 DEF BundleAccepts, ApprovalAllowed, RolloutsInv, BundlesReviewed
<1> QED
    BY <1>1, <1>3, <1>4, <1>5, BeginKeeps

LEMMA CreateRolloutKeeps ==
    ASSUME RolloutsInv, NEW p \in Processes, NEW r \in Rollouts, NEW b \in Bundles,
           NEW stage \in {"shadow", "canary"}, create_rollout(p, r, b, stage)
    PROVE  RolloutsInv'
<1> DEFINE request == [IdleRequest EXCEPT !.op = "create", !.rollout = {r}, !.bundle = {b},
                                          !.stage = stage]
<1>1. /\ Begin(p, request) /\ NoneActive(p) /\ rollouts[r].status = "absent"
      /\ bundles[b].status = "approved"
    BY DEF create_rollout
<1>2. /\ request \in Request /\ request.op = "create" /\ request.bundle = {b}
      /\ request.rollout = {r} /\ request.stage = stage /\ request.active = {} /\ request.current
    <2>1. request \in Request
        BY RowTypes DEF Request, Operations, Stages
    <2>2. /\ request.op = "create" /\ request.bundle = {b} /\ request.rollout = {r}
          /\ request.stage = stage /\ request.active = {} /\ request.current
        BY DEF IdleRequest
    <2> QED
        BY <2>1, <2>2
<1> HIDE DEF request
<1>3. Vetted(b)
    BY <1>1 DEF RolloutsInv, BundlesReviewed
<1>4. PostgreSQL => /\ \A q \in Processes \ {p} : ~Creating(q)
                    /\ \A i \in Rollouts : rollouts[i].status # "active"
    BY <1>1 DEF NoneActive, Creating
<1> QED
    BY <1>1, <1>2, <1>3, <1>4, BeginKeeps

LEMMA BeginAdvanceKeeps ==
    ASSUME RolloutsInv, NEW p \in Processes, NEW r \in Rollouts, NEW stage \in Stages,
           BeginAdvance(p, r, stage)
    PROVE  RolloutsInv'
<1> DEFINE bundle == rollouts[r].bundle
           request == [IdleRequest EXCEPT !.op = "advance", !.rollout = {r}, !.stage = stage,
                                          !.bundle = bundle]
<1>1. /\ Begin(p, request) /\ rollouts[r].status = "active"
      /\ rollouts[r].stage \in DOMAIN Transitions /\ stage \in Transitions[rollouts[r].stage]
    BY DEF BeginAdvance
<1>2. /\ bundle \in SUBSET Bundles
      /\ \A a, b \in bundle : a = b
      /\ \A b \in bundle : Vetted(b) /\ bundles[b].status # "absent"
    BY DEF RolloutsInv, TypeOK, Rollout, SingleBundle, RolloutsVetted, BundlesReviewed
<1>3. stage = "enforce" => r \in hist.canaried
    BY <1>1 DEF Transitions, RolloutsInv, CanariesSeen
<1> HIDE DEF bundle
<1>4. /\ request \in Request /\ request.op = "advance" /\ request.bundle = bundle
      /\ request.rollout = {r} /\ request.stage = stage /\ request.active = {} /\ request.current
    <2>1. stage \in Stages /\ "advance" \in Operations /\ {r} \in SUBSET Rollouts
        BY DEF Operations
    <2>2. IdleRequest \in Request /\ IdleRequest.active = {} /\ IdleRequest.current
        BY RowTypes
    <2> QED
        BY ONLY <1>2, <2>1, <2>2 DEF Request, request
<1> HIDE DEF request
<1> QED
    BY <1>1, <1>2, <1>3, <1>4, BeginKeeps


\* The activation finds the active bundle, or the request ends.
LEMMA LocateKeeps ==
    ASSUME RolloutsInv, NEW p \in Processes, Locate(p)
    PROVE  RolloutsInv'
<1>0. /\ req[p] \in Request /\ req[p].at = "loaded" /\ Activates(req[p])
      /\ hist \in History /\ used \in 0..MaxRequests
      /\ UNCHANGED <<bundles, rollouts, pcache, rcache, decision, used>>
    BY DEF RolloutsInv, TypeOK, Locate
<1>1. \A q \in Processes : CacheVetted(q)'
    BY <1>0 DEF RolloutsInv, CacheVetted, Vetted
<1>2. ASSUME NEW row \in Request, req' = [req EXCEPT ![p] = row]
      PROVE  req'[p] = row /\ RolloutCacheFresh'
    BY <1>0, <1>2 DEF RolloutsInv, RolloutCacheFresh, TypeOK
<1>3. pcache' \in [Processes -> PolicyEntry] /\ rcache' \in [Processes -> RolloutEntry]
    BY <1>0 DEF RolloutsInv, TypeOK
<1>4. CASE req' = [req EXCEPT ![p] = IdleRequest] /\ UNCHANGED hist
    <2>1. req'[p] = IdleRequest /\ RolloutCacheFresh'
        BY <1>2, <1>4, RowTypes
    <2>2. RequestVetted(p)' /\ RequestKnows(p)'
        BY <2>1, RowTypes DEF RequestVetted, RequestKnows, InProgress
    <2> QED
        BY <1>0, <1>1, <1>3, <1>4, <2>1, <2>2, RowTypes, RequestMoves
<1>5. ASSUME NEW found \in SUBSET Active, Active = {} => found = {},
             Active # {} => \E a \in Active : found = {a},
             req' = [req EXCEPT ![p] = [req[p] EXCEPT !.at = "located", !.active = found,
                                                      !.now = hist.clock + 1]],
             hist' = [hist EXCEPT !.clock = @ + 1]
      PROVE  RolloutsInv'
    <2> DEFINE now == hist.clock + 1
               row == [req[p] EXCEPT !.at = "located", !.active = found, !.now = now]
    <2>1. req' = [req EXCEPT ![p] = row] /\ hist' = [hist EXCEPT !.clock = now]
        BY <1>5
    <2>2. now \in Nat /\ found \in SUBSET Bundles
        BY <1>0 DEF History, Active
    <2> HIDE DEF now
    <2>3. /\ row \in Request /\ row.at = "located" /\ row.active = found
          /\ row.op = req[p].op /\ row.bundle = req[p].bundle /\ row.rollout = req[p].rollout
          /\ row.stage = req[p].stage /\ row.by = req[p].by /\ row.copy = req[p].copy
          /\ row.current = req[p].current
        BY <1>0, <2>2 DEF Request
    <2>4. /\ hist' \in History /\ hist'.clean = hist.clean
          /\ hist'.canaried = hist.canaried /\ hist'.promoted = hist.promoted
        BY <1>0, <2>1, <2>2 DEF History
    <2> HIDE DEF row
    <2>5. req'[p] = row /\ RolloutCacheFresh'
        BY <1>2, <2>1, <2>3
    <2>6. \A b \in found : Vetted(b)
        BY DEF Active, RolloutsInv, BundlesReviewed
    <2>7. RequestVetted(p)'
        BY <1>0, <2>3, <2>5, <2>6 DEF RolloutsInv, RequestVetted, Vetted
    <2>8. hist.clean => found = Active
        BY <1>5 DEF RolloutsInv, OneActiveBundle
    <2>9. RequestKnows(p)'
        BY <1>0, <2>3, <2>4, <2>5, <2>8 DEF RolloutsInv, RequestKnows, InProgress, Active
    <2>10. /\ \A a, b \in row.bundle : a = b
           /\ \A r, s \in row.rollout : r = s
           /\ row.op = "advance" /\ row.stage = "enforce" => row.rollout \subseteq hist.canaried
        BY <2>3 DEF RolloutsInv, SingleBundle, CanariesSeen
    <2> QED
        BY <1>0, <1>1, <1>3, <2>1, <2>3, <2>4, <2>5, <2>7, <2>9, <2>10, RequestMoves
<1>6. \/ req' = [req EXCEPT ![p] = IdleRequest] /\ UNCHANGED hist
      \/ \E found \in IF Active = {} THEN {{}} ELSE {{a} : a \in Active} :
            /\ req' = [req EXCEPT ![p] = [req[p] EXCEPT !.at = "located", !.active = found,
                                                        !.now = hist.clock + 1]]
            /\ hist' = [hist EXCEPT !.clock = @ + 1]
    BY DEF Locate, RolloutsInv, TypeOK
<1>7. ASSUME NEW found \in IF Active = {} THEN {{}} ELSE {{a} : a \in Active}
      PROVE  /\ found \in SUBSET Active
             /\ Active = {} => found = {}
             /\ Active # {} => \E a \in Active : found = {a}
    OBVIOUS
<1> QED
    BY <1>4, <1>5, <1>6, <1>7

\* The caches of the process are invalidated before the request is answered.
LEMMA RespondKeeps ==
    ASSUME RolloutsInv, NEW p \in Processes, Respond(p)
    PROVE  RolloutsInv'
<1>0. /\ req[p].at = "committed" /\ req' = [req EXCEPT ![p] = IdleRequest]
      /\ UNCHANGED <<bundles, rollouts, decision, used, hist>>
      /\ hist \in History /\ used \in 0..MaxRequests
    BY DEF RolloutsInv, TypeOK, Respond
<1>1. /\ rcache' = IF InvalidatesRollout(req[p]) THEN [rcache EXCEPT ![p] = NoRolloutEntry]
                                                 ELSE rcache
      /\ pcache' = IF InvalidatesPolicy(req[p]) THEN [pcache EXCEPT ![p] = NoPolicyEntry]
                                                ELSE pcache
    BY DEF Respond
<1>2. /\ rcache' \in [Processes -> RolloutEntry] /\ pcache' \in [Processes -> PolicyEntry]
      /\ \A q \in Processes : \/ rcache'[q] = rcache[q] /\ (q = p => ~InvalidatesRollout(req[p]))
                              \/ rcache'[q] = NoRolloutEntry
      /\ \A q \in Processes : pcache'[q] = pcache[q] \/ pcache'[q] = NoPolicyEntry
    BY <1>1, RowTypes DEF RolloutsInv, TypeOK
<1>3. req'[p] = IdleRequest /\ \A q \in Processes \ {p} : req'[q] = req[q]
    BY <1>0 DEF RolloutsInv, TypeOK
<1>4. \A q \in Processes : CacheVetted(q)'
    BY <1>0, <1>2, RowTypes DEF RolloutsInv, CacheVetted, Vetted
<1>5. RolloutCacheFresh'
    BY <1>2, <1>3, RowTypes DEF RolloutsInv, RolloutCacheFresh, InvalidatesRollout, ChangesRollout
<1>6. RequestVetted(p)' /\ RequestKnows(p)'
    BY <1>3, RowTypes DEF RequestVetted, RequestKnows, InProgress
<1> QED
    BY <1>0, <1>2, <1>4, <1>5, <1>6, RowTypes, RequestMoves

\* Decisions read the tables and the caches; cache entries expire.
LEMMA DecisionsKeep ==
    ASSUME RolloutsInv, NEW p \in Processes,
           DecisionStep(p) \/ PolicyEntryExpires(p) \/ RolloutEntryExpires(p)
    PROVE  RolloutsInv'
<1>0. /\ pcache \in [Processes -> PolicyEntry] /\ rcache \in [Processes -> RolloutEntry]
      /\ decision \in [Processes -> Decision] /\ rollouts \in [Rollouts -> Rollout]
      /\ UNCHANGED <<bundles, rollouts, req, used, hist>>
    BY DEF RolloutsInv, TypeOK, DecisionStep, LookupPolicy, StorePolicy, Decide,
           PolicyEntryExpires, RolloutEntryExpires
<1>1. ASSUME NEW row \in Decision, decision' = [decision EXCEPT ![p] = row],
             \A b \in row.bundle : Vetted(b), UNCHANGED <<pcache, rcache>>
      PROVE  RolloutsInv'
    <2>1. decision' \in [Processes -> Decision]
        BY <1>0, <1>1
    <2>2. \A q \in Processes : CacheVetted(q)'
        BY <1>0, <1>1 DEF RolloutsInv, CacheVetted, Vetted
    <2>3. RolloutCacheFresh'
        BY <1>0, <1>1 DEF RolloutsInv, RolloutCacheFresh
    <2> QED
        BY <1>0, <1>1, <2>1, <2>2, <2>3, CachesMove
<1>2. ASSUME NEW row \in Decision, decision' = [decision EXCEPT ![p] = row],
             NEW entry \in RolloutEntry, rcache' = [rcache EXCEPT ![p] = entry],
             \A b \in row.bundle : Vetted(b), UNCHANGED pcache,
             \A c \in entry.config : \A b \in c.bundle : Vetted(b),
             entry = rcache[p] \/ ~(entry.live /\ entry.old)
      PROVE  RolloutsInv'
    <2>1. decision' \in [Processes -> Decision] /\ rcache' \in [Processes -> RolloutEntry]
        BY <1>0, <1>2
    <2>2. \A q \in Processes : CacheVetted(q)'
        BY <1>0, <1>2 DEF RolloutsInv, CacheVetted, Vetted
    <2>3. RolloutCacheFresh'
        BY <1>0, <1>2 DEF RolloutsInv, RolloutCacheFresh
    <2> QED
        BY <1>0, <1>2, <2>1, <2>2, <2>3, CachesMove
<1>3. ASSUME NEW row \in Decision, decision' = [decision EXCEPT ![p] = row],
             NEW entry \in PolicyEntry, pcache' = [pcache EXCEPT ![p] = entry],
             \A b \in row.bundle \cup entry.bundle : Vetted(b), UNCHANGED rcache
      PROVE  RolloutsInv'
    <2>1. decision' \in [Processes -> Decision] /\ pcache' \in [Processes -> PolicyEntry]
        BY <1>0, <1>3
    <2>2. \A q \in Processes : CacheVetted(q)'
        BY <1>0, <1>3 DEF RolloutsInv, CacheVetted, Vetted
    <2>3. RolloutCacheFresh'
        BY <1>0, <1>3 DEF RolloutsInv, RolloutCacheFresh
    <2> QED
        BY <1>0, <1>3, <2>1, <2>2, <2>3, CachesMove
<1>4. /\ decision[p] \in Decision /\ pcache[p] \in PolicyEntry /\ rcache[p] \in RolloutEntry
      /\ \A b \in decision[p].bundle \cup pcache[p].bundle : Vetted(b)
      /\ \A c \in rcache[p].config : \A b \in c.bundle : Vetted(b)
    BY <1>0 DEF RolloutsInv, CacheVetted
<1>5. CASE LookupPolicy(p)
    <2> DEFINE row == [NoDecision EXCEPT !.at = IF pcache[p].live THEN "ready" ELSE "read",
                            !.bundle = IF pcache[p].live THEN pcache[p].bundle ELSE Effective]
    <2>1. decision' = [decision EXCEPT ![p] = row] /\ UNCHANGED <<pcache, rcache>>
        BY <1>5 DEF LookupPolicy
    <2>2. Effective \subseteq Bundles /\ \A b \in Effective : Vetted(b)
        BY DEF Effective, Active, RolloutsInv, BundlesReviewed
    <2>3. row \in Decision /\ \A b \in row.bundle : Vetted(b)
        BY <1>4, <2>2 DEF NoDecision, Decision, PolicyEntry
    <2> HIDE DEF row
    <2> QED
        BY <1>1, <2>1, <2>3
<1>6. CASE StorePolicy(p)
    <2> DEFINE row == [decision[p] EXCEPT !.at = "ready", !.old = FALSE]
               entry == [live |-> TRUE, bundle |-> decision[p].bundle, old |-> decision[p].old]
    <2>1. /\ decision' = [decision EXCEPT ![p] = row] /\ pcache' = [pcache EXCEPT ![p] = entry]
          /\ UNCHANGED rcache
        BY <1>0, <1>6 DEF StorePolicy
    <2>2. /\ row \in Decision /\ row.bundle = decision[p].bundle
          /\ entry \in PolicyEntry /\ entry.bundle = decision[p].bundle
        BY <1>4 DEF Decision, PolicyEntry
    <2> HIDE DEF row, entry
    <2> QED
        BY <1>3, <1>4, <2>1, <2>2
<1>7. CASE Decide(p)
    <2> DEFINE entry == RuntimeRollout(p)
    <2>1. /\ decision' = [decision EXCEPT ![p] = NoDecision] /\ rcache' = [rcache EXCEPT ![p] = entry]
          /\ UNCHANGED pcache
        BY <1>7 DEF Decide
    <2>2. load_runtime_rollout \in SUBSET [stage : Stages, bundle : SUBSET Bundles]
        BY <1>0 DEF load_runtime_rollout, Rollout
    <2>3. \A c \in load_runtime_rollout : \A b \in c.bundle : Vetted(b)
        BY DEF load_runtime_rollout, RolloutsInv, RolloutsVetted
    <2>4. /\ entry \in RolloutEntry
          /\ \A c \in entry.config : \A b \in c.bundle : Vetted(b)
          /\ entry = rcache[p] \/ ~(entry.live /\ entry.old)
        <3>1. CASE rcache[p].live
            BY <1>4, <3>1 DEF RuntimeRollout
        <3>2. CASE ~rcache[p].live
            BY <2>2, <2>3, <3>2 DEF RuntimeRollout, RolloutEntry
        <3> QED
            BY <3>1, <3>2
    <2> HIDE DEF entry
    <2> QED
        BY <1>2, <2>1, <2>4, RowTypes
<1>8. CASE PolicyEntryExpires(p)
    <2>1. /\ pcache' = [pcache EXCEPT ![p] = NoPolicyEntry] /\ UNCHANGED rcache
          /\ decision' = [decision EXCEPT ![p] = decision[p]]
        BY <1>0, <1>8 DEF PolicyEntryExpires
    <2> QED
        BY <1>3, <1>4, <2>1, RowTypes
<1>9. CASE RolloutEntryExpires(p)
    <2>1. /\ rcache' = [rcache EXCEPT ![p] = NoRolloutEntry] /\ UNCHANGED pcache
          /\ decision' = [decision EXCEPT ![p] = decision[p]]
        BY <1>0, <1>9 DEF RolloutEntryExpires
    <2> QED
        BY <1>2, <1>4, <2>1, RowTypes
<1> QED
    BY <1>5, <1>6, <1>7, <1>8, <1>9 DEF DecisionStep



-----------------------------------------------------------------------------
(***************************************************************************)
(* Steps that change the tables.                                           *)
(***************************************************************************)
\* What a commit or a new row does to a bundle.
BundleStays(b) ==
    /\ bundles[b].status # "absent" =>
        bundles'[b].status # "absent" /\ bundles'[b].author = bundles[b].author
    /\ Vetted(b) => Vetted(b)'

\* Requests and caches keep what they know of bundles that stay.
LEMMA VettedKept ==
    ASSUME RolloutsInv, NEW p \in Processes, \A b \in Bundles : BundleStays(b)
    PROVE  /\ \A b \in req[p].bundle : /\ bundles'[b].status # "absent"
                                       /\ bundles'[b].author = bundles[b].author
                                       /\ Vetted(b) => Vetted(b)'
           /\ \A b \in req[p].active : Vetted(b)'
           /\ UNCHANGED <<pcache[p].bundle, decision[p].bundle, rcache[p].config>> => CacheVetted(p)'
<1>1. /\ req[p] \in Request /\ pcache[p] \in PolicyEntry /\ decision[p] \in Decision
      /\ rcache[p] \in RolloutEntry
      /\ RequestVetted(p) /\ CacheVetted(p)
    BY DEF RolloutsInv, TypeOK
<1>2. /\ req[p].bundle \subseteq Bundles /\ req[p].active \subseteq Bundles
      /\ pcache[p].bundle \cup decision[p].bundle \subseteq Bundles
      /\ \A c \in rcache[p].config : c.bundle \subseteq Bundles
    BY <1>1 DEF Request, PolicyEntry, Decision, RolloutEntry
<1>3. \A b \in req[p].bundle : bundles[b].status # "absent"
    BY <1>1 DEF RequestVetted
<1>4. \A b \in req[p].active : Vetted(b)
    BY <1>1 DEF RequestVetted
<1>5. UNCHANGED <<pcache[p].bundle, decision[p].bundle, rcache[p].config>> => CacheVetted(p)'
    BY <1>1, <1>2 DEF CacheVetted, BundleStays
<1> QED
    BY <1>2, <1>3, <1>4, <1>5 DEF BundleStays

\* A new draft has no approver, and nothing is about it yet.
LEMMA CreateBundleKeeps ==
    ASSUME RolloutsInv, NEW b \in Bundles, NEW s \in Subjects, create_policy_bundle(b, s)
    PROVE  RolloutsInv'
<1> DEFINE row == [NoBundle EXCEPT !.status = "draft", !.author = s]
<1>1. /\ bundles[b].status = "absent" /\ bundles' = [bundles EXCEPT ![b] = row]
      /\ used' = used + 1 /\ used < MaxRequests
      /\ UNCHANGED <<rollouts, req, pcache, rcache, decision, hist>>
    BY DEF create_policy_bundle
<1>2. row \in Bundle /\ row.status = "draft" /\ row.approver = Nobody
    <2>1. row \in Bundle
        BY RowTypes DEF Bundle, BundleStatus
    <2>2. row.status = "draft" /\ row.approver = Nobody
        BY DEF NoBundle
    <2> QED
        BY <2>1, <2>2
<1> HIDE DEF row
<1>3. /\ bundles' \in [Bundles -> Bundle] /\ bundles'[b] = row
      /\ \A c \in Bundles \ {b} : bundles'[c] = bundles[c]
    BY <1>1, <1>2 DEF RolloutsInv, TypeOK
<1>4. ~Vetted(b)
    BY <1>1 DEF RolloutsInv, BundlesReviewed
<1>5. \A c \in Bundles : BundleStays(c)
    BY <1>1, <1>3, <1>4 DEF BundleStays, Vetted
<1>6. TypeOK'
    BY <1>1, <1>3, RolloutAssumption DEF RolloutsInv, TypeOK
<1>7. BundlesReviewed'
    BY <1>2, <1>3 DEF RolloutsInv, BundlesReviewed, Vetted, Reviewed
<1>8. \A p \in Processes : RequestVetted(p)' /\ CacheVetted(p)'
    <2> SUFFICES ASSUME NEW p \in Processes PROVE RequestVetted(p)' /\ CacheVetted(p)'
        OBVIOUS
    <2>1. /\ \A c \in req[p].bundle : /\ bundles'[c].status # "absent"
                                      /\ bundles'[c].author = bundles[c].author
                                      /\ Vetted(c) => Vetted(c)'
          /\ \A c \in req[p].active : Vetted(c)'
          /\ UNCHANGED <<pcache[p].bundle, decision[p].bundle, rcache[p].config>> => CacheVetted(p)'
        BY <1>5, VettedKept
    <2>2. RequestVetted(p)
        BY DEF RolloutsInv
    <2>3. RequestVetted(p)'
        BY <1>1, <2>1, <2>2 DEF RequestVetted
    <2> QED
        BY <1>1, <2>1, <2>3
<1>9. RolloutsVetted'
    BY <1>1, <1>5 DEF RolloutsInv, TypeOK, Rollout, RolloutsVetted, BundleStays
<1>10. Active' = Active
    BY <1>1, <1>2, <1>3 DEF Active
<1>11. SingleBundle' /\ OneActiveBundle' /\ \A p \in Processes : RequestKnows(p)'
    BY <1>1, <1>10 DEF RolloutsInv, SingleBundle, OneActiveBundle, RequestKnows, InProgress
<1>12. CanariesSeen' /\ OutcomeRecorded' /\ LockHeld' /\ RolloutCacheFresh'
    BY <1>1 DEF RolloutsInv, CanariesSeen, OutcomeRecorded, LockHeld, OneActiveRollout, Creating,
                RolloutCacheFresh
<1> QED
    BY <1>6, <1>7, <1>8, <1>9, <1>11, <1>12 DEF RolloutsInv

\* A commit writes an approver that may approve, and puts a bundle in force
\* that has one.
LEMMA BundleCommits ==
    ASSUME RolloutsInv, NEW p \in Processes, Commit(p)
    PROVE  /\ bundles' \in [Bundles -> Bundle]
           /\ \A b \in Bundles :
                /\ BundleStays(b)
                /\ bundles'[b].status \in {"approved", "active", "retired"} => Vetted(b)'
                /\ Vetted(b)' => bundles'[b].status # "absent" /\ Reviewed(bundles'[b])
                /\ bundles'[b].status = "active" =>
                    \/ Activates(req[p]) /\ (b \in req[p].bundle \/ (b \in Active /\ b \notin req[p].active))
                    \/ ~Activates(req[p]) /\ b \in Active
<1>0. /\ bundles \in [Bundles -> Bundle] /\ req[p] \in Request /\ RequestVetted(p)
      /\ bundles' = BundlesAfter(req[p])
    BY DEF RolloutsInv, TypeOK, Commit
<1> DEFINE q == req[p]
           Good(b) == /\ bundles'[b] \in Bundle
                      /\ BundleStays(b)
                      /\ bundles'[b].status \in {"approved", "active", "retired"} => Vetted(b)'
                      /\ Vetted(b)' => bundles'[b].status # "absent" /\ Reviewed(bundles'[b])
                      /\ bundles'[b].status = "active" =>
                            \/ Activates(q) /\ (b \in q.bundle \/ (b \in Active /\ b \notin q.active))
                            \/ ~Activates(q) /\ b \in Active
<1>1. ASSUME NEW b \in Bundles
      PROVE  /\ bundles[b] \in Bundle
             /\ bundles[b].status \in {"approved", "active", "retired"} => Vetted(b)
             /\ Vetted(b) => bundles[b].status # "absent" /\ Reviewed(bundles[b])
             /\ b \in q.bundle =>
                /\ bundles[b].status # "absent"
                /\ q.op \notin {"submit", "approve"} => Vetted(b)
                /\ q.op = "approve" =>
                    /\ q.by \in Approvers /\ q.by \in Subjects /\ q.by # Nobody
                    /\ bundles[b].author # q.by \/ q.by \in Development
                    /\ q.by = q.copy => Vetted(b)
             /\ b \in q.active => Vetted(b)
    BY <1>0, ReviewNames DEF RolloutsInv, BundlesReviewed, RequestVetted
<1>2. ASSUME NEW b \in Bundles, bundles'[b] = bundles[b], b \in Active => ~Activates(q) \/ b \notin q.active
      PROVE  Good(b)
    BY <1>1, <1>2 DEF BundleStays, Vetted, Active
<1>3. ASSUME q.op = "submit", NEW b \in Bundles PROVE Good(b)
    <2> DEFINE row == [bundles[b] EXCEPT !.status = "pending"]
    <2>2. ~Activates(q)
        BY <1>3 DEF Activates
    <2>1. bundles'[b] = IF b \in q.bundle THEN row ELSE bundles[b]
        BY <1>0, <1>3, <2>2 DEF BundlesAfter
    <2>3. /\ row \in Bundle /\ row.status = "pending" /\ row.author = bundles[b].author
          /\ row.approver = bundles[b].approver
        BY <1>1 DEF Bundle, BundleStatus
    <2> HIDE DEF row
    <2> QED
        BY <1>1, <1>2, <2>1, <2>2, <2>3 DEF BundleStays, Vetted, Reviewed
<1>4. ASSUME q.op = "approve", NEW b \in Bundles PROVE Good(b)
    <2> DEFINE approver == IF q.by = q.copy THEN bundles[b].approver ELSE q.by
               row == [bundles[b] EXCEPT !.status = "approved", !.approver = approver]
    <2>2. ~Activates(q)
        BY <1>4 DEF Activates
    <2>1. bundles'[b] = IF b \in q.bundle THEN row ELSE bundles[b]
        BY <1>0, <1>4, <2>2 DEF BundlesAfter
    <2>3. CASE b \in q.bundle
        <3>1. /\ approver \in Subjects /\ approver # Nobody
              /\ approver \in Approvers /\ (approver # bundles[b].author \/ approver \in Development)
            BY <1>1, <1>4, <2>3, RolloutAssumption DEF Reviewed, Vetted
        <3> HIDE DEF approver
        <3>2. /\ row \in Bundle /\ row.status = "approved" /\ row.author = bundles[b].author
              /\ row.approver = approver
            BY <1>1, <3>1 DEF Bundle, BundleStatus
        <3> HIDE DEF row
        <3> QED
            BY <1>1, <2>1, <2>3, <3>1, <3>2 DEF BundleStays, Vetted, Reviewed
    <2>4. CASE b \notin q.bundle
        BY <1>2, <2>1, <2>2, <2>4
    <2> QED
        BY <2>3, <2>4
<1>5. ASSUME Activates(q), NEW b \in Bundles PROVE Good(b)
    <2> DEFINE now == q.now
               active == [bundles[b] EXCEPT !.status = "active", !.activated = now]
               retired == [bundles[b] EXCEPT !.status = "retired"]
    <2>0. q.op \notin {"submit", "approve"}
        BY <1>5 DEF Activates
    <2>1. bundles'[b] = IF b \in q.bundle THEN active
                        ELSE IF b \in q.active THEN retired ELSE bundles[b]
        BY <1>0, <1>5, <2>0 DEF BundlesAfter, activate_bundle
    <2>2. now \in Nat
        BY <1>0 DEF Request
    <2> HIDE DEF now
    <2>3. /\ active \in Bundle /\ active.status = "active" /\ active.author = bundles[b].author
          /\ active.approver = bundles[b].approver
          /\ retired \in Bundle /\ retired.status = "retired" /\ retired.author = bundles[b].author
          /\ retired.approver = bundles[b].approver
        BY <1>1, <2>2 DEF Bundle, BundleStatus
    <2> HIDE DEF active, retired
    <2>4. CASE b \in q.bundle
        BY <1>1, <1>5, <2>0, <2>1, <2>3, <2>4 DEF BundleStays, Vetted, Reviewed
    <2>5. CASE b \notin q.bundle /\ b \in q.active
        BY <1>1, <1>5, <2>1, <2>3, <2>5 DEF BundleStays, Vetted, Reviewed
    <2>6. CASE b \notin q.bundle /\ b \notin q.active
        BY <1>2, <2>1, <2>6
    <2> QED
        BY <2>4, <2>5, <2>6
<1>6. ASSUME ~Activates(q), q.op \notin {"submit", "approve"}, NEW b \in Bundles PROVE Good(b)
    BY <1>0, <1>2, <1>6 DEF BundlesAfter
<1>7. \A b \in Bundles : Good(b)
    BY <1>3, <1>4, <1>5, <1>6
<1>8. bundles' \in [Bundles -> Bundle]
    <2>1. \A b \in Bundles : bundles'[b] \in Bundle
        BY <1>7
    <2>2. Activates(q) => q.op \notin {"submit", "approve"}
        BY DEF Activates
    <2>3. CASE q.op = "submit"
        BY <1>0, <2>1, <2>2, <2>3 DEF BundlesAfter
    <2>4. CASE q.op = "approve"
        BY <1>0, <2>1, <2>2, <2>4 DEF BundlesAfter
    <2>5. CASE Activates(q)
        BY <1>0, <2>1, <2>2, <2>5 DEF BundlesAfter
    <2>6. CASE ~Activates(q) /\ q.op \notin {"submit", "approve"}
        BY <1>0, <2>1, <2>6 DEF BundlesAfter
    <2> QED
        BY <2>3, <2>4, <2>5, <2>6
<1> QED
    BY <1>7, <1>8


LEMMA RolloutCommits ==
    ASSUME RolloutsInv, NEW p \in Processes, Commit(p)
    PROVE  /\ rollouts' \in [Rollouts -> Rollout]
           /\ \A r \in Rollouts :
                \/ r \notin req[p].rollout /\ rollouts'[r] = rollouts[r]
                \/ /\ r \in req[p].rollout /\ req[p].op = "create"
                   /\ rollouts'[r].status = "active" /\ rollouts'[r].stage = req[p].stage
                   /\ rollouts'[r].bundle = req[p].bundle
                \/ /\ r \in req[p].rollout /\ req[p].op = "advance"
                   /\ rollouts'[r].stage = req[p].stage /\ rollouts'[r].bundle = rollouts[r].bundle
                   /\ rollouts'[r].status = IF req[p].stage \in {"enforce", "completed"}
                                            THEN "completed" ELSE rollouts[r].status
<1>0. /\ rollouts \in [Rollouts -> Rollout] /\ req[p] \in Request /\ RequestKnows(p)
      /\ rollouts' = RolloutsAfter(req[p])
    BY DEF RolloutsInv, TypeOK, Commit
<1> DEFINE q == req[p]
<1>1. CASE q.op = "create"
    <2> DEFINE row == [status |-> "active", stage |-> q.stage, bundle |-> q.bundle]
    <2>1. rollouts' = [r \in Rollouts |-> IF r \in q.rollout THEN row ELSE rollouts[r]]
        BY <1>0, <1>1 DEF RolloutsAfter
    <2>2. /\ row \in Rollout /\ row.status = "active" /\ row.stage = q.stage
          /\ row.bundle = q.bundle
        BY <1>0 DEF Request, Rollout
    <2> HIDE DEF row
    <2> QED
        BY <1>0, <1>1, <2>1, <2>2
<1>2. CASE q.op = "advance"
    <2> DEFINE status(r) == IF q.stage \in {"enforce", "completed"} THEN "completed"
                            ELSE rollouts[r].status
               row(r) == [rollouts[r] EXCEPT !.stage = q.stage, !.status = status(r)]
    <2>1. rollouts' = [r \in Rollouts |-> IF r \in q.rollout THEN row(r) ELSE rollouts[r]]
        BY <1>0, <1>2 DEF RolloutsAfter
    <2>2. ASSUME NEW r \in Rollouts
          PROVE  /\ row(r) \in Rollout /\ row(r).status = status(r) /\ row(r).stage = q.stage
                 /\ row(r).bundle = rollouts[r].bundle
        <3>1. status(r) \in {"absent", "active", "completed"}
            BY <1>0 DEF Rollout
        <3> HIDE DEF status
        <3> QED
            BY <1>0, <3>1 DEF Request, Rollout
    <2> HIDE DEF row
    <2>3. rollouts' \in [Rollouts -> Rollout]
        BY <1>0, <2>1, <2>2
    <2>4. \A r \in Rollouts : rollouts'[r] = IF r \in q.rollout THEN row(r) ELSE rollouts[r]
        BY <2>1
    <2> QED
        BY <1>2, <2>2, <2>3, <2>4
<1>3. CASE q.op \notin {"create", "advance"}
    BY <1>0, <1>3 DEF RolloutsAfter, RequestKnows
<1> QED
    BY <1>1, <1>2, <1>3

\* The other variables of a commit.
LEMMA CommitRecords ==
    ASSUME RolloutsInv, NEW p \in Processes, Commit(p)
    PROVE  /\ req' \in [Processes -> Request] /\ req'[p].at = "committed"
           /\ \A i \in Processes :
                /\ req'[i].op = req[i].op /\ req'[i].bundle = req[i].bundle
                /\ req'[i].rollout = req[i].rollout /\ req'[i].stage = req[i].stage
                /\ req'[i].by = req[i].by /\ req'[i].copy = req[i].copy
                /\ req'[i].active = req[i].active
                /\ i # p => /\ req'[i].at = req[i].at
                            /\ req'[i].at \in {"loaded", "located"} => ~req'[i].current
           /\ rcache' \in [Processes -> RolloutEntry]
           /\ \A i \in Processes :
                /\ rcache'[i].live = rcache[i].live /\ rcache'[i].config = rcache[i].config
                /\ rcache'[i].old => \/ rcache[i].old
                                     \/ i = p /\ rcache[p].live /\ ChangesRollout(req[p])
           /\ pcache' \in [Processes -> PolicyEntry]
           /\ \A i \in Processes : pcache'[i].bundle = pcache[i].bundle
           /\ decision' \in [Processes -> Decision]
           /\ \A i \in Processes : decision'[i].bundle = decision[i].bundle
           /\ hist' \in History
           /\ hist'.clean => hist.clean /\ req[p].current
           /\ hist'.canaried = IF req[p].op \in {"create", "advance"} /\ req[p].stage = "canary"
                               THEN hist.canaried \cup req[p].rollout ELSE hist.canaried
           /\ hist'.promoted = IF req[p].op = "advance" /\ req[p].stage = "enforce"
                               THEN hist.promoted \cup req[p].rollout ELSE hist.promoted
<1>0. /\ req \in [Processes -> Request] /\ rcache \in [Processes -> RolloutEntry]
      /\ pcache \in [Processes -> PolicyEntry] /\ decision \in [Processes -> Decision]
      /\ hist \in History
    BY DEF RolloutsInv, TypeOK
<1> DEFINE q == req[p]
           current(i) == req[i].at \in {"idle", "committed"}
           row(i) == IF i = p THEN [q EXCEPT !.at = "committed"]
                     ELSE [req[i] EXCEPT !.current = current(i)]
<1>1. req' = [i \in Processes |-> row(i)]
    BY DEF Commit
<1>2. ASSUME NEW i \in Processes
      PROVE  /\ row(i) \in Request
             /\ row(i).op = req[i].op /\ row(i).bundle = req[i].bundle
             /\ row(i).rollout = req[i].rollout /\ row(i).stage = req[i].stage
             /\ row(i).by = req[i].by /\ row(i).copy = req[i].copy
             /\ row(i).active = req[i].active
             /\ i = p => row(i).at = "committed"
             /\ i # p => row(i).at = req[i].at /\ row(i).current = current(i)
    <2>1. CASE i = p
        BY <1>0, <2>1 DEF Request
    <2>2. CASE i # p
        <3>1. current(i) \in BOOLEAN
            OBVIOUS
        <3> HIDE DEF current
        <3> QED
            BY <1>0, <2>2, <3>1 DEF Request
    <2> QED
        BY <2>1, <2>2
<1> HIDE DEF row
<1>3. /\ req' \in [Processes -> Request] /\ req'[p].at = "committed"
      /\ \A i \in Processes :
            /\ req'[i].op = req[i].op /\ req'[i].bundle = req[i].bundle
            /\ req'[i].rollout = req[i].rollout /\ req'[i].stage = req[i].stage
            /\ req'[i].by = req[i].by /\ req'[i].copy = req[i].copy
            /\ req'[i].active = req[i].active
            /\ i # p => /\ req'[i].at = req[i].at
                        /\ req'[i].at \in {"loaded", "located"} => ~req'[i].current
    BY <1>1, <1>2
<1>4. /\ rcache' \in [Processes -> RolloutEntry]
      /\ \A i \in Processes :
            /\ rcache'[i].live = rcache[i].live /\ rcache'[i].config = rcache[i].config
            /\ rcache'[i].old => \/ rcache[i].old
                                 \/ i = p /\ rcache[p].live /\ ChangesRollout(q)
    <2> DEFINE old == rcache[p].old \/ (rcache[p].live /\ ChangesRollout(q))
    <2>1. rcache' = [rcache EXCEPT ![p].old = old]
        BY DEF Commit
    <2>2. old \in BOOLEAN
        BY <1>0 DEF RolloutEntry, ChangesRollout
    <2>3. old => rcache[p].old \/ (rcache[p].live /\ ChangesRollout(q))
        OBVIOUS
    <2> HIDE DEF old
    <2> QED
        BY <1>0, <2>1, <2>2, <2>3 DEF RolloutEntry
<1>5. /\ pcache' \in [Processes -> PolicyEntry]
      /\ \A i \in Processes : pcache'[i].bundle = pcache[i].bundle
    <2> DEFINE old == pcache[p].old \/ (pcache[p].live /\ Activates(q))
    <2>1. pcache' = [pcache EXCEPT ![p].old = old]
        BY DEF Commit
    <2>2. old \in BOOLEAN
        BY <1>0 DEF PolicyEntry, Activates
    <2> HIDE DEF old
    <2> QED
        BY <1>0, <2>1, <2>2 DEF PolicyEntry
<1>6. /\ decision' \in [Processes -> Decision]
      /\ \A i \in Processes : decision'[i].bundle = decision[i].bundle
    <2> DEFINE old == decision[p].old \/ (decision[p].at = "read" /\ Activates(q))
    <2>1. decision' = [decision EXCEPT ![p].old = old]
        BY DEF Commit
    <2>2. old \in BOOLEAN
        BY <1>0 DEF Decision, Activates
    <2> HIDE DEF old
    <2> QED
        BY <1>0, <2>1, <2>2 DEF Decision
<1>7. /\ hist' \in History
      /\ hist'.clean => hist.clean /\ q.current
      /\ hist'.canaried = IF q.op \in {"create", "advance"} /\ q.stage = "canary"
                          THEN hist.canaried \cup q.rollout ELSE hist.canaried
      /\ hist'.promoted = IF q.op = "advance" /\ q.stage = "enforce"
                          THEN hist.promoted \cup q.rollout ELSE hist.promoted
    <2> DEFINE clean == hist.clean /\ q.current
               canaried == IF q.op \in {"create", "advance"} /\ q.stage = "canary"
                           THEN hist.canaried \cup q.rollout ELSE hist.canaried
               promoted == IF q.op = "advance" /\ q.stage = "enforce"
                           THEN hist.promoted \cup q.rollout ELSE hist.promoted
    <2>1. hist' = [hist EXCEPT !.clean = clean, !.canaried = canaried, !.promoted = promoted]
        BY DEF Commit
    <2>2. clean \in BOOLEAN /\ canaried \in SUBSET Rollouts /\ promoted \in SUBSET Rollouts
        BY <1>0 DEF History, Request
    <2>3. clean => hist.clean /\ q.current
        OBVIOUS
    <2> HIDE DEF clean, canaried, promoted
    <2>4. /\ hist' \in History /\ hist'.clean = clean /\ hist'.canaried = canaried
          /\ hist'.promoted = promoted
        BY <1>0, <2>1, <2>2 DEF History
    <2> QED
        BY <2>3, <2>4 DEF canaried, promoted
<1> QED
    BY <1>3, <1>4, <1>5, <1>6, <1>7


LEMMA CommitKeeps ==
    ASSUME RolloutsInv, NEW p \in Processes, Commit(p)
    PROVE  RolloutsInv'
<1> DEFINE q == req[p]
<1>0. /\ TypeOK /\ q \in Request /\ q.at = IF Activates(q) THEN "located" ELSE "loaded"
      /\ q.bundle \subseteq Bundles /\ q.rollout \subseteq Rollouts /\ UNCHANGED used
      /\ RequestVetted(p) /\ RequestKnows(p)
    BY DEF RolloutsInv, TypeOK, Request, Commit
<1>1. /\ req' \in [Processes -> Request] /\ req'[p].at = "committed"
      /\ \A i \in Processes :
            /\ req'[i].op = req[i].op /\ req'[i].bundle = req[i].bundle
            /\ req'[i].rollout = req[i].rollout /\ req'[i].stage = req[i].stage
            /\ req'[i].by = req[i].by /\ req'[i].copy = req[i].copy
            /\ req'[i].active = req[i].active
            /\ i # p => /\ req'[i].at = req[i].at
                        /\ req'[i].at \in {"loaded", "located"} => ~req'[i].current
    BY CommitRecords
<1>2. /\ rcache' \in [Processes -> RolloutEntry]
      /\ \A i \in Processes :
            /\ rcache'[i].live = rcache[i].live /\ rcache'[i].config = rcache[i].config
            /\ rcache'[i].old => \/ rcache[i].old
                                 \/ i = p /\ rcache[p].live /\ ChangesRollout(q)
      /\ pcache' \in [Processes -> PolicyEntry]
      /\ \A i \in Processes : pcache'[i].bundle = pcache[i].bundle
      /\ decision' \in [Processes -> Decision]
      /\ \A i \in Processes : decision'[i].bundle = decision[i].bundle
    BY CommitRecords
<1>3. /\ hist' \in History
      /\ hist'.clean => hist.clean /\ q.current
      /\ hist'.canaried = IF q.op \in {"create", "advance"} /\ q.stage = "canary"
                          THEN hist.canaried \cup q.rollout ELSE hist.canaried
      /\ hist'.promoted = IF q.op = "advance" /\ q.stage = "enforce"
                          THEN hist.promoted \cup q.rollout ELSE hist.promoted
    BY CommitRecords
<1>4. /\ bundles' \in [Bundles -> Bundle]
      /\ \A b \in Bundles :
            /\ BundleStays(b)
            /\ bundles'[b].status \in {"approved", "active", "retired"} => Vetted(b)'
            /\ Vetted(b)' => bundles'[b].status # "absent" /\ Reviewed(bundles'[b])
            /\ bundles'[b].status = "active" =>
                \/ Activates(q) /\ (b \in q.bundle \/ (b \in Active /\ b \notin q.active))
                \/ ~Activates(q) /\ b \in Active
    BY BundleCommits
<1>5. /\ rollouts' \in [Rollouts -> Rollout]
      /\ \A r \in Rollouts :
            \/ r \notin q.rollout /\ rollouts'[r] = rollouts[r]
            \/ /\ r \in q.rollout /\ q.op = "create"
               /\ rollouts'[r].status = "active" /\ rollouts'[r].stage = q.stage
               /\ rollouts'[r].bundle = q.bundle
            \/ /\ r \in q.rollout /\ q.op = "advance"
               /\ rollouts'[r].stage = q.stage /\ rollouts'[r].bundle = rollouts[r].bundle
               /\ rollouts'[r].status = IF q.stage \in {"enforce", "completed"}
                                        THEN "completed" ELSE rollouts[r].status
    BY RolloutCommits
<1>6. TypeOK'
    BY <1>0, <1>1, <1>2, <1>3, <1>4, <1>5 DEF TypeOK
<1>7. BundlesReviewed'
    BY <1>4 DEF BundlesReviewed, Reviewed
<1>8. ASSUME NEW i \in Processes PROVE RequestVetted(i)' /\ CacheVetted(i)'
    <2>1. /\ \A b \in req[i].bundle : /\ bundles'[b].status # "absent"
                                      /\ bundles'[b].author = bundles[b].author
                                      /\ Vetted(b) => Vetted(b)'
          /\ \A b \in req[i].active : Vetted(b)'
          /\ UNCHANGED <<pcache[i].bundle, decision[i].bundle, rcache[i].config>> => CacheVetted(i)'
        BY <1>4, VettedKept
    <2>2. RequestVetted(i)
        BY DEF RolloutsInv
    <2>3. RequestVetted(i)'
        BY <1>1, <2>1, <2>2 DEF RequestVetted
    <2> QED
        BY <1>2, <2>1, <2>3
<1>9. RolloutsVetted'
    <2>1. q.op = "create" => \A b \in q.bundle : Vetted(b)'
        BY <1>0, <1>4 DEF RequestVetted, BundleStays
    <2>2. \A r \in Rollouts : \A b \in rollouts[r].bundle : Vetted(b)'
        BY <1>0, <1>4 DEF RolloutsInv, TypeOK, Rollout, RolloutsVetted, BundleStays
    <2> QED
        BY <1>5, <2>1, <2>2 DEF RolloutsVetted
<1>10. SingleBundle'
    BY <1>1, <1>5 DEF RolloutsInv, SingleBundle
<1>11. OneActiveBundle'
    <2> SUFFICES ASSUME hist'.clean, NEW a \in Active', NEW b \in Active' PROVE a = b
        BY DEF OneActiveBundle
    <2>1. a \in Bundles /\ b \in Bundles /\ bundles'[a].status = "active" /\ bundles'[b].status = "active"
        BY DEF Active
    <2>2. hist.clean /\ q.current
        BY <1>3
    <2>3. CASE Activates(q)
        <3>1. q.active = Active
            BY <1>0, <2>2, <2>3 DEF RequestKnows, InProgress
        <3>2. a \in q.bundle /\ b \in q.bundle
            BY <1>4, <2>1, <2>3, <3>1
        <3> QED
            BY <3>2 DEF RolloutsInv, SingleBundle
    <2>4. CASE ~Activates(q)
        BY <1>4, <2>1, <2>2, <2>4 DEF RolloutsInv, OneActiveBundle
    <2> QED
        BY <2>3, <2>4
<1>12. ASSUME NEW i \in Processes PROVE RequestKnows(i)'
    <2>1. ~(req'[i].at \in {"loaded", "located"} /\ req'[i].current)
        BY <1>1
    <2>2. RequestKnows(i)
        BY DEF RolloutsInv
    <2> QED
        BY <1>1, <2>1, <2>2 DEF RequestKnows, InProgress
<1>13. CanariesSeen'
    <2>1. hist.canaried \subseteq hist'.canaried
        BY <1>3
    <2>2. CanariesSeen
        BY DEF RolloutsInv
    <2>3. hist'.promoted \subseteq hist'.canaried
        BY <1>3, <2>1, <2>2 DEF CanariesSeen
    <2>4. \A r \in Rollouts : rollouts'[r].stage = "canary" => r \in hist'.canaried
        BY <1>3, <1>5, <2>1, <2>2 DEF CanariesSeen
    <2> QED
        BY <1>1, <2>1, <2>2, <2>3, <2>4 DEF CanariesSeen
<1>14. OutcomeRecorded'
    <2> SUFFICES ASSUME hist'.clean, NEW r \in Rollouts
                 PROVE  /\ r \in hist'.promoted <=> rollouts'[r].stage = "enforce"
                        /\ rollouts'[r].stage \in {"enforce", "completed"} =>
                            rollouts'[r].status = "completed"
        BY DEF OutcomeRecorded
    <2>1. hist.clean /\ q.current
        BY <1>3
    <2>2. /\ r \in hist.promoted <=> rollouts[r].stage = "enforce"
          /\ rollouts[r].stage \in {"enforce", "completed"} => rollouts[r].status = "completed"
        BY <2>1 DEF RolloutsInv, OutcomeRecorded
    <2>3. r \in q.rollout => rollouts[r].status = IF q.op = "create" THEN "absent" ELSE "active"
        BY <1>0, <2>1 DEF RequestKnows, InProgress
    <2>4. q.op = "create" => q.stage \in {"shadow", "canary"}
        BY <1>0 DEF RequestKnows
    <2>5. r \in hist'.promoted <=>
            r \in hist.promoted \/ (q.op = "advance" /\ q.stage = "enforce" /\ r \in q.rollout)
        BY <1>3
    <2>6. CASE r \notin q.rollout
        BY <1>5, <2>2, <2>5, <2>6
    <2>7. CASE r \in q.rollout /\ q.op = "create"
        BY <1>5, <2>2, <2>3, <2>4, <2>5, <2>7
    <2>8. CASE r \in q.rollout /\ q.op = "advance"
        BY <1>5, <2>2, <2>3, <2>5, <2>8
    <2> QED
        BY <1>5, <2>6, <2>7, <2>8
<1>15. LockHeld'
    <2> SUFFICES ASSUME PostgreSQL
                 PROVE  /\ \A r, s \in Rollouts :
                            rollouts'[r].status = "active" /\ rollouts'[s].status = "active" => r = s
                        /\ \A i, j \in Processes : Creating(i)' /\ Creating(j)' => i = j
                        /\ \A i \in Processes : Creating(i)' =>
                            \A r \in Rollouts : rollouts'[r].status # "active"
        BY DEF LockHeld, OneActiveRollout
    <2>1. /\ \A r, s \in Rollouts :
                rollouts[r].status = "active" /\ rollouts[s].status = "active" => r = s
          /\ \A i, j \in Processes : Creating(i) /\ Creating(j) => i = j
          /\ \A i \in Processes : Creating(i) => \A r \in Rollouts : rollouts[r].status # "active"
        BY DEF RolloutsInv, LockHeld, OneActiveRollout
    <2>2. \A i \in Processes : Creating(i)' => i # p /\ Creating(i)
        BY <1>1 DEF Creating
    <2>3. CASE q.op = "create"
        <3>1. Creating(p)
            BY <1>0, <2>3 DEF Creating, Activates
        <3>2. \A i \in Processes : ~Creating(i)'
            BY <2>1, <2>2, <3>1
        <3>3. \A r \in Rollouts : rollouts'[r].status = "active" => r \in q.rollout
            BY <1>5, <2>1, <3>1
        <3> QED
            BY <3>2, <3>3 DEF RolloutsInv, SingleBundle
    <2>4. CASE q.op # "create"
        <3>1. \A r \in Rollouts : rollouts'[r].status = "active" => rollouts[r].status = "active"
            BY <1>5, <2>4
        <3> QED
            BY <2>1, <2>2, <3>1
    <2> QED
        BY <2>3, <2>4
<1>16. RolloutCacheFresh'
    <2>1. RolloutCacheFresh
        BY DEF RolloutsInv
    <2>2. ~(rcache[p].live /\ rcache[p].old)
        BY <1>0, <2>1 DEF RolloutCacheFresh
    <2> QED
        BY <1>1, <1>2, <2>1, <2>2 DEF RolloutCacheFresh, ChangesRollout
<1> QED
    BY <1>6, <1>7, <1>8, <1>9, <1>10, <1>11, <1>12, <1>13, <1>14, <1>15, <1>16 DEF RolloutsInv


-----------------------------------------------------------------------------
LEMMA StepPreserves == RolloutsInv /\ [Next]_vars => RolloutsInv'
<1> SUFFICES ASSUME RolloutsInv, [Next]_vars PROVE RolloutsInv'
    OBVIOUS
<1>1. CASE UNCHANGED vars
    <2>1. /\ \A p \in Processes : CacheVetted(p)'
          /\ RolloutCacheFresh'
        BY <1>1 DEF vars, RolloutsInv, CacheVetted, Vetted, RolloutCacheFresh
    <2> QED
        BY <1>1, <2>1, CachesMove DEF vars, RolloutsInv, TypeOK
<1> QED
    BY <1>1, CreateBundleKeeps, BeginBundleKeeps, CreateRolloutKeeps, BeginAdvanceKeeps, LocateKeeps,
       CommitKeeps, RespondKeeps, DecisionsKeep DEF Next, RequestStep

\* RolloutsInv holds of every reachable state.
THEOREM RolloutsInvariant == Spec => []RolloutsInv
BY InitInv, StepPreserves, PTL DEF Spec

\* The tables, the requests, the caches and the history keep their types.
THEOREM RolloutsTypeOK == Spec => []TypeOK
<1>1. RolloutsInv => TypeOK
    BY DEF RolloutsInv
<1> QED
    BY <1>1, RolloutsInvariant, PTL

\* Separation of duty reaches the enforcement point: whatever the endpoints of
\* policy bundles, the rollouts and the caches of any number of processes
\* interleave, a decision enforces only bundles that somebody else approved.
THEOREM EnforcedReviewed == Spec => []EnforcedWasReviewed
<1>1. RolloutsInv => EnforcedWasReviewed
    <2> SUFFICES ASSUME RolloutsInv, NEW p \in Processes, NEW b \in Enforceable(p)
                 PROVE  Reviewed(bundles[b])
        BY DEF EnforcedWasReviewed
    <2>1. /\ CacheVetted(p) /\ RolloutsVetted /\ BundlesReviewed
          /\ decision[p] \in Decision /\ rcache[p] \in RolloutEntry
          /\ rollouts \in [Rollouts -> Rollout]
        BY DEF RolloutsInv, TypeOK
    <2>2. CASE b \in decision[p].bundle
        BY <2>1, <2>2 DEF CacheVetted, BundlesReviewed, Decision
    <2>3. ASSUME NEW c \in RuntimeRollout(p).config, b \in c.bundle
          PROVE  Reviewed(bundles[b])
        <3>1. CASE rcache[p].live
            <4>1. c \in rcache[p].config
                BY <2>3, <3>1 DEF RuntimeRollout
            <4>2. b \in Bundles /\ Vetted(b)
                BY <2>1, <2>3, <4>1 DEF CacheVetted, RolloutEntry
            <4> QED
                BY <2>1, <4>2 DEF BundlesReviewed
        <3>2. CASE ~rcache[p].live
            <4>1. c \in load_runtime_rollout
                BY <2>3, <3>2 DEF RuntimeRollout
            <4>2. b \in Bundles /\ Vetted(b)
                BY <2>1, <2>3, <4>1 DEF load_runtime_rollout, RolloutsVetted, Rollout
            <4> QED
                BY <2>1, <4>2 DEF BundlesReviewed
        <3> QED
            BY <3>1, <3>2
    <2> QED
        BY <2>2, <2>3 DEF Enforceable
<1> QED
    BY <1>1, RolloutsInvariant, PTL

\* A rollout whose bundle was activated has been a canary and says so, and one
\* that was only completed did not activate it.
THEOREM RolloutsPromoted == Spec => []PromotionsEarned
<1>1. RolloutsInv => PromotionsEarned
    BY DEF RolloutsInv, PromotionsEarned, PromotedWasCanary, CanariesSeen
<1> QED
    BY <1>1, RolloutsInvariant, PTL

\* With the advisory lock there is one active rollout; on any database there is
\* one active bundle while no request commits over another one's commit, and a
\* process sees its own change of the rollout at once.
THEOREM RolloutsAgree ==
    /\ Spec => [](OneActiveBundle /\ LocalRolloutVisible)
    /\ PostgreSQL => (Spec => []OneConfiguration)
<1>1. RolloutsInv => OneActiveBundle /\ LocalRolloutVisible
    BY DEF RolloutsInv, LocalRolloutVisible, RolloutCacheFresh
<1>2. Spec => [](OneActiveBundle /\ LocalRolloutVisible)
    BY <1>1, RolloutsInvariant, PTL
<1>3. ASSUME PostgreSQL PROVE Spec => []OneConfiguration
    <2>1. RolloutsInv => OneConfiguration
        BY <1>1, <1>3 DEF RolloutsInv, LockHeld, OneConfiguration
    <2> QED
        BY <2>1, RolloutsInvariant, PTL
<1> QED
    BY <1>2, <1>3
=============================================================================
