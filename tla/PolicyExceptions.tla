--------------------------- MODULE PolicyExceptions ---------------------------
(***************************************************************************)
(* Who may bend and change the policies: exceptions and their renewal,     *)
(* the delegation of approvals, and the approval of a policy bundle, with  *)
(* their review tasks (app/services/policy_governance.py and the endpoints *)
(* of app/v13.py and app/v14.py).                                          *)
(*                                                                         *)
(* One exception and one bundle.  The endpoint of a request loads the row, *)
(* commits its change, and then opens or completes the review task in a    *)
(* transaction of its own.                                                 *)
(***************************************************************************)
EXTENDS PolicyDecision

CONSTANTS
    Owners,         \* data owners
    Author,         \* the data owner who wrote the bundle
    Requests,       \* requests under way at a time, 1..N
    Tasks,          \* rows of governance_review_tasks
    NewExceptions,  \* exceptions to create: [policy, agent, override, expires]
    Grants,         \* what delegations may grant: [expires, bundles, exceptions]
    MaxInstant,     \* bound: instants
    MaxExpiry       \* bound: the last expiry asked for

VARIABLES
    clock,
    exception,      \* the row of policy_exceptions
    bundle,         \* status of the policy bundle
    delegation,     \* the delegation to each data owner
    request,        \* requests under way
    tasks,          \* the review tasks
    asked           \* history: renewals asked for and approved, mishaps

evars == <<clock, exception, bundle, delegation, request, tasks, asked>>

ReviewSubjects == {"bundle", "renewal"}
INSTANCE GovernanceReviews WITH Subjects <- ReviewSubjects

Admin == "admin"
People == Owners \cup {Admin}
Nobody == "nobody"

Expiries == 1..MaxExpiry

ASSUME ExceptionsAssumption ==
    /\ Requests \subseteq Nat /\ MaxInstant \in Nat /\ MaxExpiry \in Nat
    /\ \A new \in NewExceptions : new.expires \in Expiries /\ new.override \in Decisions

NoException == [known |-> FALSE, active |-> FALSE, expires |-> 0,
                policy |-> {}, agent |-> {}, override |-> "allow",
                status |-> "none", until |-> 0, by |-> Nobody]
NoDelegation == [active |-> FALSE, expires |-> 0, bundles |-> FALSE,
                 exceptions |-> FALSE]
NoRequest == [op |-> "none", at |-> "idle", who |-> Nobody, until |-> 0,
              loaded |-> NoException]

ExceptionsTypeOK ==
    /\ clock \in 0..MaxInstant
    /\ exception.expires \in 0..MaxExpiry
    /\ exception.status \in {"none", "pending", "approved"}
    /\ exception.by \in People \cup {Nobody}
    /\ bundle \in {"draft", "pending", "approved"}
    /\ \A r \in Requests : request[r].at \in {"idle", "commit", "review"}
    /\ tasks \in [Tasks -> Task]

ExceptionsInit ==
    /\ clock = 0
    /\ exception = NoException
    /\ bundle = "draft"
    /\ delegation = [o \in Owners |-> NoDelegation]
    /\ request = [r \in Requests |-> NoRequest]
    /\ ReviewsInit
    /\ asked = [wants |-> {}, extended |-> {}, overlap |-> FALSE, upset |-> {}]

InForce == exception.active /\ exception.expires > clock

Instant ==
    /\ clock < MaxInstant
    /\ clock' = clock + 1
    /\ UNCHANGED <<exception, bundle, delegation, request, tasks, asked>>

-----------------------------------------------------------------------------
(***************************************************************************)
(* The administrator.                                                      *)
(***************************************************************************)
create_policy_exception(new) ==
    /\ ~exception.known
    /\ new.policy \cup new.agent # {}
    /\ new.expires > clock
    /\ exception' = [NoException EXCEPT !.known = TRUE, !.active = TRUE,
                        !.expires = new.expires, !.policy = new.policy,
                        !.agent = new.agent, !.override = new.override]
    /\ UNCHANGED <<clock, bundle, delegation, request, tasks, asked>>

revoke_policy_exception ==
    /\ exception.known
    /\ exception' = [exception EXCEPT !.active = FALSE]
    /\ UNCHANGED <<clock, bundle, delegation, request, tasks, asked>>

Delegated(o) == delegation[o].active /\ delegation[o].expires > clock

create_delegation(o, grant) ==
    /\ ~Delegated(o)
    /\ grant.bundles \/ grant.exceptions
    /\ grant.expires > clock
    /\ delegation' = [delegation EXCEPT ![o] =
            [active |-> TRUE, expires |-> grant.expires,
             bundles |-> grant.bundles, exceptions |-> grant.exceptions]]
    /\ UNCHANGED <<clock, exception, bundle, request, tasks, asked>>

revoke_policy_approver_delegation(o) ==
    /\ delegation[o].active
    /\ delegation' = [delegation EXCEPT ![o].active = FALSE]
    /\ UNCHANGED <<clock, exception, bundle, request, tasks, asked>>

can_approve_bundle(p) == p # Admin => Delegated(p) /\ delegation[p].bundles

can_approve_exception(p) == p # Admin => Delegated(p) /\ delegation[p].exceptions

-----------------------------------------------------------------------------
(***************************************************************************)
(* Requests: the row is loaded and the request accepted or refused.        *)
(***************************************************************************)
About(op) == IF op \in {"renew", "extend"} THEN "renewal" ELSE "bundle"

Under(s) == {r \in Requests : request[r].at # "idle" /\ About(request[r].op) = s}

Renewable(until) ==
    /\ InForce
    /\ until > exception.expires
    /\ exception.status # "pending"

\* Mutant: the requester may approve.
ExtendableByAll(p) == can_approve_exception(p) /\ exception.status = "pending"

Extendable(p) ==
    /\ can_approve_exception(p)
    /\ exception.by # p
    /\ exception.status = "pending"

Accepted(op, p, until) ==
    CASE op = "renew" -> Renewable(until)
      [] op = "extend" -> Extendable(p)
      [] op = "submit" -> bundle = "draft"
      [] op = "approve" -> /\ bundle = "pending"
                           /\ can_approve_bundle(p)
                           /\ Author # p

Idle == {r \in Requests : request[r].at = "idle"}

BeginRequest(op, p, until) ==
    /\ Idle # {}
    /\ Accepted(op, p, until)
    /\ request' = [request EXCEPT ![Min(Idle)] =
            [op |-> op, at |-> "commit", who |-> p, until |-> until,
             loaded |-> IF About(op) = "renewal" THEN exception ELSE NoException]]
    /\ asked' = [asked EXCEPT
            !.overlap = @ \/ (op = "renew" /\ Under("renewal") # {}),
            !.upset = IF Under(About(op)) = {} THEN @ ELSE @ \cup {About(op)}]
    /\ UNCHANGED <<clock, exception, bundle, delegation, tasks>>

\* A column is written only if the assigned value differs from the loaded one.
WrittenColumn(current, loaded, assigned) == IF assigned = loaded THEN current ELSE assigned

request_exception_renewal(q) ==
    /\ exception' = [exception EXCEPT
            !.status = "pending",
            !.until = WrittenColumn(@, q.loaded.until, q.until),
            !.by = WrittenColumn(@, q.loaded.by, q.who)]
    /\ asked' = [asked EXCEPT !.wants = @ \cup {<<q.who, q.until>>}]
    /\ UNCHANGED bundle

Extend(q) ==
    exception' = [exception EXCEPT !.expires = q.loaded.until, !.status = "approved"]

approve_exception_renewal(q) ==
    /\ Extend(q)
    /\ asked' = [asked EXCEPT !.extended = @ \cup {<<q.who, q.loaded.until>>}]
    /\ UNCHANGED bundle

\* submit_policy_bundle and approve_policy_bundle
ReviewBundle(q) ==
    /\ bundle' = IF q.op = "submit" THEN "pending" ELSE "approved"
    /\ UNCHANGED <<exception, asked>>

CommitRequest(r) ==
    LET q == request[r] IN
    /\ q.at = "commit"
    /\ request' = [request EXCEPT ![r].at = "review"]
    /\ CASE q.op = "renew" -> request_exception_renewal(q)
         [] q.op = "extend" -> approve_exception_renewal(q)
         [] q.op \in {"submit", "approve"} -> ReviewBundle(q)
    /\ UNCHANGED <<clock, delegation, tasks>>

Opens(op) == op \in {"renew", "submit"}

ReviewRequest(r) ==
    LET q == request[r] IN
    /\ q.at = "review"
    /\ IF Opens(q.op) THEN create_review_task(About(q.op))
                      ELSE complete_review_task(About(q.op))
    /\ request' = [request EXCEPT ![r] = NoRequest]
    /\ UNCHANGED <<clock, exception, bundle, delegation, asked>>

\* The process of a request dies.
RequestDies(r) ==
    /\ request[r].at # "idle"
    /\ request' = [request EXCEPT ![r] = NoRequest]
    /\ asked' = [asked EXCEPT !.upset = @ \cup {About(request[r].op)}]
    /\ UNCHANGED <<clock, exception, bundle, delegation, tasks>>

-----------------------------------------------------------------------------
ExceptionArrives == revoke_policy_exception

ExceptionStep ==
    \/ Instant
    \/ \E new \in NewExceptions : create_policy_exception(new)

GovernanceArrives ==
    \/ \E o \in Owners :
        \/ revoke_policy_approver_delegation(o)
        \/ \E grant \in Grants : create_delegation(o, grant)
    \/ \E op \in {"renew", "extend", "submit", "approve"}, p \in People :
        \E until \in IF op = "renew" THEN Expiries ELSE {0} :
            BeginRequest(op, p, until)
    \/ \E r \in Requests : RequestDies(r)

GovernanceStep == \E r \in Requests : CommitRequest(r) \/ ReviewRequest(r)

-----------------------------------------------------------------------------
\* No extension has been approved by the only identity that asked for it, as
\* docs/POLICY_GOVERNANCE.md promises; requests for a renewal that overlapped
\* may be mixed up column by column.
ExtendedByAnother ==
    asked.overlap \/ \A x \in asked.extended :
        \E w \in asked.wants : w[2] = x[2] /\ w[1] # x[1]

\* A revoked exception never bends a policy again, whatever is approved later
\* or was under way.
RevokedStaysOut ==
    [][exception.known /\ ~exception.active => ~exception'.active]_evars

\* A bundle and a renewal that wait for approval, and only these, have an open
\* review task, unless their requests overlapped or died.
ReviewsFollow ==
    \A s \in ReviewSubjects \ asked.upset :
        Under(s) = {} =>
            (OpenFor(s) # {} <=>
                IF s = "bundle" THEN bundle = "pending"
                                ELSE exception.status = "pending")

\* What waits for approval is on the list of reviews, and what was approved had
\* a second identity behind it.
ApprovalsGoverned == ExtendedByAnother /\ ReviewsFollow
=============================================================================
