---------------------------- MODULE PolicyDecision ----------------------------
(***************************************************************************)
(* How a request for access is decided: the policies that match it         *)
(* (app/services/policy_engine.py), the risk of an agent's use of an asset *)
(* and the exceptions to it (app/services/policy.py), and the requests of  *)
(* other subjects and for other resources (evaluate_policy_only of         *)
(* app/services/runtime_authorization.py).                                 *)
(*                                                                         *)
(* A query is what a decision depends on:                                  *)
(*   subject   "agent" or "user";  id  its row (0: not registered)         *)
(*   approved  whether the agent is                                        *)
(*   resource  "asset", or "ai" for a resource of the AI inventory         *)
(*   usable    whether the resource is registered and, if "ai", approved   *)
(*   sensitivity and ceiling, of the asset and of the agent                *)
(*   outside   the facts that raise the risk: "domain", "external",        *)
(*             "public", "training"                                        *)
(* A policy is [id, decision, risk, match]; match gives the values of some *)
(* fields of a query.                                                      *)
(***************************************************************************)
EXTENDS Integers, FiniteSetsExt

Decisions == {"allow", "conditional", "deny"}
DECISION_ORDER == [allow |-> 0, conditional |-> 1, deny |-> 2]

Confidential == 2
Restricted == 3

\* Every condition of the policy holds; a field that the query lacks fails.
Matches(q, policy) ==
    \A field \in DOMAIN policy.match :
        field \in DOMAIN q /\ q[field] \in policy.match[field]

evaluate_policy_definitions(q, policies) == {p \in policies : Matches(q, p)}

\* Mutant: the matches are sorted the other way round.
MildestDecision(matches) ==
    IF matches = {} THEN "allow"
    ELSE CHOOSE d \in {p.decision : p \in matches} :
            \A p \in matches : DECISION_ORDER[d] <= DECISION_ORDER[p.decision]

\* The first of the matches, which are sorted by their decision.
PolicyDecided(matches) ==
    IF matches = {} THEN "allow"
    ELSE CHOOSE d \in {p.decision : p \in matches} :
            \A p \in matches : DECISION_ORDER[d] >= DECISION_ORDER[p.decision]

Weight(condition, risk) == IF condition THEN risk ELSE 0

Risk(q, matches) ==
    Min({100, Max({20} \cup {p.risk : p \in matches})
                + Weight(~q.approved, 45)
                + Weight(q.sensitivity > q.ceiling, 40)
                + Weight("domain" \in q.outside, 25)
                + Weight("external" \in q.outside, 25)
                + Weight("public" \in q.outside /\ q.sensitivity >= Confidential, 25)
                + Weight("training" \in q.outside, 30)})

\* evaluate without an exception
AgentDecision(q, matches) ==
    LET policy == PolicyDecided(matches)
        risk == Risk(q, matches)
    IN  IF ~q.approved \/ risk >= 80 \/ policy = "deny" THEN "deny"
        ELSE IF risk >= 50 \/ policy = "conditional" THEN "conditional"
        ELSE "allow"

\* Other subjects and resources: the policies, and the AI inventory.
ContextDecision(q, matches) ==
    IF \/ q.subject = "agent" /\ ~q.approved
       \/ q.resource = "ai" /\ ~q.usable
    THEN "deny" ELSE PolicyDecided(matches)

(***************************************************************************)
(* Exceptions.  A scope that was not given covers every query.             *)
(***************************************************************************)
Covers(scope, value) == scope = {} \/ value \in scope

Excepts(e, q, matches) ==
    /\ e.policy = {} \/ \E p \in matches : p.id \in e.policy
    /\ Covers(e.agent, q.id)

\* What may be answered: of several exceptions any may be found first.
evaluate(q, policies, exceptions) ==
    LET matches == evaluate_policy_definitions(q, policies)
        found == {e \in exceptions : Excepts(e, q, matches)}
    IN  IF found = {} THEN {AgentDecision(q, matches)}
                      ELSE {e.override : e \in found}

evaluate_policy_only(q, policies, exceptions) ==
    IF \/ q.subject = "agent" /\ q.id = 0
       \/ q.resource = "asset" /\ ~q.usable
    THEN {"deny"}
    ELSE IF q.subject = "agent" /\ q.resource = "asset"
    THEN evaluate(q, policies, exceptions)
    ELSE {ContextDecision(q, evaluate_policy_definitions(q, policies))}
=============================================================================
