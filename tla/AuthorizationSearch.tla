-------------------------- MODULE AuthorizationSearch --------------------------
(***************************************************************************)
(* AuthZEN searches (app/services/authzen_search.py): a client asks page   *)
(* by page which subjects may do something.  A page continues at an offset *)
(* into the candidates of its own time; its token names the search it      *)
(* belongs to.  A candidate is returned if PolicyDecision does not deny    *)
(* it, under the exceptions in force.                                      *)
(***************************************************************************)
EXTENDS PolicyExceptions, TLC

CONSTANTS
    Candidates,     \* 1..N: rows of ai_agents, or of the SCIM users
    Limit,          \* the results of a page, after the settings' maximum
    MaxScan,        \* MAX_SCAN_PER_PAGE
    Bundle,         \* the policies in force
    Variants        \* the searches: what besides the subject their queries say

ASSUME SearchAssumption ==
    /\ IsFiniteSet(Candidates) /\ Candidates \subseteq Nat
    /\ Limit \in Nat \ {0} /\ MaxScan \in Nat
    /\ 0 \notin DOMAIN Variants

\* validate_policy_definitions
ASSUME BundleAssumption == \A p \in Bundle : p.decision \in Decisions /\ p.risk \in 0..100

VARIABLES
    kind,           \* "agent" or "user": what is searched for
    listed,         \* the rows that are there, for a user also active
    approved,       \* the agents that are approved
    walk            \* the client's walk through the pages

searchvars == <<kind, listed, approved, walk>>

\* The first token is empty; a token is [search, offset].  results says how often
\* each candidate was returned.
NoWalk == [place |-> "idle", search |-> 1, token |-> [search |-> 0, offset |-> 0],
           results |-> [c \in Candidates |-> 0], steady |-> {}, shifted |-> FALSE]

SearchTypeOK ==
    /\ listed \subseteq Candidates
    /\ approved \subseteq Candidates
    /\ walk.place \in {"idle", "walking", "done"}
    /\ walk.token.offset \in 0..Cardinality(Candidates)

SearchInit(searched) ==
    /\ kind \in IF searched THEN {"agent", "user"} ELSE {"user"}
    /\ listed = IF searched THEN Candidates \ {Max(Candidates)} ELSE {}
    /\ approved = Candidates
    /\ walk = NoWalk

Exceptions == IF InForce THEN {exception} ELSE {}

Query(c, search) ==
    Variants[search] @@ [subject |-> kind, id |-> c, approved |-> c \in approved]

Answers(c, search) == evaluate_policy_only(Query(c, search), Bundle, Exceptions)

Permitted(c, search) == "deny" \notin Answers(c, search)

-----------------------------------------------------------------------------
(***************************************************************************)
(* _page_results: candidates are tested from the offset on until the page  *)
(* is full or MaxScan have been tested.                                    *)
(***************************************************************************)
\* Rows are ordered by their id.
First(rows, n) == {c \in rows : Cardinality({k \in rows : k < c}) < n}

Rest(offset) == listed \ First(listed, offset)

Results(candidates, n, search) == {c \in First(candidates, n) : Permitted(c, search)}

\* How many candidates a page that starts with these tests.
Consumed(candidates, search) ==
    LET most == Min({MaxScan, Cardinality(candidates)})
        full == {n \in 1..most : Cardinality(Results(candidates, n, search)) = Limit}
    IN  IF full = {} THEN most ELSE Min(full)

PageFull(page) == Cardinality(page) >= Limit

\* Mutant: the next page starts after as many candidates as were returned.
NextOffsetResults(offset, consumed, page) == offset + Cardinality(page)

NextOffset(offset, consumed, page) == offset + consumed

\* _request_state: a token is only good for the search that it continues.
TokenMatches(token, search) == token.search \in {0, search}

SearchPage(search) ==
    LET candidates == Rest(walk.token.offset)
        consumed == Consumed(candidates, search)
        page == Results(candidates, consumed, search)
        exhausted == Cardinality(candidates) <= MaxScan /\ ~PageFull(page)
    IN  /\ walk.place = "walking"
        /\ TokenMatches(walk.token, search)
        /\ walk' = [walk EXCEPT
                !.search = search,
                !.results = [c \in Candidates |-> @[c] + IF c \in page THEN 1 ELSE 0],
                !.place = IF exhausted THEN "done" ELSE "walking",
                !.token = [search |-> search,
                           offset |-> NextOffset(@.offset, consumed, page)]]
        /\ UNCHANGED <<kind, listed, approved>>

BeginSearch ==
    /\ walk.place = "idle"
    /\ walk' = [NoWalk EXCEPT !.place = "walking", !.steady = listed]
    /\ UNCHANGED <<kind, listed, approved>>

-----------------------------------------------------------------------------
\* Whose permission a step changes leaves the steady ones; a row that comes or
\* goes before the offset shifts the pages to follow.
Steady(set) == {c \in set : \A search \in DOMAIN Variants :
                                Permitted(c, search)' = Permitted(c, search)}

Keep ==
    walk' = IF walk.place = "idle" THEN walk
            ELSE [walk EXCEPT !.steady = Steady(@) \cap listed',
                    !.shifted = @ \/ First(listed, walk.token.offset)
                                        # First(listed', walk.token.offset)]

\* An agent is registered, or a user provisioned: the highest id.
AddCandidate(c) ==
    /\ c \notin listed /\ c = Max(Candidates)
    /\ listed' = listed \cup {c}
    /\ UNCHANGED <<kind, approved>>

\* A user is deactivated or comes back.
SetActive(c) ==
    /\ kind = "user"
    /\ listed' = IF c \in listed THEN listed \ {c} ELSE listed \cup {c}
    /\ UNCHANGED <<kind, approved>>

SetApproved(c) ==
    /\ kind = "agent" /\ c \in listed
    /\ approved' = IF c \in approved THEN approved \ {c} ELSE approved \cup {c}
    /\ UNCHANGED <<kind, listed>>

CandidateChanges(c) ==
    /\ AddCandidate(c) \/ SetActive(c) \/ SetApproved(c)
    /\ Keep

-----------------------------------------------------------------------------
\* A walk through the pages of a search returns every candidate that was there
\* and permitted all along, and none of them twice, unless a row before the
\* page came or went.
SearchCovers ==
    walk.place = "done" /\ ~walk.shifted =>
        \A c \in walk.steady :
            walk.results[c] = IF Permitted(c, walk.search) THEN 1 ELSE 0

\* A policy more never loosens a decision, except by an exception for it.
PoliciesOnlyRestrict ==
    \A p \in Bundle, c \in listed \cup {0}, search \in DOMAIN Variants :
        LET q == Query(c, search)
            without == evaluate_policy_only(q, Bundle \ {p}, Exceptions)
        IN  p.id \in exception.policy \/
                \A d \in Answers(c, search), e \in without :
                    DECISION_ORDER[d] >= DECISION_ORDER[e]
=============================================================================
