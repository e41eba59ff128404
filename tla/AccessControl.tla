----------------------------- MODULE AccessControl -----------------------------
(***************************************************************************)
(* Who may do what: the accounts of people and programs, the governance of *)
(* policies and their exceptions, searches for what is permitted, and the  *)
(* inventory of AI models.  The exceptions of governance count in the      *)
(* searches; accounts and the inventory share neither state nor code with  *)
(* the others, so a behaviour has one of them at work.                     *)
(***************************************************************************)
EXTENDS IdentityLifecycle, ServiceAccounts, AuthorizationSearch, AILineage

CONSTANT
    MaxLoad     \* bound: requests, crashes, errors and changes

ASSUME LoadAssumption == MaxLoad \in Nat

VARIABLES
    part,       \* which of them is at work
    load

vars == <<ivars, svars, evars, searchvars, lineagevars, part, load>>

TypeOK ==
    /\ IdentityTypeOK
    /\ AccountsTypeOK
    /\ ExceptionsTypeOK
    /\ SearchTypeOK
    /\ LineageTypeOK
    /\ load \in 0..MaxLoad

Init ==
    /\ part \in {"accounts", "policies", "searches", "inventory"}
    /\ IdentityInit
    /\ AccountsInit
    /\ ExceptionsInit
    /\ SearchInit(part = "searches")
    /\ LineageInit
    /\ load = 0

Loaded == load < MaxLoad /\ load' = load + 1

Accounts ==
    /\ part = "accounts"
    /\ UNCHANGED <<evars, searchvars, lineagevars>>
    /\ \/ IdentityArrives /\ Loaded /\ UNCHANGED svars
       \/ IdentityStep /\ UNCHANGED <<svars, load>>
       \/ AdminStarts /\ Loaded /\ UNCHANGED ivars
       \/ (AdminCommits \/ Tick) /\ UNCHANGED <<ivars, load>>

Governs ==
    /\ part = "policies"
    /\ UNCHANGED <<ivars, svars, searchvars, lineagevars>>
    /\ \/ GovernanceArrives /\ Loaded
       \/ GovernanceStep /\ UNCHANGED load

Searches ==
    /\ part = "searches"
    /\ UNCHANGED <<ivars, svars, evars, lineagevars>>
    /\ \/ \E c \in Candidates : CandidateChanges(c) /\ Loaded
       \/ BeginSearch /\ Loaded
       \/ \E search \in DOMAIN Variants : SearchPage(search) /\ UNCHANGED load

ExceptionChanges ==
    /\ part \in {"policies", "searches"}
    /\ UNCHANGED <<ivars, svars, lineagevars, kind, listed, approved>>
    /\ \/ ExceptionArrives /\ Loaded
       \/ ExceptionStep /\ UNCHANGED load
    /\ Keep

Inventory ==
    /\ part = "inventory"
    /\ UNCHANGED <<ivars, svars, evars, searchvars>>
    /\ \/ LineageArrives /\ Loaded
       \/ LineageStep /\ UNCHANGED load

Next ==
    /\ UNCHANGED part
    /\ Accounts \/ Governs \/ Searches \/ ExceptionChanges \/ Inventory

Spec == Init /\ [][Next]_vars

Others == <<svars, evars, searchvars, lineagevars, part, load>>

\* Requests run to their end unless their process dies, and workers run jobs.
FairSpec ==
    /\ Spec
    /\ \A c \in Clients : WF_vars(ClientStep(c) /\ UNCHANGED Others)
    /\ \A j \in Jobs : WF_vars(JobStep(j) /\ UNCHANGED Others)

\* What was withdrawn by complete_rotation or revoke_policy_exception never
\* works again.
WithdrawnStaysOut == RetiredStaysOut /\ RevokedStaysOut
=============================================================================
