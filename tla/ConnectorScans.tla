---------------------------- MODULE ConnectorScans ----------------------------
(***************************************************************************)
(* Connector scans: the catalogue of an account whose provider has no      *)
(* budget, or the jobs and the budget of a provider that has one.  The     *)
(* halves meet in a scan that fails, which the catalogue has too.          *)
(***************************************************************************)
EXTENDS ScanBudget, ConnectorCatalog

CONSTANT
    MaxLoad     \* bound: arrivals in the catalogue, or from administrators

VARIABLES
    metered,    \* whether it is the provider with a budget
    load

allvars == <<bvars, cvars, metered, load>>

ScansTypeOK ==
    /\ ScanTypeOK
    /\ CatalogTypeOK
    /\ load \in 0..MaxLoad

ScansInit ==
    /\ BudgetInit
    /\ CatalogInit
    /\ metered \in BOOLEAN
    /\ metered => style = "keys" /\ labels = [i \in Items |-> {}]
    /\ load = 0

Loaded == load < MaxLoad /\ load' = load + 1

ScansNext ==
    /\ UNCHANGED metered
    /\ \/ metered /\ UNCHANGED cvars /\ BudgetArrives /\ Loaded
       \/ metered /\ UNCHANGED cvars /\ BudgetStep /\ UNCHANGED load
       \/ ~metered /\ UNCHANGED bvars /\ CatalogArrives /\ Loaded
       \/ ~metered /\ UNCHANGED bvars /\ CatalogStep /\ UNCHANGED load

ScansSpec == ScansInit /\ [][ScansNext]_allvars
=============================================================================
