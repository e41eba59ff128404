-------------------------- MODULE GovernanceReviews --------------------------
(***************************************************************************)
(* Review tasks: app/services/governance.py.  A request that needs a       *)
(* decision opens a task after its own commit, and the decision completes  *)
(* the task after its own commit.  The modules of the subjects of reviews  *)
(* are composed with these operations.                                     *)
(***************************************************************************)
EXTENDS Naturals, FiniteSets

CONSTANTS
    Tasks,          \* rows of governance_review_tasks
    Subjects        \* what tasks are about (task_type and subject_id)

VARIABLE
    tasks

TaskStatuses == {"open", "in-progress", "completed"}
OPEN_STATUSES == {"open", "in-progress"}

\* A task that does not exist yet has no subject.
NoTask == [subject |-> "none", status |-> "completed"]

Task == [subject : Subjects \cup {"none"}, status : TaskStatuses]

ReviewsInit == tasks = [t \in Tasks |-> NoTask]

IsOpen(t, s) == tasks[t].subject = s /\ tasks[t].status \in OPEN_STATUSES

OpenFor(s) == {t \in Tasks : IsOpen(t, s)}

\* An open task of the subject is reused.
create_review_task(s) ==
    IF OpenFor(s) # {}
    THEN UNCHANGED tasks
    ELSE \E t \in Tasks :
        /\ tasks[t].subject = "none"
        /\ tasks' = [tasks EXCEPT ![t] = [subject |-> s, status |-> "open"]]

complete_review_task(s) ==
    tasks' = [t \in Tasks |-> IF t \in OpenFor(s)
                              THEN [tasks[t] EXCEPT !.status = "completed"]
                              ELSE tasks[t]]

\* assign_review_task, committed over the status it loaded: an unchanged
\* status is not written.
assign_review_task(t, loaded) ==
    /\ loaded \in OPEN_STATUSES
    /\ tasks' = [tasks EXCEPT ![t].status = IF loaded = "in-progress" THEN @
                                            ELSE "in-progress"]
=============================================================================
