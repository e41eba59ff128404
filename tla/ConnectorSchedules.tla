------------------------- MODULE ConnectorSchedules -------------------------
(***************************************************************************)
(* Recurring connector scans: create_schedule and enqueue_due_schedules of *)
(* app/services/schedules.py, run by every worker before it claims a job,  *)
(* and the schedule endpoints of app/v13.py.                               *)
(*                                                                         *)
(* Time is a small natural number; maintenance windows are the set of      *)
(* instants they cover.  A worker's pass selects the due schedules once.   *)
(* The first is claimed on the row as selected; each commit expires the    *)
(* session, so every later one is read again before its claim.             *)
(***************************************************************************)
EXTENDS Integers, FiniteSets, FiniteSetsExt

CONSTANTS
    Workers,        \* worker processes
    Schedules,      \* connector_schedules
    CronSchedules,  \* the schedules of type cron, the others are interval
    Interval,       \* interval_seconds of the interval schedules
    CronSlots,      \* the instants the cron expression matches
    Blocked,        \* the instants covered by maintenance windows
    SkipReach,      \* how far skip_maintenance looks (a week)
    CronReach,      \* how far next_cron_run looks (a year)
    LastInstant,    \* bound: the clock
    MaxEdits,       \* bound: updates and deletions by operators
    MaxBusy         \* bound: schedules created plus passes running at once

ASSUME ScheduleAssumption ==
    /\ CronSchedules \subseteq Schedules
    /\ Interval \in Nat \ {0}
    /\ CronSlots \subseteq Nat
    /\ Blocked \subseteq Nat
    /\ SkipReach \in Nat
    /\ CronReach \in Nat
    /\ LastInstant \in Nat
    /\ MaxEdits \in Nat
    /\ MaxBusy \in Nat

VARIABLES
    now,        \* the clock
    sched,      \* connector_schedules
    pass,       \* each worker's enqueue_due_schedules
    edit,       \* the update request in flight
    edits,      \* edits begun, for the bound
    jobs,       \* history: connector.scan jobs enqueued for each schedule
    planned     \* history: occurrences each schedule has been given

schedulevars == <<now, sched, pass, edit, edits, jobs, planned>>

Schedule == [present : BOOLEAN, enabled : BOOLEAN, next : Nat]
NoSchedule == [present |-> FALSE, enabled |-> FALSE, next |-> 0]

IdlePass == [at |-> "idle", rest |-> {}, current |-> {}, copy |-> 0,
             began |-> 0, reloaded |-> FALSE]
Pass == [at : {"idle", "claiming", "enqueueing", "continuing"},
         rest : SUBSET Schedules, current : SUBSET Schedules, copy : Nat,
         began : Nat, reloaded : BOOLEAN]

NoEdit == [op |-> "none", target |-> {}, copy |-> NoSchedule]

SchedulesInit ==
    /\ now = 0
    /\ sched = [s \in Schedules |-> NoSchedule]
    /\ pass = [w \in Workers |-> IdlePass]
    /\ edit = NoEdit
    /\ edits = 0
    /\ jobs = [s \in Schedules |-> 0]
    /\ planned = [s \in Schedules |-> 0]

-----------------------------------------------------------------------------
(***************************************************************************)
(* When a schedule runs next: at the first of the instants that the search *)
(* finds.  If it finds none it raises.                                     *)
(***************************************************************************)
\* Minute by minute to an instant outside every window.
skip_maintenance(t) == {u \in t..(t + SkipReach) : u \notin Blocked}

next_cron_run(after) ==
    {t \in CronSlots : after < t /\ t <= after + CronReach /\ t \notin Blocked}

\* Whole intervals are added until the candidate is in the future.
IntervalCandidate(from, after) ==
    IF from > after THEN from
    ELSE from + Interval * ((after - from) \div Interval + 1)

next_schedule_run(s, from, after) ==
    IF s \in CronSchedules THEN next_cron_run(after)
    ELSE skip_maintenance(IntervalCandidate(from, after))

\* For a new schedule, or a new cadence.
FirstRun(s) ==
    IF s \in CronSchedules THEN next_cron_run(now) ELSE skip_maintenance(now)

-----------------------------------------------------------------------------
\* With one schedule MaxBusy = 3 lets two passes overlap, with two only one.
Load == Cardinality({s \in Schedules : planned[s] > 0})
            + Cardinality({w \in Workers : pass[w].at # "idle"})

TimePasses ==
    /\ now < LastInstant
    /\ now' = now + 1
    /\ UNCHANGED <<sched, pass, edit, edits, jobs, planned>>

create_schedule(s) ==
    /\ ~sched[s].present
    /\ planned[s] = 0
    /\ Load < MaxBusy
    /\ FirstRun(s) # {}
    /\ \E on \in BOOLEAN :
        sched' = [sched EXCEPT ![s] = [present |-> TRUE, enabled |-> on,
                                       next |-> Min(FirstRun(s))]]
    /\ planned' = [planned EXCEPT ![s] = 1]
    /\ UNCHANGED <<now, pass, edit, edits, jobs>>

\* PATCH loads the schedule; one request is in flight at a time ...
BeginEdit(s, op) ==
    /\ edit = NoEdit
    /\ edits < MaxEdits
    /\ sched[s].present
    /\ edit' = [op |-> op, target |-> {s}, copy |-> sched[s]]
    /\ edits' = edits + 1
    /\ UNCHANGED <<now, sched, pass, jobs, planned>>

\* ... an explicit next_run_at wins, a change of cadence plans a new
\* occurrence, enabling an overdue schedule makes it due now.
EditedNext(s, t) ==
    CASE edit.op = "replan"  -> t
      [] edit.op = "cadence" -> Min(FirstRun(s))
      [] edit.op = "enable" /\ edit.copy.next < now -> now
      [] OTHER -> edit.copy.next

EditedEnabled ==
    CASE edit.op = "enable"  -> TRUE
      [] edit.op = "disable" -> FALSE
      [] OTHER               -> edit.copy.enabled

\* A column is written only if the assigned value differs from the loaded one.
WrittenField(current, loaded, assigned) ==
    IF assigned = loaded THEN current ELSE assigned

update_connector_schedule(s, t) ==
    /\ edit.op \in {"replan", "cadence", "enable", "disable"}
    /\ s \in edit.target
    /\ edit.op # "replan" => t = now
    /\ edit.op = "cadence" => FirstRun(s) # {}
    /\ sched' = [sched EXCEPT
            ![s].enabled = WrittenField(@, edit.copy.enabled, EditedEnabled),
            ![s].next = WrittenField(@, edit.copy.next, EditedNext(s, t))]
    /\ planned' = [planned EXCEPT ![s] =
            IF sched'[s].next = sched[s].next THEN @ ELSE @ + 1]
    /\ edit' = NoEdit
    /\ UNCHANGED <<now, pass, edits, jobs>>

delete_connector_schedule(s) ==
    /\ edit.op = "delete"
    /\ s \in edit.target
    /\ sched' = [sched EXCEPT ![s] = NoSchedule]
    /\ edit' = NoEdit
    /\ UNCHANGED <<now, pass, edits, jobs, planned>>

-----------------------------------------------------------------------------
(***************************************************************************)
(* enqueue_due_schedules.                                                  *)
(***************************************************************************)
\* Mutant: an occurrence missed while no worker polled is not caught up.
DueNow(s) == sched[s].present /\ sched[s].enabled /\ sched[s].next = now

Due(s) == sched[s].present /\ sched[s].enabled /\ sched[s].next <= now

SelectDue(w, s) ==
    /\ pass[w].at = "idle"
    /\ Load < MaxBusy
    /\ Due(s)
    /\ \A i \in Schedules : Due(i) => sched[s].next <= sched[i].next
    /\ pass' = [pass EXCEPT ![w] =
                    [at |-> "claiming", rest |-> {i \in Schedules : Due(i)} \ {s},
                     current |-> {s}, copy |-> sched[s].next, began |-> now,
                     reloaded |-> FALSE]]
    /\ UNCHANGED <<now, sched, edit, edits, jobs, planned>>

\* Mutant: the update does not compare next_run_at.
ClaimMatchesAny(w, s) == sched[s].present /\ sched[s].enabled

ClaimMatches(w, s) ==
    sched[s].present /\ sched[s].enabled /\ sched[s].next = pass[w].copy

\* Compare-and-update of next_run_at; the next run is committed before the
\* job exists.  A schedule without a further run raises, whoever would win the
\* claim: the pass ends, and its worker with it.
ClaimSchedule(w, s) ==
    /\ pass[w].at = "claiming"
    /\ s \in pass[w].current
    /\ LET runs == next_schedule_run(s, pass[w].copy, pass[w].began)
       IN  \/ /\ runs = {}
              /\ pass' = [pass EXCEPT ![w] = IdlePass]
              /\ UNCHANGED <<sched, planned>>
           \/ /\ runs # {}
              /\ ClaimMatches(w, s)
              /\ sched' = [sched EXCEPT ![s].next = Min(runs)]
              /\ planned' = [planned EXCEPT ![s] =
                                IF sched'[s].next = sched[s].next THEN @ ELSE @ + 1]
              /\ pass' = [pass EXCEPT ![w].at = "enqueueing"]
           \/ /\ runs # {}
              /\ ~ClaimMatches(w, s)
              /\ pass' = [pass EXCEPT ![w].at = "continuing", ![w].current = {}]
              /\ UNCHANGED <<sched, planned>>
    /\ UNCHANGED <<now, edit, edits, jobs>>

\* The payload is read again after the claim's commit; a deleted schedule
\* raises there.
EnqueueDue(w, s) ==
    /\ pass[w].at = "enqueueing"
    /\ s \in pass[w].current
    /\ IF sched[s].present
       THEN /\ jobs' = [jobs EXCEPT ![s] = @ + 1]
            /\ pass' = [pass EXCEPT ![w].at = "continuing", ![w].current = {}]
       ELSE /\ pass' = [pass EXCEPT ![w] = IdlePass]
            /\ UNCHANGED jobs
    /\ UNCHANGED <<now, sched, edit, edits, planned>>

\* The next schedule of the pass is reloaded, because a commit came between.
ReloadNext(w, s) ==
    /\ pass[w].at = "continuing"
    /\ s \in pass[w].rest
    /\ pass' = [pass EXCEPT ![w] =
                    IF sched[s].present
                    THEN [pass[w] EXCEPT !.at = "claiming", !.rest = @ \ {s},
                                   !.current = {s}, !.copy = sched[s].next,
                                   !.reloaded = TRUE]
                    ELSE IdlePass]
    /\ UNCHANGED <<now, sched, edit, edits, jobs, planned>>

\* The pass is over, or its process died at any point.
EndPass(w) ==
    /\ pass[w].at # "idle"
    /\ pass' = [pass EXCEPT ![w] = IdlePass]
    /\ UNCHANGED <<now, sched, edit, edits, jobs, planned>>

SchedulesNext ==
    \/ TimePasses
    \/ \E s \in Schedules :
        \/ create_schedule(s)
        \/ \E op \in {"replan", "cadence", "enable", "disable", "delete"} : BeginEdit(s, op)
        \/ \E t \in 0..LastInstant : update_connector_schedule(s, t)
        \/ delete_connector_schedule(s)
    \/ \E w \in Workers :
        \/ \E s \in Schedules : \/ SelectDue(w, s) \/ ClaimSchedule(w, s)
                                \/ EnqueueDue(w, s) \/ ReloadNext(w, s)
        \/ EndPass(w)

SchedulesSpec == SchedulesInit /\ [][SchedulesNext]_schedulevars

(***************************************************************************)
(* Fairness: workers poll again and again, and one that died is started    *)
(* again: a pass may be lost at any statement, but not every pass at the   *)
(* same one.                                                               *)
(***************************************************************************)
FairSchedulesSpec ==
    /\ SchedulesSpec
    /\ \A w \in Workers :
        /\ SF_schedulevars(\E s \in Schedules : SelectDue(w, s))
        /\ SF_schedulevars(\E s \in Schedules : ClaimSchedule(w, s))
        /\ SF_schedulevars(\E s \in Schedules : ReloadNext(w, s))
        /\ WF_schedulevars(EndPass(w))

-----------------------------------------------------------------------------
\* Types of the rows, the passes and the request in flight.
ScheduleTypes ==
    /\ now \in 0..LastInstant
    /\ sched \in [Schedules -> Schedule]
    /\ pass \in [Workers -> Pass]
    /\ edit.op \in {"none", "replan", "cadence", "enable", "disable", "delete"}
    /\ edit.target \subseteq Schedules
    /\ edit.copy \in Schedule
    /\ edits \in 0..MaxEdits
    /\ jobs \in [Schedules -> Nat]
    /\ planned \in [Schedules -> Nat]

\* The claim prevents duplicate enqueueing by concurrent workers: every job
\* uses up an occurrence of its own, and the next one is still to come.
OneJobPerOccurrence ==
    \A s \in Schedules : jobs[s] > 0 => jobs[s] < planned[s]

Overdue(s) == sched[s].present /\ sched[s].enabled /\ sched[s].next <= now

\* The pass ends with an exception at the first schedule without a further run.
RaisesFirst(s) ==
    \E i \in Schedules :
        /\ Overdue(i)
        /\ sched[i].next <= sched[s].next
        /\ next_schedule_run(i, sched[i].next, now) = {}

\* A due occurrence is finally claimed and the schedule moved on, through
\* passes that overlap or die, edits between selection and claim, and lost
\* comparisons; only a schedule whose search for a further run raises stays
\* overdue, and keeps those behind it in the order of next_run_at waiting.
DueIsClaimed ==
    \A s \in Schedules : []<>(~Overdue(s) \/ RaisesFirst(s))
=============================================================================
