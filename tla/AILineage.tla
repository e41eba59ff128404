------------------------------- MODULE AILineage -------------------------------
(***************************************************************************)
(* The inventory of AI models and who uses them: resources, declared and   *)
(* observed relationships with their graph edge                            *)
(* (app/services/ai_resources.py), and the spans of OpenTelemetry that     *)
(* discover models and observe their use (app/services/genai_telemetry.py).*)
(*                                                                         *)
(* One registered agent; a relationship is the model that it invokes.      *)
(* A request collects what it writes in a session: relationships as loaded *)
(* and as changed, observations, imported events and discovered models.    *)
(* All of it takes effect at the one commit, or none of it if a unique key *)
(* is taken by then.  Rows that a flush locks earlier change nothing: the  *)
(* requests they hold up load before and write after, as they do here.     *)
(***************************************************************************)
EXTENDS Naturals, Sequences, FiniteSets

CONSTANTS
    Models,     \* keys of ai_resources
    Events,     \* event ids of observations and of spans
    Senders,    \* slots of requests under way
    Batches     \* what a collector sends: sequences of [event, model, agent]

VARIABLES
    registered,     \* ai_resources: the status of each model
    relation,       \* ai_resource_relationships
    edge,           \* graph_edges: the rows of each relationship
    observed,       \* ai_lineage_observations
    imported,       \* genai_telemetry_events
    reported,       \* outbox events: the event ids of each batch
    session,
    past            \* history: [entwined, declared, approved], sets of models

lineagevars == <<registered, relation, edge, observed, imported, reported, session, past>>

Nothing == "nothing"

ASSUME LineageAssumption ==
    /\ Nothing \notin Models
    /\ IsFiniteSet(Events)
    /\ Batches \subseteq Seq([event : Events, model : Models, agent : BOOLEAN])

\* A row for one key, and the rows of f over those of g.
Row(k, row) == [x \in {k} |-> row]
Over(f, g) == [x \in DOMAIN f \cup DOMAIN g |-> IF x \in DOMAIN f THEN f[x] ELSE g[x]]

NoRelation == [known |-> FALSE, expected |-> FALSE, count |-> 0]
NoObservation == [of |-> Nothing, drift |-> FALSE]
NoSpan == [model |-> Nothing, agent |-> FALSE]

\* A session without work of its own yet.
NewSession == [busy |-> FALSE, todo |-> <<>>, loaded |-> <<>>, copy |-> <<>>,
               obs |-> <<>>, imp |-> <<>>, flushed |-> {}, found |-> {}]

LineageTypeOK ==
    /\ registered \in [Models -> {"absent", "review", "approved", "disabled"}]
    /\ \A m \in Models : relation[m].count \in 0..Cardinality(Events)
    /\ observed \in [Events -> [of : Models \cup {Nothing}, drift : BOOLEAN]]
    /\ imported \in [Events -> [model : Models \cup {Nothing}, agent : BOOLEAN]]

LineageInit ==
    /\ registered = [m \in Models |-> "absent"]
    /\ relation = [m \in Models |-> NoRelation]
    /\ edge = [m \in Models |-> <<>>]
    /\ observed = [e \in Events |-> NoObservation]
    /\ imported = [e \in Events |-> NoSpan]
    /\ reported = {}
    /\ session = [r \in Senders |-> NewSession]
    /\ past = [entwined |-> {}, declared |-> {}, approved |-> {}]

-----------------------------------------------------------------------------
(***************************************************************************)
(* The registry: one row, one commit.                                      *)
(***************************************************************************)
Vouch(m, status) ==
    /\ registered' = [registered EXCEPT ![m] = status]
    /\ past' = [past EXCEPT !.approved = IF status = "approved" THEN @ \cup {m} ELSE @]
    /\ UNCHANGED <<relation, edge, observed, imported, reported, session>>

create_ai_resource(m) == registered[m] = "absent" /\ Vouch(m, "approved")

update_ai_resource(m, status) ==
    /\ registered[m] \notin {"absent", status}
    /\ Vouch(m, status)

-----------------------------------------------------------------------------
(***************************************************************************)
(* A session.                                                              *)
(***************************************************************************)
Registered(s, m) == m \in s.found \/ registered[m] # "absent"

\* A session keeps the relationship that it has loaded.
_relationship(s, m) == IF m \in DOMAIN s.copy THEN s.copy[m] ELSE relation[m]

Recorded(s, e) == IF e \in DOMAIN s.obs THEN s.obs[e] ELSE observed[e]

Write(s, m, row) ==
    [s EXCEPT !.loaded = Over(@, Row(m, [relation |-> relation[m], edge |-> edge[m]])),
              !.copy = Over(Row(m, row), @)]

declare(s, m, expected) ==
    Write(s, m, [_relationship(s, m) EXCEPT !.known = TRUE, !.expected = expected])

Rebound(s, e, m) == Recorded(s, e).of \notin {Nothing, m}

\* Drift is what was not expected before.
observe_relationship(s, e, m) ==
    LET row == _relationship(s, m)
    IN  IF Recorded(s, e).of = m THEN s
        ELSE [Write(s, m, [row EXCEPT !.known = TRUE, !.count = @ + 1])
                EXCEPT !.obs = Over(Row(e, [of |-> m, drift |-> ~row.expected]), @)]

\* A relationship in two sessions at a time may lose the changes of one.
Entwined(r, new) ==
    {m \in DOMAIN new.copy : \E q \in Senders \ {r} : m \in DOMAIN session[q].copy}

Continue(r, new) ==
    /\ session' = [session EXCEPT ![r] = new]
    /\ past' = [past EXCEPT !.entwined = @ \cup Entwined(r, new)]
    /\ UNCHANGED <<registered, relation, edge, observed, imported, reported>>

Close(r) == session' = [session EXCEPT ![r] = NewSession]

Free(r) == /\ ~session[r].busy
           /\ \A q \in Senders : q < r => session[q].busy

Begun == [NewSession EXCEPT !.busy = TRUE]

declare_relationship(r, m, expected) ==
    /\ Free(r) /\ Registered(NewSession, m)
    /\ Continue(r, declare(Begun, m, expected))

create_ai_lineage_observation(r, e, m) ==
    /\ Free(r) /\ Registered(NewSession, m)
    /\ Recorded(NewSession, e) = NoObservation
    /\ Continue(r, observe_relationship(Begun, e, m))

\* A batch without a span leaves nothing to do.
ingest_otlp_genai(r, batch) ==
    /\ Free(r)
    /\ Continue(r, [Begun EXCEPT !.todo = batch])

-----------------------------------------------------------------------------
(***************************************************************************)
(* The next span of a batch.  The lookup of its event finds what is        *)
(* committed and what this session has flushed.  A repeated span that it   *)
(* misses violates the unique key, and an event id that was observed for   *)
(* another model raises: the whole batch is rolled back.                   *)
(***************************************************************************)
Seen(s, span) == imported[span.event] # NoSpan \/ span.event \in s.flushed

_discover_model(s, m) == IF Registered(s, m) THEN s ELSE [s EXCEPT !.found = @ \cup {m}]

Refusable(s, span) ==
    /\ ~Seen(s, span)
    /\ \/ span.event \in DOMAIN s.imp
       \/ span.agent /\ Rebound(s, span.event, span.model)

ImportSpan(s, span) ==
    LET kept == [s EXCEPT !.imp = Over(Row(span.event, [model |-> span.model,
                                                        agent |-> span.agent]), @)]
        discovered == _discover_model(kept, span.model)
        done == IF span.agent THEN observe_relationship(discovered, span.event, span.model)
                              ELSE discovered
    IN  IF done = kept THEN done ELSE [done EXCEPT !.flushed = DOMAIN done.imp]

IngestSpan(r) ==
    LET s == session[r]
        span == Head(s.todo)
        rest == [s EXCEPT !.todo = Tail(@)]
    IN  /\ s.todo # <<>>
        /\ ~Refusable(s, span)
        /\ Continue(r, IF Seen(s, span) THEN rest ELSE ImportSpan(rest, span))

-----------------------------------------------------------------------------
(***************************************************************************)
(* The commit.  A column is written only if it differs from what was       *)
(* loaded.                                                                 *)
(***************************************************************************)
Conflict(s) ==
    \/ \E m \in s.found : registered[m] # "absent"
    \/ \E m \in DOMAIN s.copy : relation[m].known /\ ~s.loaded[m].relation.known
    \/ \E e \in DOMAIN s.obs : observed[e] # NoObservation
    \/ \E e \in DOMAIN s.imp : imported[e] # NoSpan

KeptOrWritten(current, loaded, assigned) == IF assigned = loaded THEN current ELSE assigned

WrittenRow(current, loaded, assigned) ==
    [c \in DOMAIN assigned |-> KeptOrWritten(current[c], loaded[c], assigned[c])]

\* What the edge of a relationship says of it.
Shown(row) == [expected |-> row.expected, count |-> row.count]

\* Mutant: the edge is written before the observation is counted.
SyncBeforeCount(m, loaded, row) ==
    IF loaded.edge = <<>> THEN Append(edge[m], Shown(row))
    ELSE [edge[m] EXCEPT ![1] = Shown([row EXCEPT !.count = loaded.relation.count])]

_sync_graph_edge(m, loaded, row) ==
    IF loaded.edge = <<>> THEN Append(edge[m], Shown(row))
    ELSE [edge[m] EXCEPT ![1] = KeptOrWritten(@, loaded.edge[1], Shown(row))]

Commit(r) ==
    LET s == session[r] IN
    /\ s.busy /\ s.todo = <<>> /\ ~Conflict(s)
    /\ registered' = [m \in Models |-> IF m \in s.found THEN "review" ELSE registered[m]]
    /\ relation' = [m \in Models |->
            IF m \in DOMAIN s.copy
            THEN WrittenRow(relation[m], s.loaded[m].relation, s.copy[m])
            ELSE relation[m]]
    /\ edge' = [m \in Models |->
            IF m \in DOMAIN s.copy THEN _sync_graph_edge(m, s.loaded[m], s.copy[m])
                                   ELSE edge[m]]
    /\ observed' = Over(s.obs, observed)
    /\ imported' = Over(s.imp, imported)
    /\ reported' = reported \cup ({DOMAIN s.imp} \ {{}})
    /\ past' = [past EXCEPT !.declared = @ \cup
            {m \in DOMAIN s.copy : s.copy[m].expected}]
    /\ Close(r)

\* A conflict, an error or a crash: nothing of the session remains.
Rollback(r) ==
    /\ session[r].busy
    /\ Close(r)
    /\ UNCHANGED <<registered, relation, edge, observed, imported, reported, past>>

LineageArrives ==
    \/ \E m \in Models : \/ create_ai_resource(m)
                         \/ \E to \in {"approved", "disabled"} : update_ai_resource(m, to)
    \/ \E r \in Senders :
        \/ \E m \in Models, expected \in BOOLEAN : declare_relationship(r, m, expected)
        \/ \E e \in Events, m \in Models : create_ai_lineage_observation(r, e, m)
        \/ \E batch \in Batches : ingest_otlp_genai(r, batch)

LineageStep == \E r \in Senders : IngestSpan(r) \/ Commit(r) \/ Rollback(r)

-----------------------------------------------------------------------------
ObservationsOf(m) == {e \in Events : observed[e].of = m}

\* A relationship has one edge, never counts more than its observations, and
\* unless requests about it overlapped it counts all and its edge says the same.
RelationsAccounted ==
    \A m \in Models :
        LET row == relation[m] IN
        /\ Len(edge[m]) = IF row.known THEN 1 ELSE 0
        /\ row.count <= Cardinality(ObservationsOf(m))
        /\ row.count = 0 => ObservationsOf(m) = {}
        /\ row.known /\ m \notin past.entwined =>
            row.count = Cardinality(ObservationsOf(m)) /\ edge[m] = <<Shown(row)>>

\* An observation without drift was of a relationship declared as expected.
DriftIsUndeclared ==
    \A e \in Events : observed[e].of \in Models \ past.declared => observed[e].drift

\* What telemetry imports is reported once; its model is in the inventory and,
\* if the agent is known, was observed for just this event.
TelemetryAccounted ==
    /\ {e \in Events : imported[e] # NoSpan} = UNION reported
    /\ \A a, b \in reported : a = b \/ a \cap b = {}
    /\ \A e \in UNION reported :
        /\ registered[imported[e].model] # "absent"
        /\ imported[e].agent => observed[e].of = imported[e].model

\* However requests and batches overlap, fail and repeat, the inventory, the
\* graph and the telemetry tell one story, and no model that telemetry finds is
\* approved before a data owner approves it.
LineageHolds ==
    /\ RelationsAccounted
    /\ DriftIsUndeclared
    /\ TelemetryAccounted
    /\ {m \in Models : registered[m] = "approved"} \subseteq past.approved
=============================================================================
