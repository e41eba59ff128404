--------------------------- MODULE MCAccessControl ---------------------------
EXTENDS AccessControl

\* A bundle that denies one user and restricts restricted assets.
MCBundle == {
    [id |-> "restricted", decision |-> "conditional", risk |-> 50,
     match |-> [sensitivity |-> {Restricted}]],
    [id |-> "blocked", decision |-> "deny", risk |-> 90, match |-> [id |-> {2}]],
    [id |-> "general", decision |-> "allow", risk |-> 10,
     match |-> [resource |-> {"asset"}]]}

\* Reading a restricted asset, and training with it.
Reading == [resource |-> "asset", usable |-> TRUE, sensitivity |-> Restricted,
            ceiling |-> Confidential, outside |-> {}]
MCVariants == <<
    [Reading EXCEPT !.ceiling = Restricted],
    [Reading EXCEPT !.outside = {"training"}]>>

MCExceptions == {
    [policy |-> {"blocked"}, agent |-> {}, override |-> "allow", expires |-> 1],
    [policy |-> {}, agent |-> {1}, override |-> "conditional", expires |-> 2]}

MCGrants == {
    [expires |-> 1, bundles |-> TRUE, exceptions |-> FALSE],
    [expires |-> 3, bundles |-> TRUE, exceptions |-> TRUE]}

\* One span with and one without a known agent, repeated, and for two models.
Span(e, m, agent) == [event |-> e, model |-> m, agent |-> agent]
MCBatches == {
    <<Span(1, "m1", TRUE), Span(2, "m1", TRUE)>>,
    <<Span(1, "m2", FALSE), Span(2, "m1", FALSE), Span(2, "m1", FALSE)>>,
    <<Span(1, "m1", TRUE), Span(1, "m2", TRUE)>>}
=============================================================================
