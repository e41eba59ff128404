--------------------------- MODULE MCConnectorScans ---------------------------
EXTENDS ConnectorScans

\* What may be found in an item, and what policies may say.
MCEvidence == SUBSET {"Financial", "PII"}
MCBasePolicy == [allowed |-> {}, denied |-> {}]
MCPolicies == {[allowed |-> {"other"}, denied |-> {}],
               [allowed |-> {}, denied |-> {"other"}],
               [allowed |-> {"this"}, denied |-> {"this"}]}
=============================================================================
