------------------------- MODULE MCOutboxDelivery --------------------------
EXTENDS OutboxDelivery, TLC

CONSTANTS d1, d2

\* Two commits: the first sends to two destinations, the second to the first.
MCDestination == <<"alpha", "beta", "alpha">>
MCPair == <<"alpha", "beta">>

NoPolicies == [a \in Actors |-> << >>]
\* One deliverer is guarded: the allowlist refuses the second record after
\* the guard has proposed it.  The other one has no policies.
OneGuarded ==
    [a \in Actors |-> IF a = d1 THEN <<AtMostOne(2), Allowlist({"alpha"})>> ELSE << >>]

MCRestarts == [a \in Actors |-> IF a = d1 THEN 1 ELSE 0]
=============================================================================
