------------------------- MODULE MCIntentDispatcher -------------------------
EXTENDS IntentDispatcher, TLC

CONSTANTS p1, p2, i1, i2

MCDestination == [id \in Ids |-> "alpha"]
MCBytes == [id \in Ids |-> IF id = i1 THEN 1 ELSE 2]

\* One guard with room for both intents.
MCPolicies == <<AtMostOne(2)>>

PrincipalSymmetry == Permutations(Principals)
=============================================================================
