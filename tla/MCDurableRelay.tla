--------------------------- MODULE MCDurableRelay --------------------------
EXTENDS DurableRelay, TLC

CONSTANTS p1, p2, p3, w, x, y, z

\* The allowlist refuses the last delivery.
MCDestination == w :> "alpha" @@ x :> "alpha" @@ y :> "alpha" @@ z :> "beta"

\* Three deliveries are allowed, and the second guard has room for two.
MCPolicies == <<AtMostOne(3), Allowlist({"alpha"}), AtMostOne(2)>>

RelaySymmetry == Permutations(Relays)
=============================================================================
