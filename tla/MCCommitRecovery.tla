------------------------- MODULE MCCommitRecovery --------------------------
EXTENDS CommitRecovery, TLC

CONSTANTS a1, a2, k1, k2

\* Inputs computed for the genesis counter or for the counter after body 1.
Pub(prestate, body) == [prestate |-> prestate, body |-> body, genuine |-> TRUE, size |-> 3]

Ask(handle, key, pub, mode) ==
    [handle |-> handle, key |-> key, publication |-> pub, mode |-> mode]

\* Guarded, unguarded and capped requests; the same request on two handles
\* (a caller that retries while its first run is under way); one key with
\* two publications; a forged subject; a counter overflow; a stale prestate.
MCInvocations ==
    { Ask(1, k1, Pub(0, 1), At(0)),
      Ask(2, k1, Pub(0, 1), Unversioned),
      Ask(2, k2, Pub(0, 2), Unversioned),
      Ask(2, k2, Pub(1, 1), At(1)),
      Ask(1, k1, Pub(0, 2), At(0)),
      Ask(1, k2, Pub(1, 2), BoundedAt(1, 3)),
      Ask(1, k2, Pub(1, 1), BoundedAt(1, 2)),
      Ask(1, k2, [Pub(0, 1) EXCEPT !.genuine = FALSE], Unversioned) }

\* Actors differ only in the invocation Init gives them.
ActorSymmetry == Permutations(Actors)
=============================================================================
