--------------------------- MODULE MCSqliteShell ---------------------------
EXTENDS SqliteShell, TLC

CONSTANTS h1, h2, k1, k2, k3

Pub(prestate, body) == [prestate |-> prestate, body |-> body, genuine |-> TRUE, size |-> 3]

Commit(key, pub, mode) ==
    [kind |-> "Commit", key |-> key, publication |-> pub, mode |-> mode]

First == [key |-> k1, publication |-> Pub(0, 1)]

\* Two commits in a row, the second guarded or capped, and one more than the
\* largest sequence; a rival and a changed retry for the first key; a forged
\* subject; acknowledgements; and every operation that only reads or audits.
MCCalls ==
    { Commit(k1, Pub(0, 1), Unversioned),
      Commit(k1, Pub(0, 2), Unversioned),
      Commit(k1, Pub(1, 1), Unversioned),
      Commit(k2, Pub(1, 1), At(1)),
      Commit(k2, Pub(1, 1), BoundedAt(1, 2)),
      Commit(k3, Pub(2, 1), Unversioned),
      Commit(k3, [Pub(2, 1) EXCEPT !.genuine = FALSE], Unversioned),
      [kind |-> "Acknowledge", id |-> DeliveryId(<<First>>, 0)],
      [kind |-> "Read"], [kind |-> "Checkpoint"], [kind |-> "Audit"], [kind |-> "Reopen"] }

HandleSymmetry == Permutations(Handles)
=============================================================================
