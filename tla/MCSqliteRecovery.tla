------------------------- MODULE MCSqliteRecovery --------------------------
EXTENDS SqliteRecovery, TLC

CONSTANTS h1, h2, k1, k2

Pub(prestate, body) == [prestate |-> prestate, body |-> body, genuine |-> TRUE, size |-> 3]

Ask(key, pub, mode) == [key |-> key, publication |-> pub, mode |-> mode]

\* Two guarded commits in a row, and an unguarded rival of the first.
MCInvocations ==
    {Ask(k1, Pub(0, 1), At(0)), Ask(k2, Pub(1, 1), At(1)), Ask(k2, Pub(0, 2), Unversioned)}

OneInvocation == {Ask(k1, Pub(0, 1), At(0))}

NoCalls == {}
=============================================================================
