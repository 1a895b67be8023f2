-------------------------- MODULE MCDurableIngress --------------------------
EXTENDS DurableIngress

CONSTANTS c1, c2, c3, k1, k2

Cmd(key, body, expected) == [key |-> key, body |-> body, expected |-> expected, bound |-> TRUE]

\* A first command, a second one on top of it, and the first one's key and
\* bytes again with another expected version.
MCCommand == [c \in Clients |->
    CASE c = c1 -> Cmd(k1, 1, 0)
      [] c = c2 -> Cmd(k2, 1, 1)
      [] c = c3 -> Cmd(k1, 1, 1)]

\* Another connection takes the first key with other bytes, which leaves no room
\* in the counter, or the second key.
MCOther == {[key |-> k1, body |-> 2], [key |-> k2, body |-> 1]}
=============================================================================
