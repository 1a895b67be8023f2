---------------------------- MODULE AtomicStore -----------------------------
(***************************************************************************)
(* What the V2 SQLite store promises its handles, with no connection,      *)
(* cache, lock or statement in it: a log that grows by one whole commit at *)
(* a time, each under a new key and computed for the head it extends, and  *)
(* for every commit two deliveries that are acknowledged once, one at a    *)
(* time, and stay acknowledged.                                            *)
(***************************************************************************)
EXTENDS Naturals, Sequences

CONSTANT Requests   \* [key, publication] that may be committed

VARIABLES
    log,     \* the committed requests, oldest first
    acked    \* acknowledged deliveries, as <<version, ordinal>>

vars == <<log, acked>>

Init == log = << >> /\ acked = {}

HeadState ==
    IF log = << >> THEN 0
    ELSE log[Len(log)].publication.prestate + log[Len(log)].publication.body

Commit(request) ==
    /\ \A i \in 1 .. Len(log) : log[i].key # request.key
    /\ request.publication.prestate = HeadState
    /\ log' = Append(log, request)
    /\ UNCHANGED acked

Acknowledge(version, ordinal) ==
    /\ <<version, ordinal>> \notin acked
    /\ acked' = acked \cup {<<version, ordinal>>}
    /\ UNCHANGED log

Next ==
    \/ \E request \in Requests : Commit(request)
    \/ \E version \in 1 .. Len(log), ordinal \in 0 .. 1 : Acknowledge(version, ordinal)

Spec == Init /\ [][Next]_vars
=============================================================================
