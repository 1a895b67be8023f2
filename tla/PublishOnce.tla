---------------------------- MODULE PublishOnce -----------------------------
(***************************************************************************)
(* What a caller of the commit program is promised, with no store, handle, *)
(* retry or fault in it: a request is published at most once, under a key  *)
(* nothing else is published under and on top of the state it was computed *)
(* for; "committed" is said of a published request only; "absent" is said  *)
(* of a request that was not published and never will be; and "unknown"    *)
(* says nothing.                                                           *)
(***************************************************************************)
EXTENDS Naturals, Sequences

CONSTANTS
    Callers,    \* who publishes
    Requests    \* [key, publication] a caller may ask for

VARIABLES
    request,    \* the request each caller retains
    log,        \* what is published, oldest first
    published,  \* callers whose request the log took from them
    verdict     \* what each caller was told

vars == <<request, log, published, verdict>>

Verdicts == {"none", "committed", "absent", "unknown"}

Init ==
    /\ request \in [Callers -> Requests]
    /\ log = << >>
    /\ published = {}
    /\ verdict = [c \in Callers |-> "none"]

Head0(entries) ==
    IF entries = << >> THEN 0
    ELSE entries[Len(entries)].publication.prestate
           + entries[Len(entries)].publication.body

CanPublish(c) ==
    /\ verdict[c] = "none"
    /\ c \notin published
    /\ \A i \in 1 .. Len(log) : log[i].key # request[c].key
    /\ request[c].publication.prestate = Head0(log)

Publish(c) ==
    /\ CanPublish(c)
    /\ log' = Append(log, request[c])
    /\ published' = published \cup {c}
    /\ verdict' \in {verdict, [verdict EXCEPT ![c] = "committed"],
                     [verdict EXCEPT ![c] = "unknown"]}
    /\ UNCHANGED request

\* Another caller may have published the same request: that is a replay.
SayCommitted(c) ==
    /\ verdict[c] = "none"
    /\ \E i \in 1 .. Len(log) : log[i] = request[c]
    /\ verdict' = [verdict EXCEPT ![c] = "committed"]
    /\ UNCHANGED <<request, log, published>>

SayAbsent(c) ==
    /\ verdict[c] = "none"
    /\ c \notin published
    /\ verdict' = [verdict EXCEPT ![c] = "absent"]
    /\ UNCHANGED <<request, log, published>>

SayUnknown(c) ==
    /\ verdict[c] = "none"
    /\ verdict' = [verdict EXCEPT ![c] = "unknown"]
    /\ UNCHANGED <<request, log, published>>

Next == \E c \in Callers : Publish(c) \/ SayCommitted(c) \/ SayAbsent(c) \/ SayUnknown(c)

Spec == Init /\ [][Next]_vars
=============================================================================
