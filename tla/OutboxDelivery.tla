--------------------------- MODULE OutboxDelivery ---------------------------
(***************************************************************************)
(* Delivery programs on one outbox: the delivery scenario of               *)
(* zeno-fcis-shell, effects/explore.rs, over the store, the transport, the *)
(* deduplicating receiver and the clock of effects/simulation.rs, behind   *)
(* the policy stack of effects/handler.rs.                                 *)
(*                                                                         *)
(* Several deliverers may work on the same outbox, and other callers may   *)
(* commit new records meanwhile.  A step is one request answered; its      *)
(* alternatives are the fault alphabet of the simulation.  Replies that    *)
(* arrive late are CommitRecovery's subject: the driver is the same.       *)
(***************************************************************************)
EXTENDS DeliveryProgram, EffectPolicy, FiniteSets

CONSTANTS
    Actors,       \* the deliverers
    NumRecords,   \* records the outbox may come to hold
    CommitEnds,   \* the positions at which a commit's records end
    Initial,      \* records in the outbox at the start
    QueueRoom,    \* transport queue capacity
    Ticks,        \* largest tick the clock hands out
    Restarts,     \* how often each deliverer is restarted after a crash
    Policies      \* the policies of each deliverer's stack, in order

Records == 1 .. NumRecords

ASSUME OutboxAssumption ==
    /\ NumRecords \in Nat /\ Initial \in 0 .. NumRecords
    /\ CommitEnds \subseteq Records
    /\ QueueRoom \in Nat /\ Ticks \in 0 .. MaxTick
    /\ Restarts \in [Actors -> Nat]
    /\ DOMAIN Policies = Actors /\ \A a \in Actors : Policies[a] \in Seq(PolicyType)
    /\ Destination \in [Records -> STRING]

VARIABLES
    published,    \* the outbox holds records 1 .. published
    acked,        \* records acknowledged in the store
    queue,        \* copies of each record in transit
    dedup,        \* records the receiver has deduplicated
    effects,      \* how often each record took effect
    sent,         \* records the transport ever queued
    tick,         \* the last tick the clock handed out
    cont,         \* each deliverer's continuation
    status,       \* "waiting", "done" or "crashed"
    outcome,      \* the outcome of each run that is done
    incarnation,  \* restarts so far
    monitors,     \* each deliverer's policy reservations, kept over restarts
    carried,      \* history: the run handed something to the transport
    forwards,     \* history: forwarded sends of each record: 0, 1, or 2 for more
    lastTry       \* history: tick of the last send of the current record

world == <<published, acked, queue, dedup, effects, sent, tick>>
run == <<cont, status, outcome>>
history == <<carried, forwards, lastTry>>
vars == <<world, run, incarnation, monitors, history>>

\* No send of the current record has been tried in this run.
NotTried == 0 - 1

Init ==
    /\ published = Initial
    /\ acked = {} /\ dedup = {} /\ sent = {}
    /\ queue = [r \in Records |-> 0]
    /\ effects = [r \in Records |-> 0]
    /\ tick = 0
    /\ cont = [a \in Actors |-> StartDelivery]
    /\ status = [a \in Actors |-> "waiting"]
    /\ outcome = [a \in Actors |-> NoOutcome]
    /\ incarnation = [a \in Actors |-> 0]
    /\ monitors = [a \in Actors |-> NoReservations(Policies[a])]
    /\ carried = [a \in Actors |-> FALSE]
    /\ forwards = [a \in Actors |-> [r \in Records |-> 0]]
    /\ lastTry = [a \in Actors |-> NotTried]

\* What is not acknowledged, oldest first: the one increasing list of it.
Pending ==
    LET open == (1 .. published) \ acked
    IN  {list \in [1 .. Cardinality(open) -> open] :
            /\ \A i, j \in DOMAIN list : i < j => list[i] < list[j]
            /\ \A r \in open : \E i \in DOMAIN list : list[i] = r}

\* Copies in transit.
Copies == {copy \in Records \X (1 .. QueueRoom) : copy[2] <= queue[copy[1]]}

InTransit == Cardinality(Copies)

Room == QueueRoom - InTransit

Current(a) == cont[a].pending[cont[a].current]

Waits(a, phase) == status[a] = "waiting" /\ cont[a].phase = phase

-----------------------------------------------------------------------------
Answer(a, o) ==
    LET step == ResumeDelivery(cont[a], o)
    IN  IF step.tag = "Request"
        THEN /\ cont' = [cont EXCEPT ![a] = step.cont]
             /\ UNCHANGED <<status, outcome>>
        ELSE /\ status' = [status EXCEPT ![a] = "done"]
             /\ outcome' = [outcome EXCEPT ![a] = step.outcome]
             /\ UNCHANGED cont

Crash(a) ==
    /\ status' = [status EXCEPT ![a] = "crashed"]
    /\ UNCHANGED <<cont, outcome>>

FailBefore(a) == \E fault \in Faults : Answer(a, NotApplied(fault))

\* Simulation::read, of the pending records.
ReadStep(a) ==
    /\ Waits(a, "Read")
    /\ (\E list \in Pending : Answer(a, Ok(list))) \/ FailBefore(a) \/ Crash(a)
    /\ UNCHANGED <<world, incarnation, monitors, history>>

-----------------------------------------------------------------------------
(* Sending. *)

\* World.carry, `copies' times.
Carry(a, r, copies) ==
    /\ queue' = [queue EXCEPT ![r] = @ + copies]
    /\ sent' = IF copies > 0 THEN sent \cup {r} ELSE sent
    /\ carried' = [carried EXCEPT ![a] = @ \/ copies > 0]

Sent(r) == [tag |-> "Sent", report |-> r]
NotSent == [tag |-> "NotSent", code |-> "Delivery"]

\* Simulation::send, and a transport whose report is of something else (0).
Transport(a, r) ==
    IF Room = 0
    THEN Carry(a, r, 0) /\ (Answer(a, NotSent) \/ Crash(a))
    ELSE \/ Carry(a, r, 1) /\ Answer(a, Sent(r))
         \/ Carry(a, r, 0) /\ Answer(a, NotSent)
         \/ \E copies \in 0 .. 1 : Carry(a, r, copies) /\ Answer(a, Unknown("Io"))
         \/ \E copies \in 0 .. 1 : Carry(a, r, copies) /\ Crash(a)
         \/ Room >= 2 /\ Carry(a, r, 2) /\ Answer(a, Sent(r))
         \/ \E copies \in 0 .. 1 : Carry(a, r, copies) /\ Answer(a, Sent(0))

\* One send of r reaches the transport; two stands for more than one.
Forward(a, r) ==
    /\ forwards' = [forwards EXCEPT ![a][r] = IF @ = 0 THEN 1 ELSE 2]
    /\ Transport(a, r)

\* Stack::handle of a Send: install what the monitors reserve, then call the
\* terminal once, or answer a veto without calling it.
SendStep(a) ==
    LET r == Current(a)
        rejection == Rejection(Policies[a], monitors[a], r, Destination[r])
    IN  /\ Waits(a, "Send")
        /\ monitors' = [monitors EXCEPT ![a] = Reserve(Policies[a], @, r, Destination[r])]
        /\ IF rejection = "Allow" THEN Forward(a, r)
           ELSE Answer(a, Refused(rejection)) /\ UNCHANGED <<queue, sent, carried, forwards>>
        /\ lastTry' = [lastTry EXCEPT
                         ![a] = IF cont'[a].phase = "Clock" THEN tick ELSE NotTried]
        /\ UNCHANGED <<published, acked, dedup, effects, tick, incarnation>>

\* Simulation::acknowledge: a second acknowledgement is refused, the first
\* is a write that may fail, lose its reply or crash on either side.
AcknowledgeStep(a) ==
    LET r == Current(a)
    IN  /\ Waits(a, "Acknowledge")
        /\ IF r \in acked
           THEN /\ Answer(a, Refused("AlreadyAcknowledged")) \/ FailBefore(a) \/ Crash(a)
                /\ UNCHANGED acked
           ELSE \/ acked' = acked \cup {r} /\ Answer(a, Ok("acknowledged"))
                \/ acked' = acked /\ FailBefore(a)
                \/ acked' \in {acked, acked \cup {r}} /\ Answer(a, Unknown("Io"))
                \/ acked' \in {acked, acked \cup {r}} /\ Crash(a)
        /\ lastTry' = [lastTry EXCEPT ![a] = NotTried]
        /\ UNCHANGED <<published, queue, dedup, effects, sent, tick>>
        /\ UNCHANGED <<incarnation, monitors, carried, forwards>>

-----------------------------------------------------------------------------
(* Backing off. *)

ClockStep(a) ==
    /\ Waits(a, "Clock")
    /\ \/ \E t \in tick .. Ticks : tick' = t /\ Answer(a, Ok(t))
       \/ UNCHANGED tick /\ FailBefore(a)
    /\ UNCHANGED <<published, acked, queue, dedup, effects, sent>>
    /\ UNCHANGED <<incarnation, monitors, history>>

JitterStep(a) ==
    /\ Waits(a, "Jitter")
    /\ (\E draw \in 0 .. Jitter - 1 : Answer(a, Ok(draw))) \/ FailBefore(a)
    /\ UNCHANGED <<world, incarnation, monitors, history>>

\* A wake is never before the deadline or the last tick; past the last tick
\* the clock can hand out, only interruption and failure are left.
WaitStep(a) ==
    /\ Waits(a, "Wait")
    /\ \/ \E t \in tick .. Ticks : t >= cont[a].tick /\ tick' = t /\ Answer(a, Ok(t))
       \/ UNCHANGED tick /\ Answer(a, [tag |-> "Interrupted"])
       \/ UNCHANGED tick /\ FailBefore(a)
    /\ UNCHANGED <<published, acked, queue, dedup, effects, sent>>
    /\ UNCHANGED <<incarnation, monitors, history>>

-----------------------------------------------------------------------------
(* Restart, receiver and other callers. *)

\* A new run of the program; the policy monitors survive it.
Restart(a) ==
    /\ status[a] = "crashed"
    /\ incarnation[a] < Restarts[a]
    /\ incarnation' = [incarnation EXCEPT ![a] = @ + 1]
    /\ cont' = [cont EXCEPT ![a] = StartDelivery]
    /\ status' = [status EXCEPT ![a] = "waiting"]
    /\ carried' = [carried EXCEPT ![a] = FALSE]
    /\ lastTry' = [lastTry EXCEPT ![a] = NotTried]
    /\ UNCHANGED <<world, outcome, monitors, forwards>>

\* Mutant: the receiver applies every copy.
ReceiveAlways(r) ==
    /\ queue[r] > 0
    /\ queue' = [queue EXCEPT ![r] = @ - 1]
    /\ dedup' = dedup \cup {r}
    /\ effects' = [effects EXCEPT ![r] = @ + 1]
    /\ UNCHANGED <<published, acked, sent, tick, run, incarnation, monitors, history>>

\* Simulation::receive: any queued copy; its effect and its deduplication
\* row are one receiver transaction.
Receive(r) ==
    /\ queue[r] > 0
    /\ queue' = [queue EXCEPT ![r] = @ - 1]
    /\ dedup' = dedup \cup {r}
    /\ effects' = IF r \in dedup THEN effects ELSE [effects EXCEPT ![r] = @ + 1]
    /\ UNCHANGED <<published, acked, sent, tick, run, incarnation, monitors, history>>

\* Another caller's commit appends its records at once.
Publish ==
    /\ \E end \in CommitEnds :
         /\ end > published
         /\ \A other \in CommitEnds : other > published => end <= other
         /\ published' = end
    /\ UNCHANGED <<acked, queue, dedup, effects, sent, tick>>
    /\ UNCHANGED <<run, incarnation, monitors, history>>

Step(a) ==
    \/ ReadStep(a) \/ SendStep(a) \/ AcknowledgeStep(a)
    \/ ClockStep(a) \/ JitterStep(a) \/ WaitStep(a)

Ended(a) == status[a] = "done" \/ (status[a] = "crashed" /\ incarnation[a] = Restarts[a])

Finished ==
    /\ \A a \in Actors : Ended(a)
    /\ InTransit = 0
    /\ \A end \in CommitEnds : end <= published
    /\ UNCHANGED vars

Next ==
    \/ \E a \in Actors : Step(a) \/ Restart(a)
    \/ \E r \in Records : Receive(r)
    \/ Publish
    \/ Finished

Spec == Init /\ [][Next]_vars

\* Requests are answered and queued copies arrive; nothing is assumed of
\* restarts and of other callers.
FairSpec ==
    /\ Spec
    /\ \A a \in Actors : WF_vars(Step(a))
    /\ \A r \in Records : WF_vars(Receive(r))
-----------------------------------------------------------------------------
(* Properties. *)

DeliveryOutcomes ==
    [tag: {"Ok"}, value: Nat]
      \cup [tag: {"Refused"},
            code: {"Delivery", "Protocol", "Range", "Interrupted",
                   "PolicyDuplicate", "PolicyCapacity", "PolicyRecipient"}]
      \cup [tag: {"NotApplied", "Unknown"}, fault: Faults]

DeliveryContinuations ==
    [phase: {"Read", "Send", "Acknowledge", "Clock", "Jitter", "Wait"},
     ordinal: 0 .. MaxOrdinal, retries: 0 .. Retries, pending: Seq(Records),
     blocked: SUBSET STRING, failed: DeliveryOutcomes \cup {NoOutcome},
     current: Nat \ {0}, acknowledged: Nat, mayHaveSent: BOOLEAN, tick: 0 .. MaxTick]

\* Type invariant: budgets never go below zero, the queue never above its
\* room, and a send or acknowledgement always has a current record.
TypeOK ==
    /\ published \in 0 .. NumRecords
    /\ acked \subseteq 1 .. published
    /\ sent \subseteq Records /\ dedup \subseteq Records
    /\ queue \in [Records -> 0 .. QueueRoom] /\ InTransit <= QueueRoom
    /\ effects \in [Records -> Nat]
    /\ tick \in 0 .. Ticks
    /\ cont \in [Actors -> DeliveryContinuations]
    /\ status \in [Actors -> {"waiting", "done", "crashed"}]
    /\ \A a \in Actors :
         /\ outcome[a] \in IF status[a] = "done" THEN DeliveryOutcomes ELSE {NoOutcome}
         /\ Waits(a, "Send") \/ Waits(a, "Acknowledge") =>
              cont[a].current \in 1 .. Len(cont[a].pending)
    /\ \A a \in Actors :
         /\ incarnation[a] \in 0 .. Restarts[a]
         /\ monitors[a] \in [1 .. Len(Policies[a]) -> Seq(Records)]

\* An acknowledged record is not lost: a copy is in transit or it took effect,
\* and however often it was sent, resent or duplicated it takes effect once.
AckedTakesEffectOnce ==
    \A r \in Records :
        /\ effects[r] <= 1
        /\ r \in acked => queue[r] > 0 \/ effects[r] = 1

\* A run that reports Refused or NotApplied handed nothing to the transport,
\* not even a record before the one that failed.
HonestOutcome ==
    \A a \in Actors : outcome[a].tag \in {"Refused", "NotApplied"} => ~carried[a]

\* A run that reports success acknowledged every record it read.
OkMeansAllAcked ==
    \A a \in Actors : outcome[a].tag = "Ok" =>
        /\ outcome[a].value = Len(cont[a].pending)
        /\ \A i \in 1 .. Len(cont[a].pending) : cont[a].pending[i] \in acked

\* Head-of-line order: no record is handed to the transport before every
\* earlier record of its destination is acknowledged (of any destination,
\* without isolation), over retries, restarts and concurrent deliverers.
OutboxOrder ==
    \A earlier, later \in Records :
        earlier < later /\ (Isolate => Destination[earlier] = Destination[later]) =>
            (later \in sent => earlier \in acked)

\* A failed send is repeated only after the backoff has passed on the clock.
BackoffRespected ==
    \A a \in Actors :
        Waits(a, "Send") /\ lastTry[a] # NotTried => tick - lastTry[a] >= Backoff

Held(a, i) == {monitors[a][i][k] : k \in 1 .. Len(monitors[a][i])}

\* Under AtMostOne no stack forwards the send of a record twice, not by a
\* retry, a restart or a second pending list; the reservations are exactly the
\* sends that reached the transport, within the capacity, so a send another
\* monitor vetoes uses up none of it.
ForwardedOnce ==
    \A a \in Actors : \A i \in 1 .. Len(Policies[a]) : Policies[a][i].kind = "AtMostOne" =>
        /\ \A r \in Records : forwards[a][r] <= 1 /\ (forwards[a][r] = 1 <=> r \in Held(a, i))
        /\ Len(monitors[a][i]) <= Policies[a][i].capacity

\* Every delivery run ends: with an outcome or in a crash nobody restarts.
DeliveryEnds == \A a \in Actors : <>[](status[a] # "waiting")

\* An acknowledged record takes effect at its receiver in the end.
AckedEventuallyEffects == \A r \in Records : (r \in acked) ~> (effects[r] = 1)
=============================================================================
