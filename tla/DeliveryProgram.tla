-------------------------- MODULE DeliveryProgram ---------------------------
(***************************************************************************)
(* The outbox delivery program of zeno-fcis-shell, effects/program.rs:     *)
(* read the pending records, send each one's exact bytes, acknowledge only *)
(* a matching report.  A failed send backs off (clock, jitter draw, wait)  *)
(* and is repeated; one retry budget is shared by the whole run.           *)
(*                                                                         *)
(* A record is named by its position in the store's outbox, which is the   *)
(* order of version, lane and ordinal; the id, the payload and its digest  *)
(* are functions of the record.  The epoch of a tick is left out: clock    *)
(* and wait answers carry the epoch of the request they are bound to.      *)
(***************************************************************************)
EXTENDS Ports, Sequences

CONSTANTS
    Destination,   \* the destination of each record, by outbox position
    Retries,       \* DeliveryPolicy.retries
    Backoff,       \* DeliveryPolicy.backoff
    Jitter,        \* DeliveryPolicy.jitter: draws are below it
    MaxTick,       \* largest tick (u64::MAX)
    MaxOrdinal,    \* largest request ordinal of an epoch (u64::MAX)
    Isolate        \* start_per_destination rather than start

ASSUME DeliveryAssumption ==
    /\ Retries \in Nat /\ Backoff \in Nat /\ MaxTick \in Nat /\ MaxOrdinal \in Nat
    /\ Jitter \in Nat \ {0}
    /\ Isolate \in BOOLEAN

StartDelivery ==
    [phase |-> "Read", ordinal |-> 0, retries |-> Retries, pending |-> << >>,
     blocked |-> {}, failed |-> NoOutcome, current |-> 1, acknowledged |-> 0,
     mayHaveSent |-> FALSE, tick |-> 0]

\* Mutant: a later refusal hides that something was sent.
DeliveryDoneForgetful(c, o) == Done(o)

\* A run that may have sent something never claims that it did nothing.
DeliveryDone(c, o) ==
    Done(IF ~c.mayHaveSent THEN o
         ELSE CASE o.tag \in {"Ok", "Unknown"} -> o
                [] o.tag = "NotApplied" -> Unknown(o.fault)
                [] o.tag = "Refused" -> Unknown("Io"))

\* The request ordinal also bounds the count of acknowledgements.
Ask(c, phase) ==
    IF c.ordinal = MaxOrdinal THEN DeliveryDone(c, Refused("Range"))
    ELSE Request([c EXCEPT !.phase = phase, !.ordinal = @ + 1])

Eligible(c) ==
    {i \in c.current .. Len(c.pending) : Destination[c.pending[i]] \notin c.blocked}

\* The next record whose destination is not blocked, or the end of the run.
SendNext(c) ==
    IF Eligible(c) = {}
    THEN DeliveryDone(c, IF c.failed = NoOutcome THEN Ok(c.acknowledged) ELSE c.failed)
    ELSE LET next == CHOOSE i \in Eligible(c) : \A j \in Eligible(c) : i <= j
         IN  Ask([c EXCEPT !.current = next], "Send")

\* Mutant: only the failed record is skipped, not its destination.
FailedRecord(c, o) ==
    IF ~Isolate THEN DeliveryDone(c, o)
    ELSE SendNext([c EXCEPT !.failed = IF @ = NoOutcome THEN o ELSE @,
                            !.current = @ + 1])

\* The run fails, or with isolation only this destination does: its later
\* records stay pending and the first failure is what the run reports.
FailedDestination(c, o) ==
    IF ~Isolate THEN DeliveryDone(c, o)
    ELSE SendNext([c EXCEPT !.blocked = @ \cup {Destination[c.pending[c.current]]},
                            !.failed = IF @ = NoOutcome THEN o ELSE @,
                            !.current = @ + 1])

Ordered(records) == \A i \in 1 .. Len(records) - 1 : records[i] < records[i + 1]

\* Mutant: the budget is not compared with zero before it is spent.
ReadUnchecked(c, o) ==
    CASE o.tag = "Ok" -> SendNext([c EXCEPT !.pending = o.value, !.current = 1])
      [] o.tag = "Refused" -> DeliveryDone(c, o)
      [] o.tag \in {"NotApplied", "Unknown"} -> Ask([c EXCEPT !.retries = @ - 1], "Read")

ReadDone(c, o) ==
    CASE o.tag = "Ok" ->
            IF ~Ordered(o.value) THEN DeliveryDone(c, Refused("Protocol"))
            ELSE SendNext([c EXCEPT !.pending = o.value, !.current = 1])
      [] o.tag = "Refused" -> DeliveryDone(c, o)
      [] o.tag \in {"NotApplied", "Unknown"} ->
            IF c.retries = 0 THEN DeliveryDone(c, NotApplied(o.fault))
            ELSE Ask([c EXCEPT !.retries = @ - 1], "Read")

BackOff(c) == Ask([c EXCEPT !.retries = @ - 1], "Clock")

\* Mutant: a report of any record acknowledges the current one.
SentAnyReport(c, o) ==
    LET d == [c EXCEPT !.mayHaveSent = @ \/ o.tag \in {"Sent", "Unknown"}]
    IN  CASE o.tag = "Sent" -> Ask(d, "Acknowledge")
          [] o.tag = "Refused" -> FailedDestination(d, o)
          [] o.tag = "NotSent" ->
                IF d.retries = 0 THEN FailedDestination(d, Refused(o.code)) ELSE BackOff(d)
          [] o.tag = "Unknown" ->
                IF d.retries = 0 THEN FailedDestination(d, o) ELSE BackOff(d)

\* A transport's answer: Sent with the record it reports, NotSent, Unknown,
\* or a policy's Refused.
SentOne(c, o) ==
    LET d == [c EXCEPT !.mayHaveSent = @ \/ o.tag \in {"Sent", "Unknown"}]
    IN  CASE o.tag = "Sent" ->
                IF o.report = d.pending[d.current] THEN Ask(d, "Acknowledge")
                ELSE DeliveryDone(d, Refused("Protocol"))
          [] o.tag = "Refused" -> FailedDestination(d, o)
          [] o.tag = "NotSent" ->
                IF d.retries = 0 THEN FailedDestination(d, Refused(o.code)) ELSE BackOff(d)
          [] o.tag = "Unknown" ->
                IF d.retries = 0 THEN FailedDestination(d, o) ELSE BackOff(d)

\* Mutant: an acknowledgement whose reply was lost counts as one that applied.
AcknowledgedUnknown(c, o) ==
    IF o.tag \in {"Ok", "Unknown"} \/ o = Refused("AlreadyAcknowledged")
    THEN SendNext([c EXCEPT !.acknowledged = @ + 1, !.current = @ + 1])
    ELSE IF o.tag = "Refused" \/ c.retries = 0 THEN FailedDestination(c, o)
    ELSE Ask([c EXCEPT !.retries = @ - 1], "Acknowledge")

\* Mutant: a lost reply starts the run over, budget included.
AcknowledgedAnew(c, o) ==
    IF o.tag = "Ok" \/ o = Refused("AlreadyAcknowledged")
    THEN SendNext([c EXCEPT !.acknowledged = @ + 1, !.current = @ + 1])
    ELSE IF o.tag = "Unknown" THEN Request(StartDelivery)
    ELSE FailedDestination(c, o)

\* A repeat of an acknowledgement that applied answers AlreadyAcknowledged.
AcknowledgeDone(c, o) ==
    IF o.tag = "Ok" \/ o = Refused("AlreadyAcknowledged")
    THEN SendNext([c EXCEPT !.acknowledged = @ + 1, !.current = @ + 1])
    ELSE IF o.tag = "Refused" \/ c.retries = 0 THEN FailedDestination(c, o)
    ELSE Ask([c EXCEPT !.retries = @ - 1], "Acknowledge")

ClockRead(c, o) ==
    IF o.tag = "Ok" THEN Ask([c EXCEPT !.tick = o.value], "Jitter")
    ELSE DeliveryDone(c, NotApplied(o.fault))

\* Mutant: the deadline is the draw alone.
JitterDrawnAlone(c, o) ==
    IF o.tag # "Ok" THEN DeliveryDone(c, NotApplied(o.fault))
    ELSE Ask([c EXCEPT !.tick = o.value], "Wait")

JitterDrawn(c, o) ==
    IF o.tag # "Ok" THEN DeliveryDone(c, NotApplied(o.fault))
    ELSE IF o.value >= Jitter THEN DeliveryDone(c, Refused("Protocol"))
    ELSE IF c.tick + Backoff + o.value > MaxTick THEN DeliveryDone(c, Refused("Range"))
    ELSE Ask([c EXCEPT !.tick = @ + Backoff + o.value], "Wait")

Woke(c, o) ==
    CASE o.tag = "Ok" ->
            IF o.value >= c.tick THEN SendNext(c) ELSE DeliveryDone(c, Refused("Protocol"))
      [] o.tag = "Interrupted" -> DeliveryDone(c, Refused("Interrupted"))
      [] o.tag = "NotApplied" -> DeliveryDone(c, o)

\* Program::resume.
ResumeDelivery(c, o) ==
    CASE c.phase = "Read" -> ReadDone(c, o)
      [] c.phase = "Send" -> SentOne(c, o)
      [] c.phase = "Acknowledge" -> AcknowledgeDone(c, o)
      [] c.phase = "Clock" -> ClockRead(c, o)
      [] c.phase = "Jitter" -> JitterDrawn(c, o)
      [] c.phase = "Wait" -> Woke(c, o)
=============================================================================
