------------------------ MODULE OutboxDeliveryProofs ------------------------
(***************************************************************************)
(* For any number of deliverers, records, destinations, restarts and       *)
(* policies of OutboxDelivery: acknowledged records are not lost and take  *)
(* effect once, records of a destination are sent in order, outcomes are   *)
(* honest, failed sends back off, and a guarded stack forwards a record at *)
(* most once.                                                              *)
(***************************************************************************)
EXTENDS OutboxDelivery, FiniteSetTheorems, WellFoundedInduction, SequenceTheorems, TLAPS

-----------------------------------------------------------------------------
(* What a continuation of the program knows, A being the acknowledged      *)
(* records and P the number of records in the outbox.                      *)

\* Records in front of a listed one are listed before it or acknowledged.
Listed(list, A, P) ==
    /\ list \in Seq(1 .. P)
    /\ \A i \in 1 .. Len(list) : \A r \in 1 .. list[i] - 1 :
         r \in A \/ \E j \in 1 .. i - 1 : list[j] = r

\* The records the run is past are acknowledged or of a blocked destination,
\* and as long as nothing failed they are all acknowledged and counted.
Steady(c, A, P) ==
    /\ c \in DeliveryContinuations
    /\ Listed(c.pending, A, P)
    /\ c.current \in 1 .. Len(c.pending) + 1
    /\ \A j \in 1 .. c.current - 1 :
         c.pending[j] \in A \/ Destination[c.pending[j]] \in c.blocked
    /\ ~Isolate => c.blocked = {}
    /\ c.failed = NoOutcome => c.blocked = {} /\ c.acknowledged = c.current - 1
    /\ c.failed.tag # "Ok"

\* The current record is one whose destination is not blocked.
Aimed(c) ==
    /\ c.current \in 1 .. Len(c.pending)
    /\ Destination[c.pending[c.current]] \notin c.blocked

Good(c, A, P) ==
    /\ Steady(c, A, P)
    /\ IF c.phase = "Read" THEN c.pending = << >> /\ c.failed = NoOutcome ELSE Aimed(c)

\* A program step s of a run that listed `list' and, if m, may have sent
\* something: it goes on soundly, or ends with an outcome that is true.
Follows(s, list, m, A, P) ==
    \/ /\ s.tag = "Request" /\ Good(s.cont, A, P) /\ (m => s.cont.mayHaveSent)
    \/ /\ s.tag = "Done" /\ s.outcome \in DeliveryOutcomes
       /\ m => s.outcome.tag \notin {"Refused", "NotApplied"}
       /\ s.outcome.tag = "Ok" =>
            /\ s.outcome.value = Len(list)
            /\ \A i \in 1 .. Len(list) : list[i] \in A

-----------------------------------------------------------------------------
(* The inductive invariant. *)

\* The world: what is acknowledged was sent, what was sent is in transit or
\* deduplicated, and what is deduplicated took effect once.
Carried ==
    /\ published \in 0 .. NumRecords /\ tick \in 0 .. Ticks
    /\ acked \subseteq 1 .. published /\ acked \subseteq sent
    /\ sent \subseteq Records /\ dedup \subseteq Records
    /\ queue \in [Records -> 0 .. QueueRoom] /\ InTransit <= QueueRoom
    /\ effects = [r \in Records |-> IF r \in dedup THEN 1 ELSE 0]
    /\ \A r \in sent : queue[r] > 0 \/ r \in dedup

\* A run and the outcome it ended with.
RunKnows(c, st, o, handed) ==
    /\ Good(c, acked, published)
    /\ c.phase = "Acknowledge" => c.pending[c.current] \in sent
    /\ st \in {"waiting", "done", "crashed"}
    /\ o \in IF st = "done" THEN DeliveryOutcomes ELSE {NoOutcome}
    /\ handed \in BOOLEAN
    /\ handed /\ st = "waiting" => c.mayHaveSent
    /\ handed => o.tag \notin {"Refused", "NotApplied"}
    /\ o.tag = "Ok" => /\ o.value = Len(c.pending)
                       /\ \A i \in 1 .. Len(c.pending) : c.pending[i] \in acked

\* A send that failed waits for the backoff.
BacksOff(c, last, now) ==
    \/ last = NotTried
    \/ /\ last \in 0 .. now
       /\ c.phase \in {"Send", "Clock", "Jitter", "Wait"}
       /\ c.phase = "Jitter" => c.tick >= last
       /\ c.phase = "Wait" => c.tick - last >= Backoff
       /\ c.phase = "Send" => now - last >= Backoff

\* The reservations of the monitors m are the sends f that were forwarded.
Reserved(policies, m, f) ==
    /\ m \in [1 .. Len(policies) -> Seq(Records)]
    /\ f \in [Records -> 0 .. 2]
    /\ \A i \in 1 .. Len(policies) : policies[i].kind = "AtMostOne" =>
         /\ \A r \in Records : f[r] <= 1 /\ (f[r] = 1 <=> Reserves(m[i], r))
         /\ Len(m[i]) <= policies[i].capacity

Shapes ==
    /\ cont \in [Actors -> DeliveryContinuations]
    /\ status \in [Actors -> {"waiting", "done", "crashed"}]
    /\ DOMAIN outcome = Actors /\ DOMAIN carried = Actors /\ DOMAIN lastTry = Actors
    /\ DOMAIN monitors = Actors /\ DOMAIN forwards = Actors /\ DOMAIN incarnation = Actors

\* What holds of one deliverer.
Actor(a) ==
    /\ RunKnows(cont[a], status[a], outcome[a], carried[a])
    /\ BacksOff(cont[a], lastTry[a], tick)
    /\ Reserved(Policies[a], monitors[a], forwards[a])
    /\ incarnation[a] \in 0 .. Restarts[a]

IInv == Carried /\ OutboxOrder /\ Shapes /\ \A a \in Actors : Actor(a)

-----------------------------------------------------------------------------
(* The program. *)

Phases == {"Read", "Send", "Acknowledge", "Clock", "Jitter", "Wait"}

\* The fields of a continuation.
LEMMA ContParts ==
    ASSUME NEW c \in DeliveryContinuations
    PROVE  /\ c.phase \in Phases /\ c.ordinal \in 0 .. MaxOrdinal /\ c.retries \in 0 .. Retries
           /\ c.pending \in Seq(Records) /\ c.blocked \in SUBSET STRING
           /\ c.failed \in DeliveryOutcomes \cup {NoOutcome}
           /\ c.current \in Nat \ {0} /\ c.acknowledged \in Nat
           /\ c.mayHaveSent \in BOOLEAN /\ c.tick \in 0 .. MaxTick
           /\ c = [phase |-> c.phase, ordinal |-> c.ordinal, retries |-> c.retries,
                   pending |-> c.pending, blocked |-> c.blocked, failed |-> c.failed,
                   current |-> c.current, acknowledged |-> c.acknowledged,
                   mayHaveSent |-> c.mayHaveSent, tick |-> c.tick]
BY DEF DeliveryContinuations, Phases

\* d is c but for its phase, its budgets, its tick and what it may have sent.
SameRun(c, d) ==
    /\ d.pending = c.pending /\ d.current = c.current /\ d.blocked = c.blocked
    /\ d.failed = c.failed /\ d.acknowledged = c.acknowledged

\* A continuation of the same run is as sound.
LEMMA SameSteady ==
    ASSUME NEW c, NEW d \in DeliveryContinuations, SameRun(c, d), NEW A, NEW P
    PROVE  /\ Steady(c, A, P) => Steady(d, A, P)
           /\ Aimed(c) => Aimed(d)
BY DEF SameRun, Steady, Aimed

\* The outcomes of runs.
LEMMA OutcomeTypes ==
    /\ \A v \in Nat : Ok(v) \in DeliveryOutcomes
    /\ \A code \in {"Delivery", "Protocol", "Range", "Interrupted",
                    "PolicyDuplicate", "PolicyCapacity", "PolicyRecipient"} :
         Refused(code) \in DeliveryOutcomes
    /\ \A f \in Faults : NotApplied(f) \in DeliveryOutcomes /\ Unknown(f) \in DeliveryOutcomes
    /\ "Io" \in Faults
BY DEF DeliveryOutcomes, Ok, Refused, NotApplied, Unknown, Faults

\* A run that ends with o, after it may have sent something or not.
LEMMA DoneFollows ==
    ASSUME NEW c \in DeliveryContinuations, NEW o \in DeliveryOutcomes, NEW list, NEW A, NEW P,
           o.tag = "Ok" => o.value = Len(list) /\ \A i \in 1 .. Len(list) : list[i] \in A
    PROVE  Follows(DeliveryDone(c, o), list, c.mayHaveSent, A, P)
<1> DEFINE e == IF ~c.mayHaveSent THEN o
                ELSE CASE o.tag \in {"Ok", "Unknown"} -> o
                       [] o.tag = "NotApplied" -> Unknown(o.fault)
                       [] o.tag = "Refused" -> Unknown("Io")
<1>1. DeliveryDone(c, o).tag = "Done" /\ DeliveryDone(c, o).outcome = e
  BY DEF DeliveryDone, Done
<1>2. o.tag \in {"Ok", "Refused", "NotApplied", "Unknown"} /\ (o.tag = "NotApplied" => o.fault \in Faults)
  BY DEF DeliveryOutcomes
<1>3. CASE ~c.mayHaveSent \/ o.tag \in {"Ok", "Unknown"}
  <2>1. e = o
    BY <1>3
  <2> QED
    BY <1>1, <1>3, <2>1 DEF Follows
<1>4. CASE c.mayHaveSent /\ o.tag \in {"NotApplied", "Refused"}
  <2> DEFINE f == IF o.tag = "NotApplied" THEN o.fault ELSE "Io"
  <2>0. f \in Faults
    BY <1>2, OutcomeTypes
  <2>1. e = Unknown(f)
    BY <1>4
  <2> HIDE DEF f, e
  <2>2. e \in DeliveryOutcomes
    BY <2>0, <2>1, OutcomeTypes
  <2>3. e.tag = "Unknown"
    BY <2>1 DEF Unknown
  <2> QED
    BY <1>1, <2>2, <2>3 DEF Follows
<1> QED
  BY <1>2, <1>3, <1>4

\* The next request, of any phase but the first.
LEMMA AskFollows ==
    ASSUME NEW A, NEW P, NEW c, Steady(c, A, P), Aimed(c), NEW phase \in Phases \ {"Read"},
           NEW list
    PROVE  /\ Follows(Ask(c, phase), list, c.mayHaveSent, A, P)
           /\ Ask(c, phase).tag = "Request" =>
                /\ Ask(c, phase).cont.phase = phase /\ SameRun(c, Ask(c, phase).cont)
                /\ Ask(c, phase).cont.tick = c.tick
<1>0. c \in DeliveryContinuations
  BY DEF Steady
<1>1. CASE c.ordinal = MaxOrdinal
  <2>1. Ask(c, phase) = DeliveryDone(c, Refused("Range"))
    BY <1>1 DEF Ask
  <2>2. Refused("Range") \in DeliveryOutcomes /\ Refused("Range").tag # "Ok"
    BY OutcomeTypes DEF Refused
  <2>3. Ask(c, phase).tag = "Done"
    BY <2>1 DEF DeliveryDone, Done
  <2> QED
    BY <1>0, <2>1, <2>2, <2>3, DoneFollows
<1>2. CASE c.ordinal # MaxOrdinal
  <2> DEFINE d == [c EXCEPT !.phase = phase, !.ordinal = @ + 1]
  <2>1. d \in DeliveryContinuations /\ d.phase = phase /\ SameRun(c, d) /\ d.tick = c.tick
        /\ d.mayHaveSent = c.mayHaveSent
    <3>1. c.ordinal + 1 \in 0 .. MaxOrdinal
      BY <1>0, <1>2, ContParts, DeliveryAssumption
    <3> QED
      BY <1>0, <3>1 DEF DeliveryContinuations, SameRun, Phases
  <2>2. Ask(c, phase) = Request(d)
    BY <1>2 DEF Ask
  <2> HIDE DEF d
  <2>3. Ask(c, phase).tag = "Request" /\ Ask(c, phase).cont = d
    BY <2>2 DEF Request
  <2>4. Steady(d, A, P) /\ Aimed(d)
    BY <2>1, SameSteady
  <2> QED
    BY <2>1, <2>3, <2>4 DEF Follows, Good
<1> QED
  BY <1>1, <1>2

\* A set of natural numbers has a smallest element.
LEMMA Least ==
    ASSUME NEW S, S \subseteq Nat, S # {}
    PROVE  \E i \in S : \A j \in S : i <= j
<1>1. \E i \in S : \A j \in S : ~(<<j, i>> \in OpToRel(<, Nat))
  BY WFMin, NatLessThanWellFounded, Zenon
<1>2. PICK i \in S : \A j \in S : ~(<<j, i>> \in OpToRel(<, Nat))
  BY <1>1
<1>3. ASSUME NEW j \in S PROVE i <= j
  <2>0. i \in Nat /\ j \in Nat
    OBVIOUS
  <2>1. ~(<<j, i>> \in OpToRel(<, Nat))
    BY <1>2
  <2>2. ~(j < i)
    <3>1. j < i => <<j, i>> \in {ss \in Nat \X Nat : ss[1] < ss[2]}
      BY <2>0
    <3> QED
      BY <2>1, <3>1, Zenon DEF OpToRel
  <2> QED
    BY <2>0, <2>2
<1> QED
  BY <1>3

\* The search for the next record starts from a sound state and ends in one,
\* or the run ends.
LEMMA SendNextFollows ==
    ASSUME NEW A, NEW P, NEW c, Steady(c, A, P)
    PROVE  /\ Follows(SendNext(c), c.pending, c.mayHaveSent, A, P)
           /\ SendNext(c).tag = "Request" => SendNext(c).cont.phase = "Send"
<1>0. /\ c \in DeliveryContinuations /\ c.pending \in Seq(Records) /\ c.current \in Nat \ {0}
      /\ c.failed \in DeliveryOutcomes \cup {NoOutcome} /\ Len(c.pending) \in Nat
      /\ c.acknowledged \in Nat
  BY ContParts DEF Steady
<1>1. CASE Eligible(c) = {}
  <2> DEFINE o == IF c.failed = NoOutcome THEN Ok(c.acknowledged) ELSE c.failed
  <2>1. SendNext(c) = DeliveryDone(c, o)
    BY <1>1 DEF SendNext
  <2>2. o \in DeliveryOutcomes
    BY <1>0, OutcomeTypes
  <2>3. ASSUME o.tag = "Ok"
        PROVE  o.value = Len(c.pending) /\ \A i \in 1 .. Len(c.pending) : c.pending[i] \in A
    <3>1. c.failed = NoOutcome /\ o = Ok(c.acknowledged)
      BY <2>3 DEF Steady
    <3>2. c.blocked = {} /\ c.acknowledged = c.current - 1 /\ c.current \in 1 .. Len(c.pending) + 1
      BY <3>1 DEF Steady
    <3>3. c.current .. Len(c.pending) = {}
      BY <1>1, <3>2 DEF Eligible
    <3>4. c.current = Len(c.pending) + 1
      BY <1>0, <3>2, <3>3
    <3>5. \A j \in 1 .. c.current - 1 : c.pending[j] \in A
      BY <3>2 DEF Steady
    <3>6. o.value = c.acknowledged
      BY <3>1 DEF Ok
    <3> QED
      BY <1>0, <3>2, <3>4, <3>5, <3>6
  <2>4. SendNext(c).tag = "Done"
    BY <2>1 DEF DeliveryDone, Done
  <2> HIDE DEF o
  <2> QED
    BY <1>0, <2>1, <2>2, <2>3, <2>4, DoneFollows
<1>2. CASE Eligible(c) # {}
  <2> DEFINE next == CHOOSE i \in Eligible(c) : \A j \in Eligible(c) : i <= j
             d == [c EXCEPT !.current = next]
  <2>1. SendNext(c) = Ask(d, "Send")
    BY <1>2 DEF SendNext
  <2>2. Eligible(c) \subseteq Nat
    BY <1>0 DEF Eligible
  <2>3. next \in Eligible(c) /\ \A j \in Eligible(c) : next <= j
    BY <1>2, <2>2, Least
  <2> HIDE DEF next
  <2>4. /\ next \in c.current .. Len(c.pending) /\ next \in Nat \ {0}
        /\ Destination[c.pending[next]] \notin c.blocked
    BY <1>0, <2>3 DEF Eligible
  <2>5. \A j \in c.current .. next - 1 : Destination[c.pending[j]] \in c.blocked
    <3> TAKE j \in c.current .. next - 1
    <3>1. j \notin Eligible(c) /\ j \in c.current .. Len(c.pending)
      BY <1>0, <2>3, <2>4
    <3> QED
      BY <3>1 DEF Eligible
  <2>6. /\ d \in DeliveryContinuations /\ d.current = next /\ d.pending = c.pending
        /\ d.blocked = c.blocked /\ d.failed = c.failed /\ d.acknowledged = c.acknowledged
        /\ d.mayHaveSent = c.mayHaveSent
    BY <1>0, <2>4 DEF DeliveryContinuations
  <2> HIDE DEF d
  <2>7. Steady(d, A, P)
    <3>1. d.current \in 1 .. Len(d.pending) + 1
      BY <1>0, <2>4, <2>6
    <3>2. \A j \in 1 .. d.current - 1 :
            d.pending[j] \in A \/ Destination[d.pending[j]] \in d.blocked
      <4> TAKE j \in 1 .. d.current - 1
      <4>1. j \in 1 .. c.current - 1 \/ j \in c.current .. next - 1
        BY <1>0, <2>4, <2>6
      <4> QED
        BY <2>5, <2>6, <4>1 DEF Steady
    <3>3. d.failed = NoOutcome => d.blocked = {} /\ d.acknowledged = d.current - 1
      <4> SUFFICES ASSUME d.failed = NoOutcome
                   PROVE  d.blocked = {} /\ d.acknowledged = d.current - 1
        OBVIOUS
      <4>1. c.blocked = {} /\ c.acknowledged = c.current - 1
        BY <2>6 DEF Steady
      <4>2. c.current \in Eligible(c)
        BY <1>0, <2>4, <4>1 DEF Eligible
      <4>3. next = c.current
        BY <1>0, <2>3, <2>4, <4>2
      <4> QED
        BY <2>6, <4>1, <4>3
    <3>4. /\ Listed(c.pending, A, P) /\ (~Isolate => c.blocked = {}) /\ c.failed.tag # "Ok"
      BY DEF Steady
    <3> QED
      BY <2>6, <3>1, <3>2, <3>3, <3>4 DEF Steady
  <2>8. Aimed(d)
    BY <1>0, <2>4, <2>6 DEF Aimed
  <2>9. "Send" \in Phases \ {"Read"}
    BY DEF Phases
  <2> QED
    BY <2>1, <2>6, <2>7, <2>8, <2>9, AskFollows
<1> QED
  BY <1>1, <1>2

\* The failure recorded in the continuation.
Blocks(c, b, f, k) == [c EXCEPT !.blocked = b, !.failed = f, !.current = k]

\* It changes nothing else.
LEMMA BlockedCont ==
    ASSUME NEW c \in DeliveryContinuations, NEW b \in SUBSET STRING,
           NEW f \in DeliveryOutcomes, NEW k \in Nat \ {0}, NEW d,
           d = Blocks(c, b, f, k)
    PROVE  /\ d \in DeliveryContinuations /\ d.current = k /\ d.pending = c.pending
           /\ d.blocked = b /\ d.failed = f
           /\ d.acknowledged = c.acknowledged /\ d.mayHaveSent = c.mayHaveSent
<1> DEFINE F == DeliveryOutcomes \cup {NoOutcome}
<1>1. f \in F
  OBVIOUS
<1>2. DeliveryContinuations =
        [phase: {"Read", "Send", "Acknowledge", "Clock", "Jitter", "Wait"},
         ordinal: 0 .. MaxOrdinal, retries: 0 .. Retries, pending: Seq(Records),
         blocked: SUBSET STRING, failed: F,
         current: Nat \ {0}, acknowledged: Nat, mayHaveSent: BOOLEAN, tick: 0 .. MaxTick]
  BY DEF DeliveryContinuations
<1> HIDE DEF F
<1> QED
  BY <1>1, <1>2 DEF Blocks

\* A failure of the current record: it is the run's, or its destination's.
LEMMA FailedFollows ==
    ASSUME NEW A, NEW P, NEW c, Steady(c, A, P), Aimed(c),
           NEW o \in DeliveryOutcomes, o.tag # "Ok", o # NoOutcome
    PROVE  /\ Follows(FailedDestination(c, o), c.pending, c.mayHaveSent, A, P)
           /\ FailedDestination(c, o).tag = "Request" =>
                FailedDestination(c, o).cont.phase = "Send"
<1>0. /\ c \in DeliveryContinuations /\ c.pending \in Seq(Records) /\ c.current \in Nat \ {0}
      /\ c.failed \in DeliveryOutcomes \cup {NoOutcome} /\ Len(c.pending) \in Nat
      /\ c.blocked \in SUBSET STRING
  BY ContParts DEF Steady
<1>1. CASE ~Isolate
  <2>1. FailedDestination(c, o) = DeliveryDone(c, o) /\ FailedDestination(c, o).tag = "Done"
    BY <1>1 DEF FailedDestination, DeliveryDone, Done
  <2> QED
    BY <1>0, <2>1, DoneFollows
<1>2. CASE Isolate
  <2> DEFINE mine == Destination[c.pending[c.current]]
             d == [c EXCEPT !.blocked = @ \cup {Destination[c.pending[c.current]]},
                            !.failed = IF @ = NoOutcome THEN o ELSE @,
                            !.current = @ + 1]
  <2>1. FailedDestination(c, o) = SendNext(d)
    BY <1>2 DEF FailedDestination
  <2>2. c.current \in 1 .. Len(c.pending) /\ mine \in STRING
    <3>1. c.current \in 1 .. Len(c.pending)
      BY DEF Aimed
    <3>2. c.pending[c.current] \in Records
      BY <1>0, <3>1, ElementOfSeq
    <3> QED
      BY <3>1, <3>2, OutboxAssumption
  <2> DEFINE failed == IF c.failed = NoOutcome THEN o ELSE c.failed
             all == c.blocked \cup {mine}
             k == c.current + 1
  <2>3. failed \in DeliveryOutcomes /\ failed # NoOutcome /\ failed.tag # "Ok"
    BY <1>0 DEF Steady
  <2>4. d = Blocks(c, all, failed, k)
    BY DEF Blocks
  <2> HIDE DEF mine, failed, d
  <2>5. /\ d \in DeliveryContinuations /\ d.current = c.current + 1 /\ d.pending = c.pending
        /\ d.blocked = c.blocked \cup {mine} /\ d.failed = failed
        /\ d.acknowledged = c.acknowledged /\ d.mayHaveSent = c.mayHaveSent
    <3>1. k \in Nat \ {0} /\ all \in SUBSET STRING
      BY <1>0, <2>2
    <3> HIDE DEF k, all
    <3>2. /\ d \in DeliveryContinuations /\ d.current = k /\ d.pending = c.pending
          /\ d.blocked = all /\ d.failed = failed
          /\ d.acknowledged = c.acknowledged /\ d.mayHaveSent = c.mayHaveSent
      BY <1>0, <2>3, <2>4, <3>1, BlockedCont
    <3> QED
      BY <3>2 DEF k, all
  <2>6. Steady(d, A, P)
    <3>1. d.current \in 1 .. Len(d.pending) + 1
      BY <1>0, <2>2, <2>5
    <3>2. \A j \in 1 .. d.current - 1 :
            d.pending[j] \in A \/ Destination[d.pending[j]] \in d.blocked
      <4> TAKE j \in 1 .. d.current - 1
      <4>1. j \in 1 .. c.current - 1 \/ j = c.current
        BY <1>0, <2>5
      <4>2. j = c.current => Destination[d.pending[j]] \in d.blocked
        BY <2>5 DEF mine
      <4> QED
        BY <2>5, <4>1, <4>2 DEF Steady
    <3>3. Listed(c.pending, A, P)
      BY DEF Steady
    <3> QED
      BY <1>2, <2>3, <2>5, <3>1, <3>2, <3>3 DEF Steady
  <2> QED
    BY <2>1, <2>5, <2>6, SendNextFollows
<1> QED
  BY <1>1, <1>2, DeliveryAssumption

\* A continuation whose budget, tick or record of sending changed.
LEMMA Changes ==
    ASSUME NEW c \in DeliveryContinuations
    PROVE  /\ c.retries # 0 =>
                LET d == [c EXCEPT !.retries = @ - 1]
                IN  /\ d \in DeliveryContinuations /\ SameRun(c, d) /\ d.phase = c.phase
                    /\ d.mayHaveSent = c.mayHaveSent /\ d.ordinal = c.ordinal
           /\ \A t \in 0 .. MaxTick :
                LET d == [c EXCEPT !.tick = t]
                IN  /\ d \in DeliveryContinuations /\ SameRun(c, d) /\ d.tick = t
                    /\ d.mayHaveSent = c.mayHaveSent
           /\ \A m \in BOOLEAN :
                LET d == [c EXCEPT !.mayHaveSent = m]
                IN  /\ d \in DeliveryContinuations /\ SameRun(c, d) /\ d.mayHaveSent = m
<1>1. c.retries # 0 => c.retries - 1 \in 0 .. Retries
  BY ContParts, DeliveryAssumption
<1>2. ASSUME NEW k \in 0 .. Retries
      PROVE  LET d == [c EXCEPT !.retries = k]
             IN  /\ d \in DeliveryContinuations /\ SameRun(c, d) /\ d.phase = c.phase
                 /\ d.mayHaveSent = c.mayHaveSent /\ d.ordinal = c.ordinal
  BY DEF DeliveryContinuations, SameRun
<1>3. \A t \in 0 .. MaxTick :
        LET d == [c EXCEPT !.tick = t]
        IN  /\ d \in DeliveryContinuations /\ SameRun(c, d) /\ d.tick = t
            /\ d.mayHaveSent = c.mayHaveSent
  BY DEF DeliveryContinuations, SameRun
<1>4. \A m \in BOOLEAN :
        LET d == [c EXCEPT !.mayHaveSent = m]
        IN  /\ d \in DeliveryContinuations /\ SameRun(c, d) /\ d.mayHaveSent = m
  BY DEF DeliveryContinuations, SameRun
<1> QED
  BY <1>1, <1>2, <1>3, <1>4

\* A request for the pending records, repeated within the budget.
LEMMA AskRead ==
    ASSUME NEW A, NEW P, NEW c, Good(c, A, P), c.phase = "Read"
    PROVE  /\ Follows(Ask(c, "Read"), c.pending, c.mayHaveSent, A, P)
           /\ Ask(c, "Read").tag = "Request" => Ask(c, "Read").cont.phase = "Read"
<1>0. c \in DeliveryContinuations /\ Steady(c, A, P) /\ c.pending = << >> /\ c.failed = NoOutcome
  BY DEF Good, Steady
<1>1. CASE c.ordinal = MaxOrdinal
  <2>1. Ask(c, "Read") = DeliveryDone(c, Refused("Range"))
    BY <1>1 DEF Ask
  <2>2. Refused("Range") \in DeliveryOutcomes /\ Refused("Range").tag # "Ok"
    BY OutcomeTypes DEF Refused
  <2>3. Ask(c, "Read").tag = "Done"
    BY <2>1 DEF DeliveryDone, Done
  <2> QED
    BY <1>0, <2>1, <2>2, <2>3, DoneFollows
<1>2. CASE c.ordinal # MaxOrdinal
  <2> DEFINE d == [c EXCEPT !.phase = "Read", !.ordinal = @ + 1]
  <2>1. d \in DeliveryContinuations /\ d.phase = "Read" /\ SameRun(c, d)
        /\ d.mayHaveSent = c.mayHaveSent
    <3>1. c.ordinal + 1 \in 0 .. MaxOrdinal
      BY <1>0, <1>2, ContParts, DeliveryAssumption
    <3> QED
      BY <1>0, <3>1 DEF DeliveryContinuations, SameRun
  <2>2. Ask(c, "Read") = Request(d)
    BY <1>2 DEF Ask
  <2> HIDE DEF d
  <2>3. Ask(c, "Read").tag = "Request" /\ Ask(c, "Read").cont = d
    BY <2>2 DEF Request
  <2>4. Steady(d, A, P) /\ d.pending = << >> /\ d.failed = NoOutcome
    BY <1>0, <2>1, SameSteady DEF SameRun
  <2> QED
    BY <2>1, <2>3, <2>4 DEF Follows, Good
<1> QED
  BY <1>1, <1>2

\* A continuation that starts on a list.
Lists(c, list) == [c EXCEPT !.pending = list, !.current = 1]

\* It changes nothing else.
LEMMA ListedCont ==
    ASSUME NEW c \in DeliveryContinuations, NEW list \in Seq(Records), NEW d, d = Lists(c, list)
    PROVE  /\ d \in DeliveryContinuations /\ d.pending = list /\ d.current = 1
           /\ d.blocked = c.blocked /\ d.failed = c.failed /\ d.acknowledged = c.acknowledged
           /\ d.mayHaveSent = c.mayHaveSent
<1>1. c = [phase |-> c.phase, ordinal |-> c.ordinal, retries |-> c.retries,
           pending |-> c.pending, blocked |-> c.blocked, failed |-> c.failed,
           current |-> c.current, acknowledged |-> c.acknowledged,
           mayHaveSent |-> c.mayHaveSent, tick |-> c.tick]
  BY ContParts
<1>2. d = [phase |-> c.phase, ordinal |-> c.ordinal, retries |-> c.retries,
           pending |-> list, blocked |-> c.blocked, failed |-> c.failed,
           current |-> 1, acknowledged |-> c.acknowledged,
           mayHaveSent |-> c.mayHaveSent, tick |-> c.tick]
  BY <1>1 DEF Lists
<1>3. /\ d.pending = list /\ d.current = 1
      /\ d.blocked = c.blocked /\ d.failed = c.failed /\ d.acknowledged = c.acknowledged
      /\ d.mayHaveSent = c.mayHaveSent
  BY <1>2
<1>4. d \in DeliveryContinuations
  BY <1>2, ContParts DEF DeliveryContinuations, Phases
<1> QED
  BY <1>3, <1>4

\* The answer to a read: the pending records, none of them acknowledged, or
\* a failure.
LEMMA ReadFollows ==
    ASSUME NEW A, NEW P \in Nat, P <= NumRecords, NEW c, Good(c, A, P), c.phase = "Read", NEW o,
           \/ \E list : /\ o = Ok(list) /\ Listed(list, A, P)
                        /\ \A i \in 1 .. Len(list) : list[i] \notin A
           \/ \E f \in Faults : o = NotApplied(f)
    PROVE  /\ Follows(ReadDone(c, o), c.pending, c.mayHaveSent, A, P)
           /\ ReadDone(c, o).tag = "Request" => ReadDone(c, o).cont.phase \in {"Read", "Send"}
<1>0. c \in DeliveryContinuations /\ Steady(c, A, P) /\ c.pending = << >> /\ c.failed = NoOutcome
      /\ Len(c.pending) = 0
  BY DEF Good, Steady
<1>1. ASSUME NEW list, o = Ok(list), Listed(list, A, P), \A i \in 1 .. Len(list) : list[i] \notin A
      PROVE  /\ Follows(ReadDone(c, o), c.pending, c.mayHaveSent, A, P)
             /\ ReadDone(c, o).tag = "Request" => ReadDone(c, o).cont.phase \in {"Read", "Send"}
  <2>1. o.tag = "Ok" /\ o.value = list
    BY <1>1 DEF Ok
  <2>2. CASE ~Ordered(list)
    <3>1. ReadDone(c, o) = DeliveryDone(c, Refused("Protocol"))
      BY <2>1, <2>2 DEF ReadDone
    <3>2. Refused("Protocol") \in DeliveryOutcomes /\ Refused("Protocol").tag # "Ok"
      BY OutcomeTypes DEF Refused
    <3>3. ReadDone(c, o).tag = "Done"
      BY <3>1 DEF DeliveryDone, Done
    <3> QED
      BY <1>0, <3>1, <3>2, <3>3, DoneFollows
  <2>3. CASE Ordered(list)
    <3> DEFINE d == Lists(c, list)
    <3>1. ReadDone(c, o) = SendNext(d)
      BY <2>1, <2>3 DEF ReadDone, Lists
    <3>2. list \in Seq(Records) /\ list \in Seq(1 .. P) /\ Len(list) \in Nat
      <4>1. list \in Seq(1 .. P)
        BY <1>1 DEF Listed
      <4>2. 1 .. P \subseteq Records
        BY OutboxAssumption DEF Records
      <4> QED
        BY <4>1, <4>2, SeqMonotonic, LenProperties
    <3>3. /\ d \in DeliveryContinuations /\ d.pending = list /\ d.current = 1
          /\ d.blocked = c.blocked /\ d.failed = c.failed /\ d.acknowledged = c.acknowledged
          /\ d.mayHaveSent = c.mayHaveSent
      BY <1>0, <3>2, ListedCont
    <3> HIDE DEF d
    <3>4. c.blocked = {} /\ c.acknowledged = c.current - 1 /\ c.current \in 1 .. 0 + 1
      BY <1>0 DEF Steady
    <3>5. Steady(d, A, P)
      BY <1>0, <1>1, <3>2, <3>3, <3>4 DEF Steady, NoOutcome
    <3>6. /\ Follows(SendNext(d), list, c.mayHaveSent, A, P)
          /\ SendNext(d).tag = "Request" => SendNext(d).cont.phase = "Send"
      BY <3>3, <3>5, SendNextFollows
    <3>7. \A x : x \in DeliveryOutcomes /\ x.tag = "Ok" /\ x.value = Len(list)
                   /\ (\A i \in 1 .. Len(list) : list[i] \in A) => x.value = 0
      BY <1>1, <3>2
    <3>8. Follows(SendNext(d), c.pending, c.mayHaveSent, A, P)
      BY <1>0, <3>6, <3>7 DEF Follows
    <3> QED
      BY <3>1, <3>6, <3>8
  <2> QED
    BY <2>2, <2>3
<1>2. ASSUME NEW f \in Faults, o = NotApplied(f)
      PROVE  /\ Follows(ReadDone(c, o), c.pending, c.mayHaveSent, A, P)
             /\ ReadDone(c, o).tag = "Request" => ReadDone(c, o).cont.phase \in {"Read", "Send"}
  <2>1. o.tag = "NotApplied" /\ o.fault = f
    BY <1>2 DEF NotApplied
  <2>2. CASE c.retries = 0
    <3>1. ReadDone(c, o) = DeliveryDone(c, NotApplied(f))
      BY <2>1, <2>2 DEF ReadDone
    <3>2. NotApplied(f) \in DeliveryOutcomes /\ NotApplied(f).tag # "Ok"
      BY OutcomeTypes DEF NotApplied
    <3>3. ReadDone(c, o).tag = "Done"
      BY <3>1 DEF DeliveryDone, Done
    <3> QED
      BY <1>0, <3>1, <3>2, <3>3, DoneFollows
  <2>3. CASE c.retries # 0
    <3> DEFINE d == [c EXCEPT !.retries = @ - 1]
    <3>1. ReadDone(c, o) = Ask(d, "Read")
      BY <2>1, <2>3 DEF ReadDone
    <3>2. /\ d \in DeliveryContinuations /\ SameRun(c, d) /\ d.phase = c.phase
          /\ d.mayHaveSent = c.mayHaveSent
      BY <1>0, <2>3, Changes
    <3> HIDE DEF d
    <3>3. Good(d, A, P) /\ d.phase = "Read" /\ d.pending = c.pending
      BY <1>0, <3>2, SameSteady DEF Good, SameRun
    <3> QED
      BY <3>1, <3>2, <3>3, AskRead
  <2> QED
    BY <2>2, <2>3
<1> QED
  BY <1>1, <1>2

PolicyCodes == {"PolicyDuplicate", "PolicyCapacity", "PolicyRecipient"}

\* What the transport or a policy may answer.
SendAnswers == {Sent(x) : x \in Nat} \cup {NotSent, Unknown("Io")}
                 \cup {Refused(code) : code \in PolicyCodes}

\* The answer to a send.
LEMMA SendFollows ==
    ASSUME NEW A, NEW P, NEW c, Good(c, A, P), c.phase = "Send", NEW o \in SendAnswers
    PROVE  LET s == SentOne(c, o)
           IN  /\ Follows(s, c.pending, c.mayHaveSent \/ o.tag \in {"Sent", "Unknown"}, A, P)
               /\ s.tag = "Request" =>
                    /\ s.cont.phase \in {"Send", "Acknowledge", "Clock"}
                    /\ s.cont.phase = "Acknowledge" =>
                         /\ o.tag = "Sent" /\ o.report = c.pending[c.current]
                         /\ SameRun(c, s.cont)
<1> DEFINE m == c.mayHaveSent \/ o.tag \in {"Sent", "Unknown"}
           d == [c EXCEPT !.mayHaveSent = m]
           s == SentOne(c, o)
           Goal == /\ Follows(s, c.pending, m, A, P)
                   /\ s.tag = "Request" =>
                        /\ s.cont.phase \in {"Send", "Acknowledge", "Clock"}
                        /\ s.cont.phase = "Acknowledge" =>
                             /\ o.tag = "Sent" /\ o.report = c.pending[c.current]
                             /\ SameRun(c, s.cont)
<1> SUFFICES Goal
  OBVIOUS
<1>0. c \in DeliveryContinuations /\ Steady(c, A, P) /\ Aimed(c)
  BY DEF Good, Steady
<1>1. m \in BOOLEAN
  OBVIOUS
<1>2. /\ s = CASE o.tag = "Sent" ->
                    IF o.report = d.pending[d.current] THEN Ask(d, "Acknowledge")
                    ELSE DeliveryDone(d, Refused("Protocol"))
               [] o.tag = "Refused" -> FailedDestination(d, o)
               [] o.tag = "NotSent" ->
                    IF d.retries = 0 THEN FailedDestination(d, Refused(o.code)) ELSE BackOff(d)
               [] o.tag = "Unknown" ->
                    IF d.retries = 0 THEN FailedDestination(d, o) ELSE BackOff(d)
  BY DEF SentOne
<1> HIDE DEF m
<1>3. d \in DeliveryContinuations /\ SameRun(c, d) /\ d.mayHaveSent = m
  BY <1>0, <1>1, Changes
<1> HIDE DEF d, s
<1>4. Steady(d, A, P) /\ Aimed(d) /\ d.pending = c.pending /\ d.current = c.current
  BY <1>0, <1>3, SameSteady DEF SameRun
<1>5. ASSUME d.retries # 0, s = BackOff(d) PROVE Goal
  <2> DEFINE e == [d EXCEPT !.retries = @ - 1]
  <2>1. e \in DeliveryContinuations /\ SameRun(d, e) /\ e.mayHaveSent = d.mayHaveSent
    BY <1>3, <1>5, Changes
  <2>2. s = Ask(e, "Clock")
    BY <1>5 DEF BackOff
  <2> HIDE DEF e
  <2>3. Steady(e, A, P) /\ Aimed(e) /\ "Clock" \in Phases \ {"Read"} /\ e.mayHaveSent = m
    BY <1>3, <1>4, <2>1, SameSteady DEF Phases
  <2> QED
    BY <2>2, <2>3, AskFollows
<1>6. ASSUME NEW x \in DeliveryOutcomes, x.tag # "Ok", x # NoOutcome, s = FailedDestination(d, x)
      PROVE  Goal
  BY <1>3, <1>4, <1>6, FailedFollows
<1> HIDE DEF Goal
<1>7. CASE \E x \in Nat : o = Sent(x)
  <2>1. o.tag = "Sent"
    BY <1>7 DEF Sent
  <2>2. CASE o.report = d.pending[d.current]
    <3>1. s = Ask(d, "Acknowledge")
      BY <1>2, <2>1, <2>2
    <3>2. "Acknowledge" \in Phases \ {"Read"}
      BY DEF Phases
    <3>3. /\ Follows(s, c.pending, m, A, P)
          /\ s.tag = "Request" => s.cont.phase = "Acknowledge" /\ SameRun(d, s.cont)
      BY <1>3, <1>4, <3>1, <3>2, AskFollows
    <3>4. \A e : SameRun(d, e) => SameRun(c, e)
      BY <1>3 DEF SameRun
    <3> QED
      BY <1>4, <2>1, <2>2, <3>3, <3>4 DEF Goal
  <2>3. CASE o.report # d.pending[d.current]
    <3>1. s = DeliveryDone(d, Refused("Protocol"))
      BY <1>2, <2>1, <2>3
    <3>2. Refused("Protocol") \in DeliveryOutcomes /\ Refused("Protocol").tag # "Ok"
      BY OutcomeTypes DEF Refused
    <3>3. s.tag = "Done"
      BY <3>1 DEF DeliveryDone, Done
    <3> QED
      <4>1. Follows(s, c.pending, m, A, P)
        BY <1>3, <3>1, <3>2, DoneFollows
      <4> QED
        BY <3>3, <4>1 DEF Goal
  <2> QED
    BY <2>2, <2>3
<1>8. CASE o = NotSent
  <2>1. o.tag = "NotSent" /\ o.code = "Delivery"
    BY <1>8 DEF NotSent
  <2>2. Refused("Delivery") \in DeliveryOutcomes /\ Refused("Delivery").tag # "Ok"
        /\ Refused("Delivery") # NoOutcome
    BY OutcomeTypes DEF Refused, NoOutcome
  <2>3. s = IF d.retries = 0 THEN FailedDestination(d, Refused("Delivery")) ELSE BackOff(d)
    BY <1>2, <2>1
  <2> QED
    BY <1>5, <1>6, <2>2, <2>3
<1>9. CASE o = Unknown("Io")
  <2>1. o.tag = "Unknown"
    BY <1>9 DEF Unknown
  <2>2. o \in DeliveryOutcomes /\ o.tag # "Ok" /\ o # NoOutcome
    BY <1>9, OutcomeTypes DEF Unknown, NoOutcome
  <2>3. s = IF d.retries = 0 THEN FailedDestination(d, o) ELSE BackOff(d)
    BY <1>2, <2>1
  <2> QED
    BY <1>5, <1>6, <2>2, <2>3
<1>10. CASE \E code \in PolicyCodes : o = Refused(code)
  <2>1. o.tag = "Refused" /\ o # NoOutcome
    BY <1>10 DEF Refused, NoOutcome
  <2>2. o \in DeliveryOutcomes
    BY <1>10, OutcomeTypes DEF PolicyCodes
  <2>3. s = FailedDestination(d, o)
    BY <1>2, <2>1
  <2> QED
    BY <1>6, <2>1, <2>2, <2>3
<1> QED
  BY <1>7, <1>8, <1>9, <1>10 DEF SendAnswers

\* A record counted as acknowledged.
Counts(c, g, k) == [c EXCEPT !.acknowledged = g, !.current = k]

\* It changes nothing else.
LEMMA CountedCont ==
    ASSUME NEW c \in DeliveryContinuations, NEW g \in Nat, NEW k \in Nat \ {0}, NEW d,
           d = Counts(c, g, k)
    PROVE  /\ d \in DeliveryContinuations
           /\ d.pending = c.pending /\ d.blocked = c.blocked /\ d.failed = c.failed
           /\ d.current = k /\ d.acknowledged = g /\ d.mayHaveSent = c.mayHaveSent
<1>1. c = [phase |-> c.phase, ordinal |-> c.ordinal, retries |-> c.retries,
           pending |-> c.pending, blocked |-> c.blocked, failed |-> c.failed,
           current |-> c.current, acknowledged |-> c.acknowledged,
           mayHaveSent |-> c.mayHaveSent, tick |-> c.tick]
  BY ContParts
<1>2. d = [phase |-> c.phase, ordinal |-> c.ordinal, retries |-> c.retries,
           pending |-> c.pending, blocked |-> c.blocked, failed |-> c.failed,
           current |-> k, acknowledged |-> g,
           mayHaveSent |-> c.mayHaveSent, tick |-> c.tick]
  BY <1>1 DEF Counts
<1>3. /\ d.pending = c.pending /\ d.blocked = c.blocked /\ d.failed = c.failed
      /\ d.current = k /\ d.acknowledged = g /\ d.mayHaveSent = c.mayHaveSent
  BY <1>2
<1>4. d \in DeliveryContinuations
  BY <1>2, ContParts DEF DeliveryContinuations, Phases
<1> QED
  BY <1>3, <1>4

\* The answer to an acknowledgement; the record is acknowledged when the
\* answer says so.
LEMMA AcknowledgeFollows ==
    ASSUME NEW A, NEW P, NEW c, Good(c, A, P), c.phase = "Acknowledge", NEW o,
           \/ o \in {Ok("acknowledged"), Refused("AlreadyAcknowledged")} /\ c.pending[c.current] \in A
           \/ \E f \in Faults : o \in {NotApplied(f), Unknown(f)}
    PROVE  LET s == AcknowledgeDone(c, o)
           IN  /\ Follows(s, c.pending, c.mayHaveSent, A, P)
               /\ s.tag = "Request" =>
                    /\ s.cont.phase \in {"Send", "Acknowledge"}
                    /\ s.cont.phase = "Acknowledge" => SameRun(c, s.cont)
<1> DEFINE s == AcknowledgeDone(c, o)
           Goal == /\ Follows(s, c.pending, c.mayHaveSent, A, P)
                   /\ s.tag = "Request" =>
                        /\ s.cont.phase \in {"Send", "Acknowledge"}
                        /\ s.cont.phase = "Acknowledge" => SameRun(c, s.cont)
<1> SUFFICES Goal
  OBVIOUS
<1>0. /\ c \in DeliveryContinuations /\ Steady(c, A, P) /\ Aimed(c)
      /\ c.current \in 1 .. Len(c.pending) /\ Len(c.pending) \in Nat
  <2>1. c \in DeliveryContinuations /\ Steady(c, A, P) /\ Aimed(c)
    BY DEF Good, Steady
  <2> QED
    BY <2>1, ContParts, LenProperties DEF Aimed
<1>1. CASE o \in {Ok("acknowledged"), Refused("AlreadyAcknowledged")} /\ c.pending[c.current] \in A
  <2> DEFINE k == c.current + 1
             g == c.acknowledged + 1
             d == [c EXCEPT !.acknowledged = @ + 1, !.current = @ + 1]
  <2>0. o.tag = "Ok" \/ o = Refused("AlreadyAcknowledged")
    BY <1>1 DEF Ok
  <2>1. s = SendNext(d)
    BY <2>0 DEF AcknowledgeDone
  <2>2. c.acknowledged \in Nat /\ k \in Nat \ {0} /\ g \in Nat
    BY <1>0, ContParts
  <2>3. d = Counts(c, g, k)
    BY DEF Counts
  <2> HIDE DEF d, k, g
  <2>4. c \in DeliveryContinuations
    BY <1>0
  <2>5. g \in Nat /\ k \in Nat \ {0}
    BY <2>2
  <2>6. /\ d \in DeliveryContinuations
        /\ d.pending = c.pending /\ d.blocked = c.blocked /\ d.failed = c.failed
        /\ d.current = k /\ d.acknowledged = g /\ d.mayHaveSent = c.mayHaveSent
    BY <2>3, <2>4, <2>5, CountedCont
  <2>7. Steady(d, A, P)
    <3>1. k \in 1 .. Len(c.pending) + 1 /\ k = c.current + 1 /\ g = c.acknowledged + 1
      BY <1>0 DEF k, g
    <3>2. \A j \in 1 .. k - 1 : c.pending[j] \in A \/ Destination[c.pending[j]] \in c.blocked
      <4> TAKE j \in 1 .. k - 1
      <4>1. j = c.current \/ j \in 1 .. c.current - 1
        BY <1>0, <3>1
      <4> QED
        BY <1>0, <1>1, <4>1 DEF Steady
    <3>3. c.failed = NoOutcome => c.blocked = {} /\ g = k - 1
      BY <1>0, <2>2, <3>1 DEF Steady
    <3>4. Listed(c.pending, A, P) /\ (~Isolate => c.blocked = {}) /\ c.failed.tag # "Ok"
      BY <1>0 DEF Steady
    <3> QED
      BY <2>6, <3>1, <3>2, <3>3, <3>4 DEF Steady
  <2> QED
    BY <2>1, <2>6, <2>7, SendNextFollows
<1>2. ASSUME NEW f \in Faults, o \in {NotApplied(f), Unknown(f)}
      PROVE  Goal
  <2>1. o \in DeliveryOutcomes /\ o.tag \notin {"Ok", "Refused"} /\ o # NoOutcome
        /\ o # Refused("AlreadyAcknowledged")
    <3>1. o \in DeliveryOutcomes
      BY <1>2, OutcomeTypes
    <3>2. o.tag \in {"NotApplied", "Unknown"}
      BY <1>2 DEF NotApplied, Unknown
    <3>3. NoOutcome.tag = "None" /\ Refused("AlreadyAcknowledged").tag = "Refused"
      BY DEF NoOutcome, Refused
    <3> QED
      BY <3>1, <3>2, <3>3
  <2>2. s = IF c.retries = 0 THEN FailedDestination(c, o)
            ELSE Ask([c EXCEPT !.retries = @ - 1], "Acknowledge")
    BY <2>1 DEF AcknowledgeDone
  <2> HIDE DEF s
  <2>3. CASE c.retries = 0
    BY <1>0, <2>1, <2>2, <2>3, FailedFollows
  <2>4. CASE c.retries # 0
    <3> DEFINE e == [c EXCEPT !.retries = @ - 1]
    <3>1. e \in DeliveryContinuations /\ SameRun(c, e) /\ e.mayHaveSent = c.mayHaveSent
      BY <1>0, <2>4, Changes
    <3>2. s = Ask(e, "Acknowledge")
      BY <2>2, <2>4
    <3> HIDE DEF e
    <3>3. Steady(e, A, P) /\ Aimed(e) /\ "Acknowledge" \in Phases \ {"Read"}
      BY <1>0, <3>1, SameSteady DEF Phases
    <3>4. /\ Follows(s, c.pending, c.mayHaveSent, A, P)
          /\ s.tag = "Request" => s.cont.phase = "Acknowledge" /\ SameRun(e, s.cont)
      BY <3>1, <3>2, <3>3, AskFollows
    <3>5. \A x : SameRun(e, x) => SameRun(c, x)
      BY <3>1 DEF SameRun
    <3> QED
      BY <3>4, <3>5
  <2> QED
    BY <2>3, <2>4
<1> QED
  BY <1>1, <1>2

\* A run that ends with a failure or a refusal, whatever it listed.
LEMMA EndFollows ==
    ASSUME NEW A, NEW P, NEW c \in DeliveryContinuations, NEW s, NEW list,
           \/ \E f \in Faults : s = DeliveryDone(c, NotApplied(f))
           \/ \E code \in {"Protocol", "Range", "Interrupted"} : s = DeliveryDone(c, Refused(code))
    PROVE  Follows(s, list, c.mayHaveSent, A, P) /\ s.tag = "Done"
<1>1. PICK o : /\ s = DeliveryDone(c, o)
               /\ \/ \E f \in Faults : o = NotApplied(f)
                  \/ \E code \in {"Protocol", "Range", "Interrupted"} : o = Refused(code)
  OBVIOUS
<1>2. o \in DeliveryOutcomes
  BY <1>1, OutcomeTypes
<1>3. o.tag # "Ok"
  BY <1>1 DEF NotApplied, Refused
<1>4. s.tag = "Done"
  BY <1>1 DEF DeliveryDone, Done
<1> QED
  BY <1>1, <1>2, <1>3, <1>4, DoneFollows

\* The answers while backing off: the clock, the draw and the wake.
LEMMA ClockFollows ==
    ASSUME NEW A, NEW P, NEW c, Good(c, A, P), c.phase = "Clock", NEW o,
           (\E t \in 0 .. Ticks : o = Ok(t)) \/ \E f \in Faults : o = NotApplied(f)
    PROVE  LET s == ClockRead(c, o)
           IN  /\ Follows(s, c.pending, c.mayHaveSent, A, P)
               /\ s.tag = "Request" =>
                    s.cont.phase = "Jitter" /\ o.tag = "Ok" /\ s.cont.tick = o.value
<1> DEFINE s == ClockRead(c, o)
<1>0. c \in DeliveryContinuations /\ Steady(c, A, P) /\ Aimed(c)
  BY DEF Good, Steady
<1>1. ASSUME NEW t \in 0 .. Ticks, o = Ok(t)
      PROVE  /\ Follows(s, c.pending, c.mayHaveSent, A, P)
             /\ s.tag = "Request" =>
                  s.cont.phase = "Jitter" /\ o.tag = "Ok" /\ s.cont.tick = o.value
  <2> DEFINE d == [c EXCEPT !.tick = t]
  <2>1. o.tag = "Ok" /\ o.value = t
    BY <1>1 DEF Ok
  <2>2. s = Ask(d, "Jitter")
    BY <2>1 DEF ClockRead
  <2>3. t \in 0 .. MaxTick
    BY OutboxAssumption, DeliveryAssumption
  <2>4. /\ d \in DeliveryContinuations /\ SameRun(c, d) /\ d.tick = t
        /\ d.mayHaveSent = c.mayHaveSent
    BY <1>0, <2>3, Changes
  <2> HIDE DEF d, s
  <2>5. Steady(d, A, P) /\ Aimed(d) /\ "Jitter" \in Phases \ {"Read"}
    BY <1>0, <2>4, SameSteady DEF Phases
  <2> QED
    BY <2>1, <2>2, <2>4, <2>5, AskFollows
<1>2. ASSUME NEW f \in Faults, o = NotApplied(f)
      PROVE  Follows(s, c.pending, c.mayHaveSent, A, P) /\ s.tag = "Done"
  <2>1. o.tag = "NotApplied" /\ o.fault = f
    BY <1>2 DEF NotApplied
  <2>2. s = DeliveryDone(c, NotApplied(f))
    BY <2>1 DEF ClockRead
  <2> QED
    BY <1>0, <2>2, EndFollows
<1> QED
  BY <1>1, <1>2

\* The deadline is the tick read, the backoff and the draw.
LEMMA JitterFollows ==
    ASSUME NEW A, NEW P, NEW c, Good(c, A, P), c.phase = "Jitter", NEW o,
           (\E t \in 0 .. Jitter - 1 : o = Ok(t)) \/ \E f \in Faults : o = NotApplied(f)
    PROVE  LET s == JitterDrawn(c, o)
           IN  /\ Follows(s, c.pending, c.mayHaveSent, A, P)
               /\ s.tag = "Request" => s.cont.phase = "Wait" /\ s.cont.tick >= c.tick + Backoff
<1> DEFINE s == JitterDrawn(c, o)
<1>0. c \in DeliveryContinuations /\ Steady(c, A, P) /\ Aimed(c) /\ c.tick \in 0 .. MaxTick
  BY ContParts DEF Good, Steady
<1>1. ASSUME NEW t \in 0 .. Jitter - 1, o = Ok(t)
      PROVE  /\ Follows(s, c.pending, c.mayHaveSent, A, P)
             /\ s.tag = "Request" => s.cont.phase = "Wait" /\ s.cont.tick >= c.tick + Backoff
  <2> DEFINE u == c.tick + Backoff + t
             d == [c EXCEPT !.tick = u]
  <2>1. o.tag = "Ok" /\ o.value = t
    BY <1>1 DEF Ok
  <2>2. ~(o.value >= Jitter) /\ u \in Nat /\ u >= c.tick + Backoff
    BY <1>0, <2>1, DeliveryAssumption
  <2>3. s = IF u > MaxTick THEN DeliveryDone(c, Refused("Range")) ELSE Ask(d, "Wait")
    BY <2>1, <2>2 DEF JitterDrawn
  <2>4. CASE u > MaxTick
    BY <1>0, <2>3, <2>4, EndFollows
  <2>5. CASE ~(u > MaxTick)
    <3>1. u \in 0 .. MaxTick
      BY <2>2, <2>5, DeliveryAssumption
    <3> HIDE DEF u
    <3>2. /\ d \in DeliveryContinuations /\ SameRun(c, d) /\ d.tick = u
          /\ d.mayHaveSent = c.mayHaveSent
      BY <1>0, <3>1, Changes
    <3>3. s = Ask(d, "Wait")
      BY <2>3, <2>5
    <3> HIDE DEF d, s
    <3>4. Steady(d, A, P) /\ Aimed(d) /\ "Wait" \in Phases \ {"Read"}
      BY <1>0, <3>2, SameSteady DEF Phases
    <3>5. /\ Follows(s, c.pending, c.mayHaveSent, A, P)
          /\ s.tag = "Request" => s.cont.phase = "Wait" /\ s.cont.tick = u
      BY <3>2, <3>3, <3>4, AskFollows
    <3> QED
      BY <2>2, <3>5
  <2> QED
    BY <2>4, <2>5
<1>2. ASSUME NEW f \in Faults, o = NotApplied(f)
      PROVE  Follows(s, c.pending, c.mayHaveSent, A, P) /\ s.tag = "Done"
  <2>1. o.tag = "NotApplied" /\ o.fault = f
    BY <1>2 DEF NotApplied
  <2>2. s = DeliveryDone(c, NotApplied(f))
    BY <2>1 DEF JitterDrawn
  <2> QED
    BY <1>0, <2>2, EndFollows
<1> QED
  BY <1>1, <1>2

\* The wake; the send is repeated only at the deadline or later.
LEMMA WaitFollows ==
    ASSUME NEW A, NEW P, NEW c, Good(c, A, P), c.phase = "Wait", NEW o,
           \/ \E t \in Nat : o = Ok(t)
           \/ o = [tag |-> "Interrupted"]
           \/ \E f \in Faults : o = NotApplied(f)
    PROVE  LET s == Woke(c, o)
           IN  /\ Follows(s, c.pending, c.mayHaveSent, A, P)
               /\ s.tag = "Request" =>
                    s.cont.phase = "Send" /\ o.tag = "Ok" /\ o.value >= c.tick
<1> DEFINE s == Woke(c, o)
<1>0. c \in DeliveryContinuations /\ Steady(c, A, P)
  BY DEF Good, Steady
<1>1. ASSUME NEW t \in Nat, o = Ok(t)
      PROVE  /\ Follows(s, c.pending, c.mayHaveSent, A, P)
             /\ s.tag = "Request" => s.cont.phase = "Send" /\ o.tag = "Ok" /\ o.value >= c.tick
  <2>1. o.tag = "Ok" /\ o.value = t
    BY <1>1 DEF Ok
  <2>2. s = IF o.value >= c.tick THEN SendNext(c) ELSE DeliveryDone(c, Refused("Protocol"))
    BY <2>1 DEF Woke
  <2> HIDE DEF s
  <2>3. CASE o.value >= c.tick
    BY <1>0, <2>1, <2>2, <2>3, SendNextFollows
  <2>4. CASE ~(o.value >= c.tick)
    BY <1>0, <2>2, <2>4, EndFollows
  <2> QED
    BY <2>3, <2>4
<1>2. CASE o = [tag |-> "Interrupted"]
  <2>1. s = DeliveryDone(c, Refused("Interrupted"))
    BY <1>2 DEF Woke
  <2> HIDE DEF s
  <2>2. Follows(s, c.pending, c.mayHaveSent, A, P) /\ s.tag = "Done"
    BY <1>0, <2>1, EndFollows
  <2> QED
    BY <2>2 DEF s
<1>3. ASSUME NEW f \in Faults, o = NotApplied(f)
      PROVE  Follows(s, c.pending, c.mayHaveSent, A, P) /\ s.tag = "Done"
  <2>1. o.tag = "NotApplied"
    BY <1>3 DEF NotApplied
  <2>2. s = DeliveryDone(c, NotApplied(f))
    BY <1>3, <2>1 DEF Woke
  <2> QED
    BY <1>0, <2>2, EndFollows
<1> QED
  BY <1>1, <1>2, <1>3

-----------------------------------------------------------------------------
(* Deliverers and the world around them. *)

\* What a run knows stays true when more is acknowledged and published.
LEMMA GoodMonotone ==
    ASSUME NEW A, NEW B, A \subseteq B, NEW P \in Nat, NEW Q \in Nat, P <= Q, NEW c, Good(c, A, P)
    PROVE  Good(c, B, Q)
<1>1. Listed(c.pending, B, Q)
  <2>1. Listed(c.pending, A, P)
    BY DEF Good, Steady
  <2>2. c.pending \in Seq(1 .. P) /\ 1 .. P \subseteq 1 .. Q
    BY <2>1 DEF Listed
  <2>3. c.pending \in Seq(1 .. Q)
    BY <2>2
  <2> QED
    BY <2>1, <2>3 DEF Listed
<1>2. Steady(c, A, P) => Steady(c, B, Q)
  BY <1>1 DEF Steady
<1> QED
  BY <1>2 DEF Good

\* No step takes anything back.
Grows == acked \subseteq acked' /\ published <= published' /\ sent \subseteq sent' /\ tick <= tick'

\* The run of b and its books are left alone.
Untouched(b) ==
    /\ cont'[b] = cont[b] /\ status'[b] = status[b] /\ outcome'[b] = outcome[b]
    /\ carried'[b] = carried[b] /\ lastTry'[b] = lastTry[b]
    /\ monitors'[b] = monitors[b] /\ forwards'[b] = forwards[b]
    /\ incarnation'[b] = incarnation[b]

\* A run keeps what it knows while the world grows around it.
LEMMA OthersKeep ==
    ASSUME NEW b \in Actors, Actor(b), Carried, Carried', Grows, Untouched(b)
    PROVE  Actor(b)'
<1> DEFINE c == cont[b]
<1>1. /\ published \in Nat /\ published' \in Nat /\ tick \in Nat /\ tick' \in Nat
  BY OutboxAssumption DEF Carried
<1>2. Good(c, acked, published)
  BY DEF Actor, RunKnows
<1>3. Good(c, acked', published')
  BY <1>1, <1>2, GoodMonotone DEF Grows
<1>4. RunKnows(cont[b], status[b], outcome[b], carried[b])'
  BY <1>3 DEF Actor, RunKnows, Untouched, Grows
<1>5. BacksOff(cont[b], lastTry[b], tick)'
  <2>1. BacksOff(c, lastTry[b], tick) /\ tick <= tick'
    BY DEF Actor, Grows
  <2>2. BacksOff(c, lastTry[b], tick')
    BY <1>1, <2>1, DeliveryAssumption DEF BacksOff
  <2>3. BacksOff(cont[b], lastTry[b], tick)' = BacksOff(cont'[b], lastTry'[b], tick')
    OBVIOUS
  <2> QED
    BY <2>2, <2>3 DEF Untouched
<1>6. Reserved(Policies[b], monitors[b], forwards[b])'
  BY DEF Actor, Untouched, Reserved
<1> QED
  BY <1>4, <1>5, <1>6 DEF Actor, Untouched

\* A read's list is sound, and holds nothing acknowledged.
LEMMA PendingListed ==
    ASSUME published \in Nat, NEW list \in Pending
    PROVE  Listed(list, acked, published) /\ \A i \in 1 .. Len(list) : list[i] \notin acked
<1> DEFINE open == (1 .. published) \ acked
<1> DEFINE n == Cardinality(open)
<1>1. n \in Nat
  <2>1. IsFiniteSet(1 .. published)
    BY FS_Interval
  <2> QED
    BY <2>1, FS_Subset, FS_CardinalityType
<1>2. /\ list \in [1 .. n -> open]
      /\ \A i, j \in DOMAIN list : i < j => list[i] < list[j]
      /\ \A r \in open : \E i \in DOMAIN list : list[i] = r
  BY DEF Pending
<1>3. \A i \in 1 .. n : list[i] \in 1 .. published /\ list[i] \notin acked
  BY <1>2
<1> HIDE DEF n
<1>4. list \in Seq(1 .. published) /\ Len(list) = n /\ DOMAIN list = 1 .. n
  BY <1>1, <1>2, <1>3
<1>5. ASSUME NEW i \in 1 .. n, NEW r \in 1 .. list[i] - 1, r \notin acked
      PROVE  \E j \in 1 .. i - 1 : list[j] = r
  <2>1. list[i] \in 1 .. published
    BY <1>3
  <2>2. r \in open
    BY <1>5, <2>1
  <2>3. PICK j \in 1 .. n : list[j] = r
    BY <1>2, <1>4, <2>2
  <2>4. CASE i < j
    <3>1. list[i] < list[j]
      BY <1>2, <1>4, <2>4
    <3> QED
      BY <2>1, <2>3, <3>1
  <2>5. CASE i = j
    BY <2>1, <2>3, <2>5
  <2>6. CASE j < i
    BY <1>1, <2>3, <2>6
  <2> QED
    BY <1>1, <2>4, <2>5, <2>6
<1> QED
  BY <1>3, <1>4, <1>5 DEF Listed

\* What the run of a knows after a step, handed being what it then handed to
\* the transport.
Informed(a, handed) ==
    /\ cont' \in [Actors -> DeliveryContinuations]
    /\ status' \in [Actors -> {"waiting", "done", "crashed"}]
    /\ DOMAIN outcome' = Actors
    /\ \A b \in Actors \ {a} :
         cont'[b] = cont[b] /\ status'[b] = status[b] /\ outcome'[b] = outcome[b]
    /\ carried'[a] = handed => RunKnows(cont[a], status[a], outcome[a], carried[a])'

\* An answer the program accepts soundly keeps what its run knows.
LEMMA AnswerInforms ==
    ASSUME Shapes, NEW a \in Actors, status[a] = "waiting", outcome[a] = NoOutcome,
           Good(cont[a], acked', published'),
           cont[a].phase = "Acknowledge" => Current(a) \in sent',
           NEW o, Answer(a, o), NEW m, NEW handed \in BOOLEAN, handed => m,
           Follows(ResumeDelivery(cont[a], o), cont[a].pending, m, acked', published'),
           ResumeDelivery(cont[a], o).tag = "Request"
             /\ ResumeDelivery(cont[a], o).cont.phase = "Acknowledge" =>
               ResumeDelivery(cont[a], o).cont.pending[ResumeDelivery(cont[a], o).cont.current] \in sent'
    PROVE  /\ Informed(a, handed)
           /\ \/ ResumeDelivery(cont[a], o).tag = "Request"
                 /\ cont'[a] = ResumeDelivery(cont[a], o).cont
              \/ cont'[a] = cont[a]
<1> DEFINE s == ResumeDelivery(cont[a], o)
<1>0. s = ResumeDelivery(cont[a], o)
  OBVIOUS
<1> HIDE DEF s
<1>1. CASE s.tag = "Request"
  <2>1. cont' = [cont EXCEPT ![a] = s.cont] /\ status' = status /\ outcome' = outcome
    BY <1>0, <1>1 DEF Answer
  <2>2. Good(s.cont, acked', published') /\ (m => s.cont.mayHaveSent)
        /\ (s.cont.phase = "Acknowledge" => s.cont.pending[s.cont.current] \in sent')
    BY <1>0, <1>1 DEF Follows
  <2>3. s.cont \in DeliveryContinuations
    BY <2>2 DEF Good, Steady
  <2>4. cont'[a] = s.cont /\ \A b \in Actors \ {a} : cont'[b] = cont[b]
    BY <2>1 DEF Shapes
  <2>5. cont' \in [Actors -> DeliveryContinuations]
    BY <2>1, <2>3 DEF Shapes
  <2>6. outcome'[a].tag = "None"
    BY <2>1 DEF NoOutcome
  <2>7. carried'[a] = handed => RunKnows(cont[a], status[a], outcome[a], carried[a])'
    BY <2>1, <2>2, <2>4, <2>6 DEF RunKnows
  <2> QED
    BY <1>0, <1>1, <2>1, <2>4, <2>5, <2>7 DEF Shapes, Informed
<1>2. CASE s.tag # "Request"
  <2>1. /\ cont' = cont /\ status' = [status EXCEPT ![a] = "done"]
        /\ outcome' = [outcome EXCEPT ![a] = s.outcome]
    BY <1>0, <1>2 DEF Answer
  <2>2. /\ s.outcome \in DeliveryOutcomes
        /\ m => s.outcome.tag \notin {"Refused", "NotApplied"}
        /\ s.outcome.tag = "Ok" =>
             /\ s.outcome.value = Len(cont[a].pending)
             /\ \A i \in 1 .. Len(cont[a].pending) : cont[a].pending[i] \in acked'
    BY <1>0, <1>2 DEF Follows
  <2>3. /\ status'[a] = "done" /\ outcome'[a] = s.outcome
        /\ \A b \in Actors \ {a} : status'[b] = status[b] /\ outcome'[b] = outcome[b]
    BY <2>1 DEF Shapes
  <2>4. status' \in [Actors -> {"waiting", "done", "crashed"}] /\ DOMAIN outcome' = Actors
    BY <2>1 DEF Shapes
  <2>5. carried'[a] = handed => RunKnows(cont[a], status[a], outcome[a], carried[a])'
    BY <2>1, <2>2, <2>3 DEF RunKnows, Current
  <2> QED
    BY <2>1, <2>3, <2>4, <2>5 DEF Shapes, Informed
<1> QED
  BY <1>1, <1>2

\* A crash leaves the run where it is.
LEMMA CrashInforms ==
    ASSUME Shapes, NEW a \in Actors, status[a] = "waiting", outcome[a] = NoOutcome,
           Good(cont[a], acked', published'),
           cont[a].phase = "Acknowledge" => Current(a) \in sent',
           Crash(a), NEW handed \in BOOLEAN
    PROVE  Informed(a, handed) /\ cont'[a] = cont[a]
<1>1. cont' = cont /\ status' = [status EXCEPT ![a] = "crashed"] /\ outcome' = outcome
  BY DEF Crash
<1>2. status'[a] = "crashed" /\ \A b \in Actors \ {a} : status'[b] = status[b]
  BY <1>1 DEF Shapes
<1>3. status' \in [Actors -> {"waiting", "done", "crashed"}]
  BY <1>1 DEF Shapes
<1>4. outcome'[a].tag = "None"
  BY <1>1 DEF NoOutcome
<1>5. carried'[a] = handed => RunKnows(cont[a], status[a], outcome[a], carried[a])'
  BY <1>1, <1>2, <1>4 DEF RunKnows, Current
<1> QED
  BY <1>1, <1>2, <1>3, <1>5 DEF Shapes, Informed

-----------------------------------------------------------------------------
(* The transport queue. *)

\* The copies a queue q holds.
CopiesOf(q) == {copy \in Records \X (1 .. QueueRoom) : copy[2] <= q[copy[1]]}

\* A queue's copies can be counted.
LEMMA CopiesFinite ==
    ASSUME NEW q
    PROVE  IsFiniteSet(CopiesOf(q)) /\ Cardinality(CopiesOf(q)) \in Nat
<1>1. IsFiniteSet(Records) /\ IsFiniteSet(1 .. QueueRoom)
  BY FS_Interval, OutboxAssumption DEF Records
<1>2. IsFiniteSet(Records \X (1 .. QueueRoom))
  BY <1>1, FS_Product
<1>3. CopiesOf(q) \in SUBSET (Records \X (1 .. QueueRoom))
  BY DEF CopiesOf
<1>4. IsFiniteSet(CopiesOf(q))
  BY <1>2, <1>3, FS_Subset
<1> QED
  BY <1>4, FS_CardinalityType

\* A queue that holds one record up to its room has no room left.
LEMMA OneRecordFits ==
    ASSUME NEW q \in [Records -> 0 .. QueueRoom], NEW r \in Records,
           Cardinality(CopiesOf(q)) < QueueRoom
    PROVE  q[r] < QueueRoom
<1>0. QueueRoom \in Nat /\ q[r] \in 0 .. QueueRoom
  BY OutboxAssumption
<1> SUFFICES ASSUME q[r] = QueueRoom PROVE FALSE
  BY <1>0
<1> DEFINE f == [n \in 1 .. QueueRoom |-> <<r, n>>]
<1>1. \A n \in 1 .. QueueRoom : f[n] \in CopiesOf(q)
  BY <1>0 DEF CopiesOf
<1>2. \A n, k \in 1 .. QueueRoom : f[n] = f[k] => n = k
  OBVIOUS
<1>3. f \in Injection(1 .. QueueRoom, CopiesOf(q))
  BY <1>1, <1>2 DEF Injection, IsInjective
<1>4. Cardinality(1 .. QueueRoom) <= Cardinality(CopiesOf(q))
  BY <1>3, CopiesFinite, FS_Injection
<1>5. Cardinality(1 .. QueueRoom) = QueueRoom
  BY <1>0, FS_Interval
<1> QED
  BY <1>0, <1>4, <1>5, CopiesFinite

\* One more copy of r.
More(q, r) == [q EXCEPT ![r] = @ + 1]

\* It is one more copy in transit.
LEMMA OneMore ==
    ASSUME NEW q \in [Records -> 0 .. QueueRoom], NEW r \in Records,
           Cardinality(CopiesOf(q)) < QueueRoom
    PROVE  /\ More(q, r) \in [Records -> 0 .. QueueRoom]
           /\ Cardinality(CopiesOf(More(q, r))) = Cardinality(CopiesOf(q)) + 1
<1>0. QueueRoom \in Nat /\ q[r] \in 0 .. QueueRoom /\ q[r] < QueueRoom
  BY OutboxAssumption, OneRecordFits
<1>1. More(q, r) \in [Records -> 0 .. QueueRoom]
  BY <1>0 DEF More
<1> DEFINE x == <<r, q[r] + 1>>
<1>2. x \notin CopiesOf(q)
  BY <1>0 DEF CopiesOf
<1>3. CopiesOf(More(q, r)) = CopiesOf(q) \cup {x}
  <2>1. x \in CopiesOf(More(q, r))
    BY <1>0 DEF CopiesOf, More
  <2>2. ASSUME NEW y \in CopiesOf(q) PROVE y \in CopiesOf(More(q, r))
    BY <1>0 DEF CopiesOf, More
  <2>3. ASSUME NEW y \in CopiesOf(More(q, r)), y \notin CopiesOf(q) PROVE y = x
    <3>1. y[1] \in Records /\ y[2] \in 1 .. QueueRoom /\ y = <<y[1], y[2]>>
          /\ y[2] <= More(q, r)[y[1]] /\ ~(y[2] <= q[y[1]])
      BY <2>3 DEF CopiesOf
    <3>2. y[1] = r
      BY <3>1 DEF More
    <3>3. y[2] = q[r] + 1
      BY <1>0, <3>1, <3>2 DEF More
    <3> QED
      BY <3>1, <3>2, <3>3
  <2> QED
    BY <2>1, <2>2, <2>3
<1> HIDE DEF x
<1>4. Cardinality(CopiesOf(q) \cup {x}) = Cardinality(CopiesOf(q)) + 1
  BY <1>2, CopiesFinite, FS_AddElement
<1> QED
  BY <1>1, <1>3, <1>4

\* One copy of r less leaves no more copies than there were.
LEMMA OneLess ==
    ASSUME NEW q \in [Records -> 0 .. QueueRoom], NEW r \in Records, q[r] > 0,
           NEW p, p = [q EXCEPT ![r] = @ - 1]
    PROVE  /\ p \in [Records -> 0 .. QueueRoom]
           /\ Cardinality(CopiesOf(p)) <= Cardinality(CopiesOf(q))
<1>0. QueueRoom \in Nat /\ q[r] - 1 \in 0 .. QueueRoom
  BY OutboxAssumption
<1>1. p \in [Records -> 0 .. QueueRoom]
  BY <1>0
<1>2. \A s \in Records : p[s] <= q[s] /\ p[s] \in Nat /\ q[s] \in Nat
  BY <1>0, <1>1
<1>3. CopiesOf(p) \in SUBSET CopiesOf(q)
  <2> SUFFICES ASSUME NEW y \in CopiesOf(p) PROVE y \in CopiesOf(q)
    OBVIOUS
  <2>1. y \in Records \X (1 .. QueueRoom) /\ y[1] \in Records /\ y[2] \in 1 .. QueueRoom /\ y[2] <= p[y[1]]
    BY DEF CopiesOf
  <2>2. y[2] <= q[y[1]]
    BY <1>0, <1>2, <2>1
  <2> QED
    BY <2>1, <2>2 DEF CopiesOf
<1> QED
  BY <1>1, <1>3, CopiesFinite, FS_Subset

\* Handing over as many copies as there is room for keeps the world sound.
LEMMA CarryKeeps ==
    ASSUME Carried, NEW a, NEW r \in Records, NEW copies \in 0 .. 2, copies <= Room,
           Carry(a, r, copies), UNCHANGED <<published, acked, dedup, effects, tick>>
    PROVE  Carried' /\ sent \subseteq sent' /\ sent' \subseteq sent \cup {r}
           /\ (copies > 0 => r \in sent')
<1>0. /\ queue \in [Records -> 0 .. QueueRoom] /\ QueueRoom \in Nat
      /\ InTransit = Cardinality(CopiesOf(queue)) /\ InTransit \in Nat
      /\ copies <= QueueRoom - InTransit
      /\ InTransit' = Cardinality(CopiesOf(queue'))
  <2>1. InTransit = Cardinality(CopiesOf(queue)) /\ InTransit' = Cardinality(CopiesOf(queue'))
    BY DEF InTransit, Copies, CopiesOf
  <2> QED
    BY <2>1, CopiesFinite, OutboxAssumption DEF Carried, Room
<1>1. /\ queue' \in [Records -> 0 .. QueueRoom] /\ InTransit' <= QueueRoom
      /\ queue' = [queue EXCEPT ![r] = @ + copies]
  <2>1. queue' = [queue EXCEPT ![r] = @ + copies]
    BY DEF Carry
  <2>2. CASE copies = 0
    <3>1. queue' = queue
      BY <1>0, <2>1, <2>2
    <3> QED
      BY <1>0, <2>1, <2>2, <3>1
  <2>3. CASE copies = 1
    <3>1. queue' = More(queue, r)
      BY <2>1, <2>3 DEF More
    <3>2. Cardinality(CopiesOf(queue)) < QueueRoom
      BY <1>0, <2>3
    <3>3. /\ queue' \in [Records -> 0 .. QueueRoom]
          /\ Cardinality(CopiesOf(queue')) = Cardinality(CopiesOf(queue)) + 1
      BY <1>0, <3>1, <3>2, OneMore
    <3> QED
      BY <1>0, <2>1, <2>3, <3>3
  <2>4. CASE copies = 2
    <3> DEFINE q == More(queue, r)
    <3>1. Cardinality(CopiesOf(queue)) < QueueRoom
      BY <1>0, <2>4
    <3>2. q \in [Records -> 0 .. QueueRoom] /\ Cardinality(CopiesOf(q)) = Cardinality(CopiesOf(queue)) + 1
      BY <1>0, <3>1, OneMore
    <3>3. queue' = More(q, r)
      BY <1>0, <2>1, <2>4 DEF More
    <3> HIDE DEF q
    <3>4. Cardinality(CopiesOf(q)) < QueueRoom
      BY <1>0, <2>4, <3>2
    <3>5. /\ queue' \in [Records -> 0 .. QueueRoom]
          /\ Cardinality(CopiesOf(queue')) = Cardinality(CopiesOf(q)) + 1
      BY <3>2, <3>3, <3>4, OneMore
    <3> QED
      BY <1>0, <2>1, <2>4, <3>2, <3>5
  <2> QED
    BY <2>2, <2>3, <2>4
<1>2. sent' = IF copies > 0 THEN sent \cup {r} ELSE sent
  BY DEF Carry
<1>3. \A s \in sent' : queue'[s] > 0 \/ s \in dedup'
  <2>1. ASSUME NEW s \in Records PROVE queue'[s] >= queue[s] /\ queue[s] \in Nat
    BY <1>0, <1>1
  <2>2. ASSUME copies > 0 PROVE queue'[r] > 0
    BY <1>0, <1>1, <2>2
  <2>3. \A s \in sent : s \in Records /\ (queue[s] > 0 \/ s \in dedup)
    BY DEF Carried
  <2>4. \A s \in Records : queue'[s] \in Nat
    BY <1>0, <1>1
  <2>5. ASSUME NEW s \in sent PROVE queue'[s] > 0 \/ s \in dedup'
    BY <2>1, <2>3, <2>4
  <2> QED
    BY <1>2, <2>2, <2>5
<1> QED
  BY <1>1, <1>2, <1>3 DEF Carried

-----------------------------------------------------------------------------
(* Order and policies. *)

\* In front of the record a run works on, everything that must precede it is
\* acknowledged.
LEMMA InOrder ==
    ASSUME NEW c, NEW A, NEW P, Steady(c, A, P), Aimed(c), NEW earlier \in Records,
           earlier < c.pending[c.current],
           Isolate => Destination[earlier] = Destination[c.pending[c.current]]
    PROVE  earlier \in A
<1> DEFINE k == c.current
<1>1. k \in 1 .. Len(c.pending) /\ Destination[c.pending[k]] \notin c.blocked
  BY DEF Aimed
<1>2. c.pending \in Seq(Records)
  BY ContParts DEF Steady
<1>3. c.pending[k] \in Records
  BY <1>1, <1>2
<1>4. earlier \in 1 .. c.pending[k] - 1
  BY <1>3 DEF Records
<1>5. earlier \in A \/ \E j \in 1 .. k - 1 : c.pending[j] = earlier
  BY <1>1, <1>4 DEF Steady, Listed
<1>6. ASSUME NEW j \in 1 .. k - 1, c.pending[j] = earlier PROVE earlier \in A
  <2>1. earlier \in A \/ Destination[earlier] \in c.blocked
    BY <1>6 DEF Steady
  <2>2. CASE Isolate
    BY <1>1, <2>1, <2>2
  <2>3. CASE ~Isolate
    BY <2>1, <2>3 DEF Steady
  <2> QED
    BY <2>2, <2>3
<1> QED
  BY <1>5, <1>6

\* A stack allows a send or refuses it with a policy's code, and it allows it
\* exactly when no monitor has a veto.
LEMMA Rejections ==
    ASSUME NEW policies \in Seq(PolicyType), NEW m, NEW id, NEW destination
    PROVE  LET reject == Rejection(policies, m, id, destination)
               vetoes == Vetoes(policies, m, id, destination)
           IN  (vetoes = {} /\ reject = "Allow") \/ (vetoes # {} /\ reject \in PolicyCodes)
<1> DEFINE vetoes == Vetoes(policies, m, id, destination)
<1> DEFINE reject == Rejection(policies, m, id, destination)
<1>1. CASE vetoes = {}
  BY <1>1 DEF Rejection
<1>2. CASE vetoes # {}
  <2>1. vetoes \subseteq Nat
    BY DEF Vetoes
  <2>2. \E i \in vetoes : \A j \in vetoes : i <= j
    BY <1>2, <2>1, Least
  <2> DEFINE first == CHOOSE i \in vetoes : \A j \in vetoes : i <= j
  <2>3. first \in vetoes
    BY <2>2
  <2>4. reject = Verdict(policies[first], m[first], id, destination)
    BY <1>2 DEF Rejection
  <2> HIDE DEF first
  <2>5. Verdict(policies[first], m[first], id, destination) # "Allow"
    BY <2>3 DEF Vetoes
  <2>6. Verdict(policies[first], m[first], id, destination) \in {"Allow"} \cup PolicyCodes
    BY DEF Verdict, PolicyCodes
  <2> QED
    BY <1>2, <2>4, <2>5, <2>6
<1> QED
  BY <1>1, <1>2

\* The forwarded sends, with one more of r.
Forwards(f, r) == [f EXCEPT ![r] = IF @ = 0 THEN 1 ELSE 2]

\* A send that is allowed is reserved by every guard that counts it.
LEMMA ReserveKeeps ==
    ASSUME NEW policies \in Seq(PolicyType), NEW m, NEW f, Reserved(policies, m, f),
           NEW r \in Records, NEW destination, Vetoes(policies, m, r, destination) = {}
    PROVE  Reserved(policies, Reserve(policies, m, r, destination), Forwards(f, r))
<1> DEFINE w == Reserve(policies, m, r, destination)
<1> DEFINE g == Forwards(f, r)
<1>1. w = [i \in 1 .. Len(policies) |-> Proposed(policies[i], m[i], r)]
  BY DEF Reserve
<1>2. /\ m \in [1 .. Len(policies) -> Seq(Records)] /\ f \in [Records -> 0 .. 2]
  BY DEF Reserved
<1>3. g \in [Records -> 0 .. 2] /\ g[r] = (IF f[r] = 0 THEN 1 ELSE 2)
      /\ \A s \in Records \ {r} : g[s] = f[s]
  BY <1>2 DEF Forwards
<1> HIDE DEF g, w
<1>4. \A i \in 1 .. Len(policies) : w[i] \in Seq(Records)
  BY <1>1, <1>2 DEF Proposed
<1>5. w \in [1 .. Len(policies) -> Seq(Records)]
  BY <1>1, <1>4
<1>6. ASSUME NEW i \in 1 .. Len(policies), policies[i].kind = "AtMostOne"
      PROVE  /\ \A s \in Records : g[s] <= 1 /\ (g[s] = 1 <=> Reserves(w[i], s))
             /\ Len(w[i]) <= policies[i].capacity
  <2>1. m[i] \in Seq(Records) /\ policies[i].capacity \in Nat
    <3>1. policies[i] \in PolicyType
      OBVIOUS
    <3> QED
      BY <1>2, <3>1 DEF PolicyType
  <2>2. w[i] = Append(m[i], r)
    BY <1>1, <1>6 DEF Proposed
  <2>3. Verdict(policies[i], m[i], r, destination) = "Allow"
    BY DEF Vetoes
  <2>4. ~Reserves(m[i], r) /\ ~(Len(m[i]) >= policies[i].capacity)
    BY <1>6, <2>3 DEF Verdict
  <2>5. \A s \in Records : f[s] <= 1 /\ (f[s] = 1 <=> Reserves(m[i], s))
    BY <1>6 DEF Reserved
  <2>6. Len(w[i]) = Len(m[i]) + 1 /\ Len(m[i]) \in Nat /\ w[i][Len(m[i]) + 1] = r
        /\ \A k \in 1 .. Len(m[i]) : w[i][k] = m[i][k]
    BY <2>1, <2>2
  <2>7. Reserves(w[i], r) /\ \A s \in Records \ {r} : Reserves(w[i], s) <=> Reserves(m[i], s)
    <3>1. Len(w[i]) \in 1 .. Len(w[i]) /\ Len(w[i]) = Len(m[i]) + 1
      BY <2>6
    <3>2. Reserves(w[i], r)
      BY <2>6, <3>1 DEF Reserves
    <3>3. ASSUME NEW s \in Records \ {r}, NEW k \in 1 .. Len(w[i]), w[i][k] = s
          PROVE  k \in 1 .. Len(m[i]) /\ m[i][k] = s
      BY <2>6, <3>3
    <3>4. ASSUME NEW s \in Records \ {r}, NEW k \in 1 .. Len(m[i]), m[i][k] = s
          PROVE  k \in 1 .. Len(w[i]) /\ w[i][k] = s
      BY <2>6, <3>4
    <3> QED
      BY <3>2, <3>3, <3>4 DEF Reserves
  <2>8. f[r] = 0
    <3>1. f[r] \in 0 .. 2
      BY <1>2
    <3>2. f[r] <= 1 /\ f[r] # 1
      BY <2>4, <2>5
    <3> QED
      BY <3>1, <3>2
  <2>9. \A s \in Records : g[s] <= 1 /\ (g[s] = 1 <=> Reserves(w[i], s))
    BY <1>3, <2>5, <2>7, <2>8
  <2>10. Len(w[i]) <= policies[i].capacity
    BY <2>1, <2>4, <2>6
  <2> QED
    BY <2>9, <2>10
<1>7. Reserved(policies, w, g)
  BY <1>3, <1>5, <1>6 DEF Reserved
<1> QED
  BY <1>7 DEF w, g

-----------------------------------------------------------------------------
(* The steps of a deliverer. *)

\* Only the books of a may change.
BooksOf(a) ==
    /\ DOMAIN carried' = Actors /\ DOMAIN lastTry' = Actors
    /\ DOMAIN monitors' = Actors /\ DOMAIN forwards' = Actors
    /\ \A b \in Actors \ {a} :
         /\ carried'[b] = carried[b] /\ lastTry'[b] = lastTry[b]
         /\ monitors'[b] = monitors[b] /\ forwards'[b] = forwards[b]
    /\ incarnation' = incarnation

\* A step of a that keeps the world, what a knows and its books keeps it all.
LEMMA StepKeeps ==
    ASSUME IInv, NEW a \in Actors, Carried', OutboxOrder', Grows, BooksOf(a),
           Informed(a, carried'[a]),
           BacksOff(cont[a], lastTry[a], tick)',
           Reserved(Policies[a], monitors[a], forwards[a])'
    PROVE  IInv'
<1>1. Shapes'
  BY DEF IInv, Shapes, Informed, BooksOf
<1>2. Actor(a)'
  BY DEF IInv, Actor, Informed, BooksOf
<1>3. ASSUME NEW b \in Actors \ {a} PROVE Actor(b)'
  <2>1. Untouched(b)
    BY DEF Untouched, Informed, BooksOf
  <2> QED
    BY <2>1, OthersKeep DEF IInv
<1> QED
  BY <1>1, <1>2, <1>3 DEF IInv

\* The order of the outbox only depends on what was sent and acknowledged.
LEMMA OrderKept ==
    ASSUME OutboxOrder, acked \subseteq acked', sent' \subseteq sent
    PROVE  OutboxOrder'
BY DEF OutboxOrder

\* What a waiting run knows.
LEMMA WaitingKnows ==
    ASSUME IInv, NEW a \in Actors, status[a] = "waiting"
    PROVE  /\ Shapes /\ Carried /\ OutboxOrder /\ outcome[a] = NoOutcome
           /\ cont[a] \in DeliveryContinuations /\ Good(cont[a], acked, published)
           /\ cont[a].phase = "Acknowledge" => Current(a) \in sent
           /\ carried[a] \in BOOLEAN /\ (carried[a] => cont[a].mayHaveSent)
           /\ BacksOff(cont[a], lastTry[a], tick)
           /\ Reserved(Policies[a], monitors[a], forwards[a])
           /\ published \in Nat /\ published <= NumRecords /\ tick \in 0 .. Ticks
<1>1. RunKnows(cont[a], status[a], outcome[a], carried[a])
  BY DEF IInv, Actor
<1>2. /\ outcome[a] = NoOutcome /\ Good(cont[a], acked, published)
      /\ cont[a].phase = "Acknowledge" => Current(a) \in sent
      /\ carried[a] \in BOOLEAN /\ (carried[a] => cont[a].mayHaveSent)
  BY <1>1 DEF RunKnows, Current
<1>3. published \in 0 .. NumRecords /\ tick \in 0 .. Ticks
  BY DEF IInv, Carried
<1>4. cont[a] \in DeliveryContinuations
  BY DEF IInv, Shapes
<1> QED
  BY <1>2, <1>3, <1>4, OutboxAssumption DEF IInv, Actor

\* Books and world that stay as they are.
LEMMA Still ==
    ASSUME IInv, NEW a \in Actors, UNCHANGED <<published, acked, queue, dedup, effects, sent>>,
           tick' \in 0 .. Ticks, tick <= tick', UNCHANGED <<incarnation, monitors, history>>
    PROVE  /\ Carried' /\ OutboxOrder' /\ Grows /\ BooksOf(a) /\ carried'[a] = carried[a]
           /\ Reserved(Policies[a], monitors[a], forwards[a])'
<1>1. Carried'
  <2>1. InTransit' = InTransit
    BY DEF InTransit, Copies
  <2> QED
    BY <2>1 DEF IInv, Carried
<1>2. OutboxOrder'
  BY DEF IInv, OutboxOrder
<1>3. published \in Nat
  BY OutboxAssumption DEF IInv, Carried
<1>4. Grows
  BY <1>3 DEF Grows
<1>5. BooksOf(a) /\ carried'[a] = carried[a]
  BY DEF IInv, Shapes, BooksOf, history
<1>6. Reserved(Policies[a], monitors[a], forwards[a])'
  BY DEF IInv, Actor, Reserved, history
<1> QED
  BY <1>1, <1>2, <1>4, <1>5, <1>6

\* Reading.
LEMMA ReadKeeps ==
    ASSUME IInv, NEW a \in Actors, ReadStep(a)
    PROVE  IInv'
<1> DEFINE c == cont[a]
<1>0. status[a] = "waiting" /\ c.phase = "Read" /\ UNCHANGED <<world, incarnation, monitors, history>>
  BY DEF ReadStep, Waits
<1>1. /\ Shapes /\ outcome[a] = NoOutcome /\ Good(c, acked, published)
      /\ carried[a] \in BOOLEAN /\ (carried[a] => c.mayHaveSent)
      /\ BacksOff(c, lastTry[a], tick)
      /\ published \in Nat /\ published <= NumRecords /\ tick \in 0 .. Ticks
  BY <1>0, WaitingKnows
<1>2. /\ acked' = acked /\ published' = published /\ sent' = sent /\ tick' = tick
      /\ UNCHANGED <<published, acked, queue, dedup, effects, sent>>
      /\ lastTry' = lastTry /\ carried' = carried
  BY <1>0 DEF world, history
<1>3. /\ Carried' /\ OutboxOrder' /\ Grows /\ BooksOf(a) /\ carried'[a] = carried[a]
      /\ Reserved(Policies[a], monitors[a], forwards[a])'
  <2>1. tick' \in 0 .. Ticks /\ tick <= tick'
    BY <1>1, <1>2
  <2> QED
    BY <1>0, <1>2, <2>1, Still
<1>4. lastTry[a] = NotTried
  BY <1>0, <1>1 DEF BacksOff
<1>5. BacksOff(cont[a], lastTry[a], tick)'
  BY <1>2, <1>4 DEF BacksOff
<1>6. ASSUME NEW o, Answer(a, o),
             \/ \E list : /\ o = Ok(list) /\ Listed(list, acked, published)
                          /\ \A i \in 1 .. Len(list) : list[i] \notin acked
             \/ \E f \in Faults : o = NotApplied(f)
      PROVE  Informed(a, carried[a])
  <2> DEFINE s == ResumeDelivery(c, o)
  <2>1. s = ReadDone(c, o)
    BY <1>0 DEF ResumeDelivery
  <2>2. Follows(s, c.pending, c.mayHaveSent, acked, published)
        /\ (s.tag = "Request" => s.cont.phase \in {"Read", "Send"})
    BY <1>0, <1>1, <1>6, <2>1, ReadFollows
  <2>3. ~(s.tag = "Request" /\ s.cont.phase = "Acknowledge")
    BY <2>2
  <2>4. Good(c, acked', published') /\ Follows(s, c.pending, c.mayHaveSent, acked', published')
    BY <1>1, <1>2, <2>2
  <2> QED
    BY <1>0, <1>1, <1>6, <2>3, <2>4, AnswerInforms
<1>7. Informed(a, carried[a])
  <2>1. ASSUME NEW list \in Pending, Answer(a, Ok(list)) PROVE Informed(a, carried[a])
    BY <1>1, <1>6, <2>1, PendingListed
  <2>2. CASE FailBefore(a)
    BY <1>6, <2>2 DEF FailBefore
  <2>3. CASE Crash(a)
    BY <1>0, <1>1, <1>2, <2>3, CrashInforms
  <2> QED
    BY <2>1, <2>2, <2>3 DEF ReadStep
<1> QED
  BY <1>3, <1>5, <1>7, StepKeeps

\* A step of the backoff: the clock may go on, the rest of the world stays.
\* The answer o must be one the program accepts soundly, with the tick it
\* waits for in the next phase.
LEMMA BackoffKeeps ==
    ASSUME IInv, NEW a \in Actors, status[a] = "waiting", cont[a].phase # "Acknowledge",
           UNCHANGED <<published, acked, queue, dedup, effects, sent>>,
           UNCHANGED <<incarnation, monitors, history>>,
           tick' \in 0 .. Ticks, tick <= tick', NEW o, Answer(a, o),
           Follows(ResumeDelivery(cont[a], o), cont[a].pending, cont[a].mayHaveSent,
                   acked, published),
           ResumeDelivery(cont[a], o).tag = "Request" =>
             /\ ResumeDelivery(cont[a], o).cont.phase # "Acknowledge"
             /\ BacksOff(ResumeDelivery(cont[a], o).cont, lastTry[a], tick')
    PROVE  IInv'
<1> DEFINE c == cont[a]
<1> DEFINE s == ResumeDelivery(c, o)
<1>1. /\ Shapes /\ outcome[a] = NoOutcome /\ Good(c, acked, published)
      /\ carried[a] \in BOOLEAN /\ (carried[a] => c.mayHaveSent)
      /\ BacksOff(c, lastTry[a], tick) /\ tick \in 0 .. Ticks
  BY WaitingKnows
<1>2. acked' = acked /\ published' = published /\ lastTry' = lastTry
  BY DEF history
<1>3. /\ Carried' /\ OutboxOrder' /\ Grows /\ BooksOf(a) /\ carried'[a] = carried[a]
      /\ Reserved(Policies[a], monitors[a], forwards[a])'
  BY Still
<1>4. Good(c, acked', published') /\ Follows(s, c.pending, c.mayHaveSent, acked', published')
      /\ ~(s.tag = "Request" /\ s.cont.phase = "Acknowledge")
  BY <1>1, <1>2
<1>5. Informed(a, carried[a]) /\ ((s.tag = "Request" /\ cont'[a] = s.cont) \/ cont'[a] = cont[a])
  BY <1>1, <1>4, AnswerInforms
<1>6. BacksOff(c, lastTry[a], tick')
  <2>1. tick \in Nat /\ tick' \in Nat
    BY <1>1, OutboxAssumption, DeliveryAssumption
  <2> QED
    BY <1>1, <2>1, DeliveryAssumption DEF BacksOff
<1>7. BacksOff(cont'[a], lastTry[a], tick')
  BY <1>5, <1>6
<1>8. BacksOff(cont[a], lastTry[a], tick)'
  BY <1>2, <1>7
<1> QED
  BY <1>3, <1>5, <1>8, StepKeeps

\* Reading the clock.
LEMMA ClockKeeps ==
    ASSUME IInv, NEW a \in Actors, ClockStep(a)
    PROVE  IInv'
<1> DEFINE c == cont[a]
<1>0. /\ status[a] = "waiting" /\ c.phase = "Clock"
      /\ UNCHANGED <<published, acked, queue, dedup, effects, sent>>
      /\ UNCHANGED <<incarnation, monitors, history>>
  BY DEF ClockStep, Waits
<1>1. Good(c, acked, published) /\ BacksOff(c, lastTry[a], tick) /\ tick \in 0 .. Ticks
  BY <1>0, WaitingKnows
<1>2. Ticks \in Nat
  BY OutboxAssumption, DeliveryAssumption
<1>3. ASSUME NEW o, Answer(a, o), tick' \in 0 .. Ticks, tick <= tick',
             o = Ok(tick') \/ \E f \in Faults : o = NotApplied(f)
      PROVE  IInv'
  <2> DEFINE s == ResumeDelivery(c, o)
  <2>1. s = ClockRead(c, o)
    BY <1>0 DEF ResumeDelivery
  <2>2. (\E t \in 0 .. Ticks : o = Ok(t)) \/ \E f \in Faults : o = NotApplied(f)
    BY <1>3
  <2>3. /\ Follows(s, c.pending, c.mayHaveSent, acked, published)
        /\ s.tag = "Request" => s.cont.phase = "Jitter" /\ o.tag = "Ok" /\ s.cont.tick = o.value
    BY <1>0, <1>1, <2>1, <2>2, ClockFollows
  <2>4. o.tag = "Ok" => o.value = tick'
    BY <1>3 DEF Ok, NotApplied
  <2> HIDE DEF s
  <2>5. s.tag = "Request" => s.cont.phase # "Acknowledge" /\ BacksOff(s.cont, lastTry[a], tick')
    BY <1>1, <1>2, <1>3, <2>3, <2>4 DEF BacksOff
  <2>6. s = ResumeDelivery(c, o)
    BY DEF s
  <2> QED
    BY <1>0, <1>3, <2>3, <2>5, <2>6, BackoffKeeps
<1>4. ASSUME NEW t \in tick .. Ticks, tick' = t, Answer(a, Ok(t)) PROVE IInv'
  <2>1. tick' \in 0 .. Ticks /\ tick <= tick'
    BY <1>1, <1>2, <1>4
  <2> QED
    BY <1>3, <1>4, <2>1
<1>5. ASSUME tick' = tick, NEW f \in Faults, Answer(a, NotApplied(f)) PROVE IInv'
  <2>1. tick' \in 0 .. Ticks /\ tick <= tick'
    BY <1>1, <1>2, <1>5
  <2> QED
    BY <1>3, <1>5, <2>1
<1> QED
  BY <1>4, <1>5 DEF ClockStep, FailBefore

\* Drawing the jitter.
LEMMA JitterKeeps ==
    ASSUME IInv, NEW a \in Actors, JitterStep(a)
    PROVE  IInv'
<1> DEFINE c == cont[a]
<1>0. /\ status[a] = "waiting" /\ c.phase = "Jitter"
      /\ UNCHANGED <<published, acked, queue, dedup, effects, sent>> /\ tick' = tick
      /\ UNCHANGED <<incarnation, monitors, history>>
  BY DEF JitterStep, Waits, world
<1>1. Good(c, acked, published) /\ BacksOff(c, lastTry[a], tick) /\ tick \in 0 .. Ticks
      /\ c \in DeliveryContinuations
  BY <1>0, WaitingKnows
<1>2. tick' \in 0 .. Ticks /\ tick <= tick' /\ tick \in Nat
  BY <1>0, <1>1, OutboxAssumption, DeliveryAssumption
<1>3. ASSUME NEW o, Answer(a, o),
             (\E t \in 0 .. Jitter - 1 : o = Ok(t)) \/ \E f \in Faults : o = NotApplied(f)
      PROVE  IInv'
  <2> DEFINE s == ResumeDelivery(c, o)
  <2>1. s = JitterDrawn(c, o)
    BY <1>0 DEF ResumeDelivery
  <2>2. /\ Follows(s, c.pending, c.mayHaveSent, acked, published)
        /\ s.tag = "Request" => s.cont.phase = "Wait" /\ s.cont.tick >= c.tick + Backoff
    BY <1>0, <1>1, <1>3, <2>1, JitterFollows
  <2>3. s.tag = "Request" => s.cont \in DeliveryContinuations
    BY <2>2 DEF Follows, Good, Steady
  <2> HIDE DEF s
  <2>4. s.tag = "Request" => s.cont.tick \in Nat
    BY <2>3, ContParts
  <2>5. c.tick \in Nat
    BY <1>1, ContParts
  <2>6. s.tag = "Request" => s.cont.phase # "Acknowledge" /\ BacksOff(s.cont, lastTry[a], tick')
    BY <1>0, <1>1, <1>2, <2>2, <2>4, <2>5, DeliveryAssumption DEF BacksOff
  <2>7. s = ResumeDelivery(c, o)
    BY DEF s
  <2> QED
    BY <1>0, <1>2, <1>3, <2>2, <2>6, <2>7, BackoffKeeps
<1> QED
  BY <1>3 DEF JitterStep, FailBefore

\* Waking up.
LEMMA WaitKeeps ==
    ASSUME IInv, NEW a \in Actors, WaitStep(a)
    PROVE  IInv'
<1> DEFINE c == cont[a]
<1>0. /\ status[a] = "waiting" /\ c.phase = "Wait"
      /\ UNCHANGED <<published, acked, queue, dedup, effects, sent>>
      /\ UNCHANGED <<incarnation, monitors, history>>
  BY DEF WaitStep, Waits
<1>1. Good(c, acked, published) /\ BacksOff(c, lastTry[a], tick) /\ tick \in 0 .. Ticks
      /\ c \in DeliveryContinuations
  BY <1>0, WaitingKnows
<1>2. Ticks \in Nat /\ c.tick \in Nat
  BY <1>1, ContParts, OutboxAssumption, DeliveryAssumption
<1>3. ASSUME NEW o, Answer(a, o), tick' \in 0 .. Ticks, tick <= tick',
             \/ o = Ok(tick')
             \/ o = [tag |-> "Interrupted"]
             \/ \E f \in Faults : o = NotApplied(f)
      PROVE  IInv'
  <2> DEFINE s == ResumeDelivery(c, o)
  <2>1. s = Woke(c, o)
    BY <1>0 DEF ResumeDelivery
  <2>2. \/ \E t \in Nat : o = Ok(t)
        \/ o = [tag |-> "Interrupted"]
        \/ \E f \in Faults : o = NotApplied(f)
    BY <1>2, <1>3
  <2>3. /\ Follows(s, c.pending, c.mayHaveSent, acked, published)
        /\ s.tag = "Request" => s.cont.phase = "Send" /\ o.tag = "Ok" /\ o.value >= c.tick
    BY <1>0, <1>1, <2>1, <2>2, WaitFollows
  <2>4. o.tag = "Ok" => o.value = tick'
    BY <1>3 DEF Ok, NotApplied
  <2> HIDE DEF s
  <2>5. s.tag = "Request" => s.cont.phase # "Acknowledge" /\ BacksOff(s.cont, lastTry[a], tick')
    BY <1>0, <1>1, <1>2, <1>3, <2>3, <2>4, DeliveryAssumption DEF BacksOff
  <2>6. s = ResumeDelivery(c, o)
    BY DEF s
  <2> QED
    BY <1>0, <1>3, <2>3, <2>5, <2>6, BackoffKeeps
<1>4. ASSUME NEW t \in tick .. Ticks, tick' = t, Answer(a, Ok(t)) PROVE IInv'
  <2>1. tick' \in 0 .. Ticks /\ tick <= tick'
    BY <1>1, <1>2, <1>4
  <2> QED
    BY <1>3, <1>4, <2>1
<1>5. tick' = tick => tick' \in 0 .. Ticks /\ tick <= tick'
  BY <1>1, <1>2
<1>6. ASSUME tick' = tick, Answer(a, [tag |-> "Interrupted"]) PROVE IInv'
  BY <1>3, <1>5, <1>6
<1>7. ASSUME tick' = tick, NEW f \in Faults, Answer(a, NotApplied(f)) PROVE IInv'
  BY <1>3, <1>5, <1>7
<1> QED
  BY <1>4, <1>6, <1>7 DEF WaitStep, FailBefore

\* Acknowledging: the record in hand was sent.
LEMMA AcknowledgeKeeps ==
    ASSUME IInv, NEW a \in Actors, AcknowledgeStep(a)
    PROVE  IInv'
<1> DEFINE c == cont[a]
<1> DEFINE r == c.pending[c.current]
<1>0. /\ status[a] = "waiting" /\ c.phase = "Acknowledge"
      /\ lastTry' = [lastTry EXCEPT ![a] = NotTried]
      /\ UNCHANGED <<published, queue, dedup, effects, sent, tick>>
      /\ UNCHANGED <<incarnation, monitors, carried, forwards>>
  BY DEF AcknowledgeStep, Waits
<1>1. /\ Shapes /\ Carried /\ OutboxOrder /\ outcome[a] = NoOutcome /\ Good(c, acked, published)
      /\ r \in sent /\ carried[a] \in BOOLEAN /\ (carried[a] => c.mayHaveSent)
      /\ Reserved(Policies[a], monitors[a], forwards[a]) /\ published \in Nat /\ tick \in 0 .. Ticks
  BY <1>0, WaitingKnows DEF Current
<1>2. r \in 1 .. published
  <2>1. Steady(c, acked, published) /\ Aimed(c)
    BY <1>0, <1>1 DEF Good
  <2>2. Listed(c.pending, acked, published) /\ c.current \in 1 .. Len(c.pending)
    BY <2>1 DEF Steady, Aimed
  <2>3. c.pending \in Seq(1 .. published)
    BY <2>2 DEF Listed
  <2> QED
    BY <2>2, <2>3, ElementOfSeq
<1>3. ASSUME acked' \in {acked, acked \cup {r}}
      PROVE  /\ Carried' /\ OutboxOrder' /\ Grows /\ Good(c, acked', published')
  <2>1. InTransit' = InTransit
    BY <1>0 DEF InTransit, Copies
  <2>2. acked \subseteq acked' /\ acked' \subseteq acked \cup {r}
    BY <1>3
  <2>3. Carried'
    BY <1>0, <1>1, <1>2, <2>1, <2>2 DEF Carried
  <2>4. OutboxOrder'
    BY <1>0, <1>1, <2>2, OrderKept
  <2>5. tick \in Nat
    BY <1>1, OutboxAssumption, DeliveryAssumption
  <2>6. Grows
    BY <1>0, <1>1, <2>2, <2>5 DEF Grows
  <2>7. Good(c, acked', published')
    BY <1>0, <1>1, <2>2, GoodMonotone
  <2> QED
    BY <2>3, <2>4, <2>6, <2>7
<1>4. /\ BooksOf(a) /\ carried'[a] = carried[a]
      /\ Reserved(Policies[a], monitors[a], forwards[a])'
      /\ BacksOff(cont[a], lastTry[a], tick)'
  <2>1. BooksOf(a) /\ carried'[a] = carried[a] /\ lastTry'[a] = NotTried
    BY <1>0, <1>1 DEF Shapes, BooksOf
  <2>2. Reserved(Policies[a], monitors[a], forwards[a])'
    BY <1>0, <1>1 DEF Reserved
  <2>3. BacksOff(cont[a], lastTry[a], tick)'
    BY <2>1 DEF BacksOff, NotTried
  <2> QED
    BY <2>1, <2>2, <2>3
<1>5. Current(a) = r /\ r \in sent'
  BY <1>0, <1>1 DEF Current
<1>6. ASSUME acked' \in {acked, acked \cup {r}}, NEW o, Answer(a, o),
             \/ o \in {Ok("acknowledged"), Refused("AlreadyAcknowledged")} /\ r \in acked'
             \/ \E f \in Faults : o \in {NotApplied(f), Unknown(f)}
      PROVE  IInv'
  <2> DEFINE s == ResumeDelivery(c, o)
  <2>1. s = AcknowledgeDone(c, o)
    BY <1>0 DEF ResumeDelivery
  <2>2. Carried' /\ OutboxOrder' /\ Grows /\ Good(c, acked', published')
    BY <1>3, <1>6
  <2>3. /\ Follows(s, c.pending, c.mayHaveSent, acked', published')
        /\ s.tag = "Request" =>
             /\ s.cont.phase \in {"Send", "Acknowledge"}
             /\ s.cont.phase = "Acknowledge" => SameRun(c, s.cont)
    BY <1>0, <1>6, <2>1, <2>2, AcknowledgeFollows
  <2>4. s.tag = "Request" /\ s.cont.phase = "Acknowledge" => s.cont.pending[s.cont.current] \in sent'
    BY <1>5, <2>3 DEF SameRun
  <2>5. Informed(a, carried[a])
    BY <1>0, <1>1, <1>5, <1>6, <2>2, <2>3, <2>4, AnswerInforms
  <2> QED
    BY <1>4, <2>2, <2>5, StepKeeps
<1>7. ASSUME acked' \in {acked, acked \cup {r}}, Crash(a) PROVE IInv'
  <2>1. Carried' /\ OutboxOrder' /\ Grows /\ Good(c, acked', published')
    BY <1>3, <1>7
  <2>2. Informed(a, carried[a])
    BY <1>0, <1>1, <1>5, <1>7, <2>1, CrashInforms
  <2> QED
    BY <1>4, <2>1, <2>2, StepKeeps
<1>8. "Io" \in Faults
  BY DEF Faults
<1>9. ASSUME acked' \in {acked, acked \cup {r}}, FailBefore(a) PROVE IInv'
  BY <1>6, <1>9 DEF FailBefore
<1>10. CASE r \in acked
  <2>1. acked' = acked
        /\ (Answer(a, Refused("AlreadyAcknowledged")) \/ FailBefore(a) \/ Crash(a))
    BY <1>5, <1>10 DEF AcknowledgeStep
  <2>2. ASSUME Answer(a, Refused("AlreadyAcknowledged")) PROVE IInv'
    BY <1>6, <1>10, <2>1, <2>2
  <2> QED
    BY <1>7, <1>9, <2>1, <2>2
<1>11. CASE r \notin acked
  <2>1. \/ acked' = acked \cup {r} /\ Answer(a, Ok("acknowledged"))
        \/ acked' = acked /\ FailBefore(a)
        \/ acked' \in {acked, acked \cup {r}} /\ Answer(a, Unknown("Io"))
        \/ acked' \in {acked, acked \cup {r}} /\ Crash(a)
    BY <1>5, <1>11 DEF AcknowledgeStep
  <2>2. ASSUME acked' = acked \cup {r}, Answer(a, Ok("acknowledged")) PROVE IInv'
    BY <1>6, <2>2
  <2>3. ASSUME acked' \in {acked, acked \cup {r}}, Answer(a, Unknown("Io")) PROVE IInv'
    BY <1>6, <1>8, <2>3
  <2> QED
    BY <1>7, <1>9, <2>1, <2>2, <2>3
<1> QED
  BY <1>10, <1>11

\* An answer to a send of r that is true of the copies handed over: none was
\* unless it says so or leaves it open, and one was if it reports r.
Fits(o, r, copies) ==
    /\ o \in SendAnswers
    /\ copies > 0 => o.tag \in {"Sent", "Unknown"}
    /\ o.tag = "Sent" /\ o.report = r => copies > 0

\* The transport carries up to two copies, within its room, and answers, or
\* the deliverer crashes.
LEMMA TransportCases ==
    ASSUME Carried, NEW a, NEW r \in Records, Transport(a, r)
    PROVE  \E copies \in 0 .. 2 :
             /\ copies <= Room /\ Carry(a, r, copies)
             /\ Crash(a) \/ \E o : Fits(o, r, copies) /\ Answer(a, o)
<1>1. Room \in Int /\ 0 <= Room
  <2>1. InTransit = Cardinality(CopiesOf(queue))
    BY DEF InTransit, Copies, CopiesOf
  <2> QED
    BY <2>1, CopiesFinite, OutboxAssumption DEF Carried, Room
<1>2. r # 0 /\ r \in Nat
  BY DEF Records
<1>3. \A n \in 1 .. 2 : Fits(Sent(r), r, n)
  <2>1. Sent(r) \in SendAnswers /\ Sent(r).tag = "Sent"
    BY <1>2 DEF SendAnswers, Sent
  <2> QED
    BY <2>1 DEF Fits
<1>4. \A n \in 0 .. 1 : Fits(Sent(0), r, n)
  <2>1. Sent(0) \in SendAnswers /\ Sent(0).tag = "Sent" /\ Sent(0).report = 0
    BY DEF SendAnswers, Sent
  <2> QED
    BY <1>2, <2>1 DEF Fits
<1>5. Fits(NotSent, r, 0)
  <2>1. NotSent \in SendAnswers /\ NotSent.tag = "NotSent"
    BY DEF SendAnswers, NotSent
  <2> QED
    BY <2>1 DEF Fits
<1>6. \A n \in 0 .. 1 : Fits(Unknown("Io"), r, n)
  <2>1. Unknown("Io") \in SendAnswers /\ Unknown("Io").tag = "Unknown"
    BY DEF SendAnswers, Unknown
  <2> QED
    BY <2>1 DEF Fits
<1> DEFINE Goal(n) == /\ n <= Room /\ Carry(a, r, n)
                      /\ Crash(a) \/ \E o : Fits(o, r, n) /\ Answer(a, o)
<1> SUFFICES \E copies \in 0 .. 2 : Goal(copies)
  OBVIOUS
<1>7. CASE Room = 0
  <2>1. Carry(a, r, 0) /\ (Answer(a, NotSent) \/ Crash(a))
    BY <1>7 DEF Transport
  <2>2. Goal(0)
    BY <1>1, <1>5, <2>1
  <2> QED
    BY <2>2
<1>8. CASE Room # 0
  <2>0. 0 <= Room /\ 1 <= Room
    BY <1>1, <1>8
  <2>1. ASSUME Carry(a, r, 1), Answer(a, Sent(r)) PROVE Goal(1)
    BY <1>3, <2>0, <2>1
  <2>2. ASSUME Carry(a, r, 0), Answer(a, NotSent) PROVE Goal(0)
    BY <1>5, <2>0, <2>2
  <2>3. ASSUME NEW n \in 0 .. 1, Carry(a, r, n), Answer(a, Unknown("Io")) PROVE Goal(n)
    BY <1>1, <1>6, <2>0, <2>3
  <2>4. ASSUME NEW n \in 0 .. 1, Carry(a, r, n), Crash(a) PROVE Goal(n)
    BY <1>1, <2>0, <2>4
  <2>5. ASSUME Room >= 2, Carry(a, r, 2), Answer(a, Sent(r)) PROVE Goal(2)
    BY <1>1, <1>3, <2>5
  <2>6. ASSUME NEW n \in 0 .. 1, Carry(a, r, n), Answer(a, Sent(0)) PROVE Goal(n)
    BY <1>1, <1>4, <2>0, <2>6
  <2>7. 0 \in 0 .. 2 /\ 1 \in 0 .. 2 /\ 2 \in 0 .. 2 /\ \A n \in 0 .. 1 : n \in 0 .. 2
    OBVIOUS
  <2> HIDE DEF Goal
  <2> QED
    BY <1>8, <2>1, <2>2, <2>3, <2>4, <2>5, <2>6, <2>7 DEF Transport
<1> QED
  BY <1>7, <1>8

\* What a send leaves behind.
LEMMA SendInforms ==
    ASSUME IInv, NEW a \in Actors, status[a] = "waiting", cont[a].phase = "Send",
           UNCHANGED <<published, acked>>, sent \subseteq sent',
           NEW copies \in Nat, copies > 0 => Current(a) \in sent',
           Crash(a) \/ \E o : Fits(o, Current(a), copies) /\ Answer(a, o)
    PROVE  Informed(a, carried[a] \/ copies > 0)
<1> DEFINE c == cont[a]
<1> DEFINE handed == carried[a] \/ copies > 0
<1>1. /\ Shapes /\ outcome[a] = NoOutcome /\ Good(c, acked, published)
      /\ carried[a] \in BOOLEAN /\ (carried[a] => c.mayHaveSent)
  BY WaitingKnows
<1>2. handed \in BOOLEAN /\ Good(c, acked', published')
  BY <1>1
<1>3. CASE Crash(a)
  <2> HIDE DEF handed
  <2>1. Informed(a, handed)
    BY <1>1, <1>2, <1>3, CrashInforms
  <2> QED
    BY <2>1 DEF handed
<1>4. ASSUME NEW o, Fits(o, Current(a), copies), Answer(a, o) PROVE Informed(a, handed)
  <2> DEFINE s == ResumeDelivery(c, o)
  <2> DEFINE m == c.mayHaveSent \/ o.tag \in {"Sent", "Unknown"}
  <2>1. s = SentOne(c, o)
    BY DEF ResumeDelivery
  <2>2. /\ Follows(s, c.pending, m, acked, published)
        /\ s.tag = "Request" =>
             /\ s.cont.phase \in {"Send", "Acknowledge", "Clock"}
             /\ s.cont.phase = "Acknowledge" =>
                  o.tag = "Sent" /\ o.report = c.pending[c.current] /\ SameRun(c, s.cont)
    BY <1>1, <1>4, <2>1, SendFollows DEF Fits
  <2>3. handed => m
    BY <1>1, <1>4 DEF Fits
  <2>4. s.tag = "Request" /\ s.cont.phase = "Acknowledge" => s.cont.pending[s.cont.current] \in sent'
    BY <1>4, <2>2 DEF Fits, SameRun, Current
  <2>5. Follows(s, c.pending, m, acked', published')
    BY <2>2
  <2> HIDE DEF handed, m
  <2> QED
    BY <1>1, <1>2, <1>4, <2>3, <2>4, <2>5, AnswerInforms
<1> QED
  BY <1>3, <1>4

\* Sending: everything that must precede the record is acknowledged, and what
\* the guards reserve is what they forward.
LEMMA SendKeeps ==
    ASSUME IInv, NEW a \in Actors, SendStep(a)
    PROVE  IInv'
<1> DEFINE c == cont[a]
<1> DEFINE r == Current(a)
<1> DEFINE d == Destination[r]
<1> DEFINE w == Reserve(Policies[a], monitors[a], r, d)
<1>0. /\ status[a] = "waiting" /\ c.phase = "Send"
      /\ monitors' = [monitors EXCEPT ![a] = w]
      /\ lastTry' = [lastTry EXCEPT ![a] = IF cont'[a].phase = "Clock" THEN tick ELSE NotTried]
      /\ UNCHANGED <<published, acked, dedup, effects, tick, incarnation>>
  BY DEF SendStep, Waits, Shapes, IInv
<1>1. /\ Shapes /\ Carried /\ OutboxOrder /\ Good(c, acked, published)
      /\ carried[a] \in BOOLEAN
      /\ Reserved(Policies[a], monitors[a], forwards[a]) /\ published \in Nat /\ tick \in 0 .. Ticks
      /\ c \in DeliveryContinuations
  BY <1>0, WaitingKnows
<1>2. tick \in Nat
  BY <1>1, OutboxAssumption, DeliveryAssumption
<1>3. Steady(c, acked, published) /\ Aimed(c)
  BY <1>0, <1>1 DEF Good
<1>4. r \in Records
  <2>1. c.pending \in Seq(Records) /\ c.current \in 1 .. Len(c.pending)
    BY <1>1, <1>3, ContParts DEF Aimed
  <2> QED
    BY <2>1, ElementOfSeq DEF Current
<1>5. Policies[a] \in Seq(PolicyType)
  BY OutboxAssumption
<1>6. ASSUME sent' \subseteq sent \cup {r} PROVE OutboxOrder'
  <2> SUFFICES ASSUME NEW earlier \in Records, NEW later \in Records, earlier < later,
                      Isolate => Destination[earlier] = Destination[later], later \in sent'
               PROVE  earlier \in acked
    BY <1>0 DEF OutboxOrder
  <2>1. CASE later \in sent
    BY <1>1, <2>1 DEF OutboxOrder
  <2>2. CASE later = r
    BY <1>3, <2>2, InOrder DEF Current
  <2> QED
    BY <1>6, <2>1, <2>2
<1>7. lastTry'[a] = (IF cont'[a].phase = "Clock" THEN tick ELSE NotTried) /\ monitors'[a] = w
      /\ DOMAIN lastTry' = Actors /\ DOMAIN monitors' = Actors
      /\ \A b \in Actors \ {a} : lastTry'[b] = lastTry[b] /\ monitors'[b] = monitors[b]
  BY <1>0, <1>1 DEF Shapes
<1>8. BacksOff(cont[a], lastTry[a], tick)'
  <2>1. CASE cont'[a].phase = "Clock"
    <3>1. lastTry'[a] = tick' /\ tick' \in Nat
      BY <1>0, <1>2, <1>7, <2>1
    <3> QED
      BY <2>1, <3>1 DEF BacksOff
  <2>2. CASE cont'[a].phase # "Clock"
    BY <1>7, <2>2 DEF BacksOff, NotTried
  <2> QED
    BY <2>1, <2>2
<1> HIDE DEF w, d
<1>9. CASE Rejection(Policies[a], monitors[a], r, d) = "Allow"
  <2>1. forwards' = [forwards EXCEPT ![a][r] = IF @ = 0 THEN 1 ELSE 2] /\ Transport(a, r)
    BY <1>9 DEF SendStep, Forward, d
  <2>2. PICK copies \in 0 .. 2 :
          /\ copies <= Room /\ Carry(a, r, copies)
          /\ Crash(a) \/ \E o : Fits(o, r, copies) /\ Answer(a, o)
    BY <1>1, <1>4, <2>1, TransportCases
  <2>3. /\ Carried' /\ sent \subseteq sent' /\ sent' \subseteq sent \cup {r}
        /\ copies > 0 => r \in sent'
    BY <1>0, <1>1, <1>4, <2>2, CarryKeeps
  <2>4. copies \in Nat /\ copies \in Int
    OBVIOUS
  <2>5. Informed(a, carried[a] \/ copies > 0)
    BY <1>0, <2>2, <2>3, <2>4, SendInforms
  <2>6. /\ carried'[a] = (carried[a] \/ copies > 0) /\ DOMAIN carried' = Actors
        /\ \A b \in Actors \ {a} : carried'[b] = carried[b]
    BY <1>1, <2>2 DEF Carry, Shapes
  <2>7. /\ forwards'[a] = Forwards(forwards[a], r) /\ DOMAIN forwards' = Actors
        /\ \A b \in Actors \ {a} : forwards'[b] = forwards[b]
    BY <1>1, <2>1 DEF Shapes, Forwards
  <2>8. Vetoes(Policies[a], monitors[a], r, d) = {}
    BY <1>5, <1>9, Rejections DEF PolicyCodes
  <2>9. Reserved(Policies[a], w, Forwards(forwards[a], r))
    BY <1>1, <1>4, <1>5, <2>8, ReserveKeeps DEF w
  <2>10. Reserved(Policies[a], monitors[a], forwards[a])'
    BY <1>7, <2>7, <2>9 DEF Reserved
  <2>11. Grows
    BY <1>0, <1>1, <1>2, <2>3 DEF Grows
  <2>12. BooksOf(a)
    BY <1>0, <1>7, <2>6, <2>7 DEF BooksOf
  <2>13. OutboxOrder'
    BY <1>6, <2>3
  <2>14. Informed(a, carried'[a])
    BY <2>5, <2>6
  <2> QED
    BY <1>8, <2>3, <2>10, <2>11, <2>12, <2>13, <2>14, StepKeeps
<1>10. CASE Rejection(Policies[a], monitors[a], r, d) # "Allow"
  <2> DEFINE o == Refused(Rejection(Policies[a], monitors[a], r, d))
  <2>1. Answer(a, o) /\ UNCHANGED <<queue, sent, carried, forwards>>
    BY <1>10 DEF SendStep, d
  <2>2. /\ Vetoes(Policies[a], monitors[a], r, d) # {}
        /\ Rejection(Policies[a], monitors[a], r, d) \in PolicyCodes
    BY <1>5, <1>10, Rejections
  <2>3. w = monitors[a]
    BY <2>2 DEF w, Reserve
  <2>4. Fits(o, r, 0)
    <3>1. o \in SendAnswers
      BY <2>2 DEF SendAnswers
    <3>2. o.tag = "Refused"
      BY DEF Refused
    <3> HIDE DEF o
    <3> QED
      BY <3>1, <3>2 DEF Fits
  <2> HIDE DEF o
  <2>5. Informed(a, carried[a] \/ 0 > 0)
    BY <1>0, <2>1, <2>4, SendInforms
  <2>6. Informed(a, carried'[a])
    <3>1. (carried[a] \/ 0 > 0) = carried'[a]
      BY <1>1, <2>1
    <3> QED
      BY <2>5, <3>1
  <2>7. Carried'
    <3>1. InTransit' = InTransit
      BY <2>1 DEF InTransit, Copies
    <3> QED
      BY <1>0, <1>1, <2>1, <3>1 DEF Carried
  <2>8. OutboxOrder'
    BY <1>6, <2>1
  <2>9. Grows
    BY <1>0, <1>1, <1>2, <2>1 DEF Grows
  <2>10. BooksOf(a)
    BY <1>0, <1>1, <1>7, <2>1 DEF BooksOf, Shapes
  <2>11. Reserved(Policies[a], monitors[a], forwards[a])'
    BY <1>1, <1>7, <2>1, <2>3 DEF Reserved
  <2> QED
    BY <1>8, <2>6, <2>7, <2>8, <2>9, <2>10, <2>11, StepKeeps
<1> QED
  BY <1>9, <1>10

-----------------------------------------------------------------------------
(* Restarts, the receiver and other callers. *)

\* A run that starts knows all it has to.
LEMMA StartGood ==
    ASSUME NEW A, NEW P
    PROVE  /\ StartDelivery \in DeliveryContinuations /\ Good(StartDelivery, A, P)
           /\ StartDelivery.phase = "Read"
<1> DEFINE c == StartDelivery
<1>1. /\ c.phase = "Read" /\ c.pending = << >> /\ c.blocked = {} /\ c.failed = NoOutcome
      /\ c.current = 1 /\ c.acknowledged = 0
  BY DEF StartDelivery
<1>2. c \in DeliveryContinuations
  <2>1. 0 \in 0 .. MaxOrdinal /\ Retries \in 0 .. Retries /\ 0 \in 0 .. MaxTick
    BY DeliveryAssumption
  <2>2. << >> \in Seq(Records)
    OBVIOUS
  <2> QED
    BY <2>1, <2>2 DEF StartDelivery, DeliveryContinuations
<1>3. c.failed.tag # "Ok"
  BY <1>1 DEF NoOutcome
<1> HIDE DEF c
<1>4. Len(c.pending) = 0
  BY <1>1
<1>5. Listed(c.pending, A, P)
  BY <1>1, <1>4 DEF Listed
<1>6. Steady(c, A, P)
  BY <1>1, <1>2, <1>3, <1>4, <1>5 DEF Steady
<1>7. Good(c, A, P)
  BY <1>1, <1>6 DEF Good
<1> QED
  BY <1>1, <1>2, <1>7 DEF c

\* A restart.
LEMMA RestartKeeps ==
    ASSUME IInv, NEW a \in Actors, Restart(a)
    PROVE  IInv'
<1>1. /\ status[a] = "crashed" /\ incarnation[a] < Restarts[a]
      /\ incarnation' = [incarnation EXCEPT ![a] = @ + 1]
      /\ cont' = [cont EXCEPT ![a] = StartDelivery]
      /\ status' = [status EXCEPT ![a] = "waiting"]
      /\ carried' = [carried EXCEPT ![a] = FALSE]
      /\ lastTry' = [lastTry EXCEPT ![a] = NotTried]
      /\ UNCHANGED <<published, acked, queue, dedup, effects, sent, tick>>
      /\ outcome' = outcome /\ monitors' = monitors /\ forwards' = forwards
  BY DEF Restart, world
<1>2. /\ StartDelivery \in DeliveryContinuations /\ Good(StartDelivery, acked', published')
      /\ StartDelivery.phase = "Read"
  BY StartGood
<1>3. Shapes'
  BY <1>1, <1>2 DEF IInv, Shapes
<1>4. /\ cont'[a] = StartDelivery /\ status'[a] = "waiting" /\ carried'[a] = FALSE
      /\ lastTry'[a] = NotTried /\ incarnation'[a] = incarnation[a] + 1
      /\ \A b \in Actors \ {a} : Untouched(b)
  BY <1>1 DEF IInv, Shapes, Untouched
<1>5. Carried' /\ OutboxOrder' /\ Grows
  <2>1. InTransit' = InTransit
    BY <1>1 DEF InTransit, Copies
  <2>2. Carried' /\ published \in Nat /\ tick \in Nat
    BY <1>1, <2>1, OutboxAssumption, DeliveryAssumption DEF IInv, Carried
  <2>3. OutboxOrder'
    BY <1>1 DEF IInv, OutboxOrder
  <2> QED
    BY <1>1, <2>2, <2>3 DEF Grows
<1>6. Actor(a)'
  <2>1. outcome[a] = NoOutcome
    BY <1>1 DEF IInv, Actor, RunKnows
  <2>2. outcome'[a] = NoOutcome /\ outcome'[a].tag = "None"
    BY <1>1, <2>1 DEF NoOutcome
  <2>3. RunKnows(cont[a], status[a], outcome[a], carried[a])'
    BY <1>2, <1>4, <2>2 DEF RunKnows
  <2>4. BacksOff(cont[a], lastTry[a], tick)'
    BY <1>4 DEF BacksOff, NotTried
  <2>5. Reserved(Policies[a], monitors[a], forwards[a])'
    BY <1>1 DEF IInv, Actor, Reserved
  <2>6. incarnation'[a] \in 0 .. Restarts[a]
    <3>1. incarnation[a] \in 0 .. Restarts[a] /\ Restarts[a] \in Nat
      BY OutboxAssumption DEF IInv, Actor
    <3> QED
      BY <1>1, <1>4, <3>1
  <2> QED
    BY <2>3, <2>4, <2>5, <2>6 DEF Actor
<1>7. ASSUME NEW b \in Actors \ {a} PROVE Actor(b)'
  BY <1>4, <1>5, OthersKeep DEF IInv
<1> QED
  BY <1>3, <1>5, <1>6, <1>7 DEF IInv

\* A step of the world alone.
LEMMA WorldKeeps ==
    ASSUME IInv, Carried', OutboxOrder', Grows, UNCHANGED <<run, incarnation, monitors, history>>
    PROVE  IInv'
<1>1. \A b \in Actors : Untouched(b)
  BY DEF Untouched, run, history
<1>2. Shapes'
  BY DEF IInv, Shapes, run, history
<1>3. \A b \in Actors : Actor(b)'
  BY <1>1, OthersKeep DEF IInv
<1> QED
  BY <1>2, <1>3 DEF IInv

\* A copy arrives at the receiver.
LEMMA ReceiveKeeps ==
    ASSUME IInv, NEW r \in Records, Receive(r)
    PROVE  IInv'
<1>1. /\ queue[r] > 0 /\ queue' = [queue EXCEPT ![r] = @ - 1] /\ dedup' = dedup \cup {r}
      /\ effects' = IF r \in dedup THEN effects ELSE [effects EXCEPT ![r] = @ + 1]
      /\ UNCHANGED <<published, acked, sent, tick, run, incarnation, monitors, history>>
  BY DEF Receive
<1>2. Carried
  BY DEF IInv
<1>3. queue' \in [Records -> 0 .. QueueRoom] /\ InTransit' <= QueueRoom
  <2>1. /\ InTransit = Cardinality(CopiesOf(queue)) /\ InTransit' = Cardinality(CopiesOf(queue'))
    BY DEF InTransit, Copies, CopiesOf
  <2>2. queue \in [Records -> 0 .. QueueRoom] /\ InTransit <= QueueRoom
    BY <1>2 DEF Carried
  <2>3. queue' \in [Records -> 0 .. QueueRoom]
        /\ Cardinality(CopiesOf(queue')) <= Cardinality(CopiesOf(queue))
    BY <1>1, <2>2, OneLess
  <2>4. Cardinality(CopiesOf(queue')) \in Nat /\ Cardinality(CopiesOf(queue)) \in Nat
    BY CopiesFinite
  <2> QED
    BY <2>1, <2>2, <2>3, <2>4, OutboxAssumption
<1>4. effects' = [s \in Records |-> IF s \in dedup' THEN 1 ELSE 0]
  <2>1. effects = [s \in Records |-> IF s \in dedup THEN 1 ELSE 0]
    BY <1>2 DEF Carried
  <2>2. CASE r \in dedup
    BY <1>1, <2>1, <2>2
  <2>3. CASE r \notin dedup
    <3>1. effects' = [effects EXCEPT ![r] = @ + 1] /\ effects[r] = 0
      BY <1>1, <2>1, <2>3
    <3> QED
      BY <1>1, <2>1, <3>1
  <2> QED
    BY <2>2, <2>3
<1>5. \A s \in sent' : queue'[s] > 0 \/ s \in dedup'
  <2>1. \A s \in sent : s \in Records /\ (queue[s] > 0 \/ s \in dedup)
    BY <1>2 DEF Carried
  <2>2. \A s \in Records \ {r} : queue'[s] = queue[s]
    BY <1>1, <1>2 DEF Carried
  <2> QED
    BY <1>1, <2>1, <2>2
<1>6. Carried'
  BY <1>1, <1>2, <1>3, <1>4, <1>5 DEF Carried
<1>7. OutboxOrder' /\ Grows
  <2>1. published \in Nat /\ tick \in Nat
    BY <1>2, OutboxAssumption, DeliveryAssumption DEF Carried
  <2> QED
    BY <1>1, <2>1 DEF IInv, OutboxOrder, Grows
<1> QED
  BY <1>1, <1>6, <1>7, WorldKeeps

\* Another caller commits.
LEMMA PublishKeeps ==
    ASSUME IInv, Publish
    PROVE  IInv'
<1>1. PICK end \in CommitEnds : end > published /\ published' = end
  BY DEF Publish
<1>2. /\ UNCHANGED <<acked, queue, dedup, effects, sent, tick>>
      /\ UNCHANGED <<run, incarnation, monitors, history>>
  BY DEF Publish
<1>3. Carried
  BY DEF IInv
<1>4. published \in Nat /\ tick \in Nat /\ end \in 1 .. NumRecords
  BY <1>3, OutboxAssumption, DeliveryAssumption DEF Carried, Records
<1>5. InTransit' = InTransit
  BY <1>2 DEF InTransit, Copies
<1>6. Carried'
  BY <1>1, <1>2, <1>3, <1>4, <1>5 DEF Carried
<1>7. OutboxOrder' /\ Grows
  BY <1>1, <1>2, <1>4 DEF IInv, OutboxOrder, Grows
<1> QED
  BY <1>2, <1>6, <1>7, WorldKeeps

\* No step at all.
LEMMA StutterKeeps ==
    ASSUME IInv, UNCHANGED vars
    PROVE  IInv'
<1>1. UNCHANGED <<published, acked, queue, dedup, effects, sent, tick>>
      /\ UNCHANGED <<run, incarnation, monitors, history>>
  BY DEF vars, world
<1>2. published \in Nat /\ tick \in Nat
  BY OutboxAssumption, DeliveryAssumption DEF IInv, Carried
<1>3. InTransit' = InTransit
  BY <1>1 DEF InTransit, Copies
<1>4. Carried' /\ OutboxOrder' /\ Grows
  BY <1>1, <1>2, <1>3 DEF IInv, Carried, OutboxOrder, Grows
<1> QED
  BY <1>1, <1>4, WorldKeeps

-----------------------------------------------------------------------------
(* The theorems. *)

\* The invariant holds at the start.
LEMMA InitKeeps ==
    ASSUME Init
    PROVE  IInv
<1>1. Carried
  <2>1. queue = [r \in Records |-> 0] /\ queue \in [Records -> 0 .. QueueRoom]
    BY OutboxAssumption DEF Init
  <2>2. CopiesOf(queue) = {}
    <3>1. \A y \in CopiesOf(queue) : y[1] \in Records /\ y[2] \in 1 .. QueueRoom /\ y[2] <= queue[y[1]]
      BY DEF CopiesOf
    <3>2. \A y \in CopiesOf(queue) : FALSE
      BY <2>1, <3>1
    <3> QED
      BY <3>2
  <2>3. InTransit = Cardinality(CopiesOf(queue))
    BY DEF InTransit, Copies, CopiesOf
  <2>4. InTransit = 0
    BY <2>2, <2>3, FS_EmptySet
  <2>5. published \in 0 .. NumRecords /\ tick \in 0 .. Ticks
    BY OutboxAssumption, DeliveryAssumption DEF Init
  <2> QED
    BY <2>1, <2>4, <2>5, OutboxAssumption DEF Init, Carried
<1>2. OutboxOrder
  BY DEF Init, OutboxOrder
<1>3. /\ StartDelivery \in DeliveryContinuations /\ Good(StartDelivery, acked, published)
      /\ StartDelivery.phase = "Read"
  BY StartGood
<1>4. Shapes
  BY <1>3 DEF Init, Shapes
<1>5. ASSUME NEW a \in Actors PROVE Actor(a)
  <2>1. /\ cont[a] = StartDelivery /\ status[a] = "waiting" /\ outcome[a] = NoOutcome
        /\ carried[a] = FALSE /\ lastTry[a] = NotTried /\ incarnation[a] = 0
        /\ monitors[a] = NoReservations(Policies[a]) /\ forwards[a] = [r \in Records |-> 0]
    BY DEF Init
  <2>2. outcome[a].tag = "None"
    BY <2>1 DEF NoOutcome
  <2>3. RunKnows(cont[a], status[a], outcome[a], carried[a])
    BY <1>3, <2>1, <2>2 DEF RunKnows
  <2>4. BacksOff(cont[a], lastTry[a], tick)
    BY <2>1 DEF BacksOff
  <2>5. Reserved(Policies[a], monitors[a], forwards[a])
    <3>1. Policies[a] \in Seq(PolicyType) /\ Len(Policies[a]) \in Nat
      BY OutboxAssumption
    <3>2. monitors[a] = [i \in 1 .. Len(Policies[a]) |-> << >>]
      BY <2>1 DEF NoReservations
    <3>3. /\ monitors[a] \in [1 .. Len(Policies[a]) -> Seq(Records)]
          /\ forwards[a] \in [Records -> 0 .. 2]
          /\ \A r \in Records : forwards[a][r] = 0
      BY <2>1, <3>2
    <3>4. ASSUME NEW i \in 1 .. Len(Policies[a])
          PROVE  /\ Policies[a][i].capacity \in Nat /\ Len(monitors[a][i]) = 0
                 /\ \A r : ~Reserves(monitors[a][i], r)
      <4>1. Policies[a][i] \in PolicyType
        BY <3>1, ElementOfSeq
      <4>2. Len(monitors[a][i]) = 0
        BY <3>2
      <4> QED
        BY <4>1, <4>2 DEF PolicyType, Reserves
    <3>5. ASSUME NEW i \in 1 .. Len(Policies[a])
          PROVE  /\ \A r \in Records :
                      forwards[a][r] <= 1 /\ (forwards[a][r] = 1 <=> Reserves(monitors[a][i], r))
                 /\ Len(monitors[a][i]) <= Policies[a][i].capacity
      <4>1. /\ Policies[a][i].capacity \in Nat /\ Len(monitors[a][i]) = 0
            /\ \A r : ~Reserves(monitors[a][i], r)
        BY <3>4
      <4>2. \A r \in Records : forwards[a][r] = 0
        BY <3>3
      <4>3. Len(monitors[a][i]) <= Policies[a][i].capacity
        BY <4>1
      <4>4. \A r \in Records :
              forwards[a][r] <= 1 /\ (forwards[a][r] = 1 <=> Reserves(monitors[a][i], r))
        BY <4>1, <4>2
      <4> QED
        BY <4>3, <4>4
    <3> QED
      BY <3>3, <3>5 DEF Reserved
  <2>6. incarnation[a] \in 0 .. Restarts[a]
    BY <2>1, OutboxAssumption
  <2> QED
    BY <2>3, <2>4, <2>5, <2>6 DEF Actor
<1> QED
  BY <1>1, <1>2, <1>4, <1>5 DEF IInv

\* Every step keeps it.
LEMMA NextKeeps ==
    ASSUME IInv, [Next]_vars
    PROVE  IInv'
<1>1. ASSUME NEW a \in Actors, Step(a) PROVE IInv'
  BY <1>1, ReadKeeps, SendKeeps, AcknowledgeKeeps, ClockKeeps, JitterKeeps, WaitKeeps DEF Step
<1>2. ASSUME NEW a \in Actors, Restart(a) PROVE IInv'
  BY <1>2, RestartKeeps
<1>3. ASSUME NEW r \in Records, Receive(r) PROVE IInv'
  BY <1>3, ReceiveKeeps
<1>4. CASE Publish
  BY <1>4, PublishKeeps
<1>5. CASE UNCHANGED vars
  BY <1>5, StutterKeeps
<1> QED
  BY <1>1, <1>2, <1>3, <1>4, <1>5 DEF Next, Finished

\* The inductive invariant holds in every reachable state.
THEOREM DeliveryInvariant == Spec => []IInv
<1>1. Init => IInv
  BY InitKeeps
<1>2. IInv /\ [Next]_vars => IInv'
  BY NextKeeps
<1> QED
  BY <1>1, <1>2, PTL DEF Spec

\* Budgets never go below zero, the transport queue never above its room, and
\* a run that sends or acknowledges has a record in hand (DeliveryProgram::
\* resume, World.carry).
THEOREM DeliveryTyped == Spec => []TypeOK
<1>1. IInv => TypeOK
  <2> SUFFICES ASSUME IInv PROVE TypeOK
    OBVIOUS
  <2>1. /\ published \in 0 .. NumRecords /\ acked \subseteq 1 .. published
        /\ sent \subseteq Records /\ dedup \subseteq Records
        /\ queue \in [Records -> 0 .. QueueRoom] /\ InTransit <= QueueRoom
        /\ tick \in 0 .. Ticks
    BY DEF IInv, Carried
  <2>2. effects \in [Records -> Nat]
    BY DEF IInv, Carried
  <2>3. /\ cont \in [Actors -> DeliveryContinuations]
        /\ status \in [Actors -> {"waiting", "done", "crashed"}]
    BY DEF IInv, Shapes
  <2>4. ASSUME NEW a \in Actors
        PROVE  outcome[a] \in IF status[a] = "done" THEN DeliveryOutcomes ELSE {NoOutcome}
    BY DEF IInv, Actor, RunKnows
  <2>5. ASSUME NEW a \in Actors, Waits(a, "Send") \/ Waits(a, "Acknowledge")
        PROVE  cont[a].current \in 1 .. Len(cont[a].pending)
    <3>1. cont[a].phase # "Read"
      BY <2>5 DEF Waits
    <3>2. Good(cont[a], acked, published)
      BY DEF IInv, Actor, RunKnows
    <3> QED
      BY <3>1, <3>2 DEF Good, Aimed
  <2>6. ASSUME NEW a \in Actors
        PROVE  /\ incarnation[a] \in 0 .. Restarts[a]
               /\ monitors[a] \in [1 .. Len(Policies[a]) -> Seq(Records)]
    BY DEF IInv, Actor, Reserved
  <2> QED
    BY <2>1, <2>2, <2>3, <2>4, <2>5, <2>6 DEF TypeOK
<1> QED
  BY <1>1, DeliveryInvariant, PTL

\* However often a record is sent, resent, duplicated or left behind by a
\* crash, it takes effect at most once, and an acknowledged one is in transit
\* or took effect (Simulation::receive, World.deduplicated).
THEOREM NoRecordLost == Spec => []AckedTakesEffectOnce
<1>1. IInv => AckedTakesEffectOnce
  <2> SUFFICES ASSUME IInv, NEW r \in Records
               PROVE  effects[r] <= 1 /\ (r \in acked => queue[r] > 0 \/ effects[r] = 1)
    BY DEF AckedTakesEffectOnce
  <2>1. effects[r] = IF r \in dedup THEN 1 ELSE 0
    BY DEF IInv, Carried
  <2>2. r \in acked => queue[r] > 0 \/ r \in dedup
    BY DEF IInv, Carried
  <2> QED
    BY <2>1, <2>2
<1> QED
  BY <1>1, DeliveryInvariant, PTL

\* A run that reports Refused or NotApplied handed nothing to the transport
\* (DeliveryProgram::done turns a later failure into Unknown).
THEOREM OutcomesHonest == Spec => []HonestOutcome
<1>1. IInv => HonestOutcome
  BY DEF IInv, Actor, RunKnows, HonestOutcome
<1> QED
  BY <1>1, DeliveryInvariant, PTL

\* A run that reports success acknowledged everything it read: no blocked
\* destination and no skipped record hides behind the count.
THEOREM SuccessIsComplete == Spec => []OkMeansAllAcked
<1>1. IInv => OkMeansAllAcked
  BY DEF IInv, Actor, RunKnows, OkMeansAllAcked
<1> QED
  BY <1>1, DeliveryInvariant, PTL

\* Head-of-line order: with any number of deliverers, restarts and commits, no
\* record is handed over before every earlier one of its destination (of any
\* destination, without isolation) is acknowledged.
THEOREM SentInOrder == Spec => []OutboxOrder
<1>1. IInv => OutboxOrder
  BY DEF IInv
<1> QED
  BY <1>1, DeliveryInvariant, PTL

\* A failed send is repeated only after the backoff has passed on the clock,
\* whatever the jitter and the wake-ups are.
THEOREM RetriesBackOff == Spec => []BackoffRespected
<1>1. IInv => BackoffRespected
  <2> SUFFICES ASSUME IInv, NEW a \in Actors, Waits(a, "Send"), lastTry[a] # NotTried
               PROVE  tick - lastTry[a] >= Backoff
    BY DEF BackoffRespected
  <2> QED
    BY DEF IInv, Actor, BacksOff, Waits
<1> QED
  BY <1>1, DeliveryInvariant, PTL

\* Under AtMostOne a stack forwards no record twice, the reservations are the
\* forwarded sends, and they stay within the capacity (Stack::handle).
THEOREM GuardedSends == Spec => []ForwardedOnce
<1>1. IInv => ForwardedOnce
  <2> SUFFICES ASSUME IInv, NEW a \in Actors, NEW i \in 1 .. Len(Policies[a]),
                      Policies[a][i].kind = "AtMostOne"
               PROVE  /\ \A r \in Records :
                           forwards[a][r] <= 1 /\ (forwards[a][r] = 1 <=> r \in Held(a, i))
                      /\ Len(monitors[a][i]) <= Policies[a][i].capacity
    BY DEF ForwardedOnce
  <2>1. Reserved(Policies[a], monitors[a], forwards[a])
    BY DEF IInv, Actor
  <2>2. \A r : r \in Held(a, i) <=> Reserves(monitors[a][i], r)
    BY DEF Held, Reserves
  <2> QED
    BY <2>1, <2>2 DEF Reserved
<1> QED
  BY <1>1, DeliveryInvariant, PTL

=============================================================================
