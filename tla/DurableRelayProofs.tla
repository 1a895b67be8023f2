------------------------- MODULE DurableRelayProofs -------------------------
(***************************************************************************)
(* Proofs about DurableRelay, for any number of relays, deliveries and     *)
(* policies: no delivery is given to the transport twice, every checkpoint *)
(* can be restored, and a reservation is only given up by its release.     *)
(***************************************************************************)
EXTENDS DurableRelay, SequenceTheorems, TLAPS

\* A relay whose reservation is written and whose send is not over.
Engaged == {"call", "called", "release"}

\* A relay that holds the only right to invoke the transport for its delivery.
Claiming == {"call", "release"}

\* The logs hold no key twice and none past the capacity.
Sound(logs) ==
    \A i \in 1 .. Len(Policies) :
        IF i \in Guards THEN Len(logs[i]) <= Policies[i].capacity /\ Distinct(logs[i])
        ELSE logs[i] = << >>

Types ==
    /\ row \in Checkpoints
    /\ relay \in [Relays -> RelayType]
    /\ \A r \in Relays : relay[r].sending \in Ids <=> relay[r].at \in Sending
    /\ invoked \in [Ids -> Nat]

\* What a relay knows: between sends, its monitors are what its checkpoint
\* restores; during a send, what they were with the send's key appended.
Knows(s) ==
    /\ s.at \in {"ready", "reserve"} =>
         s.monitors = Restored(s.stored) /\ Sound(s.monitors)
    /\ s.at = "reserve" =>
         Vetoes(Policies, s.monitors, s.sending, Destination[s.sending]) = {}
    /\ s.at \in Engaged =>
         /\ s.stored = Checkpoint(s.monitors, None)
         /\ s.monitors = [i \in 1 .. Len(Policies) |->
                             Proposed(Policies[i], s.previous[i], s.sending)]
         /\ Sound(s.monitors) /\ Sound(s.previous)

\* Every guard of the row still holds the key after a restart.
Held(checkpoint, id) == \A i \in Guards : Reserves(Restored(checkpoint)[i], id)

IInv ==
    /\ Types
    /\ Restorable(row)
    /\ \A r \in Relays : Knows(relay[r])
    /\ \A id \in Ids : invoked[id] <= 1 /\ (invoked[id] # 0 => Held(row, id))
    /\ \A r \in Relays : relay[r].at \in Claiming => Held(row, relay[r].sending)
    /\ \A r \in Relays : relay[r].at \in Claiming => invoked[relay[r].sending] = 0
    /\ \A r, s \in Relays :
         relay[r].at \in Claiming /\ relay[s].at \in Claiming
           /\ relay[r].sending = relay[s].sending => r = s

-----------------------------------------------------------------------------
(* Logs. *)

\* Appending a key reserves that key and no other.
LEMMA AppendReserves ==
    ASSUME NEW s \in Seq(Ids), NEW x \in Ids, NEW y \in Ids
    PROVE  Reserves(Append(s, x), y) <=> Reserves(s, y) \/ x = y
BY DEF Reserves

\* Dropping the last key undoes an append.
LEMMA DropAppended ==
    ASSUME NEW s \in Seq(Ids), NEW x \in Ids
    PROVE  SubSeq(Append(s, x), 1, Len(Append(s, x)) - 1) = s
OBVIOUS

\* A key that is not reserved can be appended to a log without repetition.
LEMMA AppendDistinct ==
    ASSUME NEW s \in Seq(Ids), NEW x \in Ids, Distinct(s), ~Reserves(s, x)
    PROVE  Distinct(Append(s, x))
BY DEF Distinct, Reserves

\* Dropping the last key of a log leaves a log, no longer and without repetition.
LEMMA DropLast ==
    ASSUME NEW s \in Seq(Ids), s # << >>
    PROVE  /\ SubSeq(s, 1, Len(s) - 1) \in Seq(Ids)
           /\ Len(SubSeq(s, 1, Len(s) - 1)) = Len(s) - 1
           /\ Distinct(s) => Distinct(SubSeq(s, 1, Len(s) - 1))
<1> DEFINE n == Len(s) - 1
           d == SubSeq(s, 1, n)
<1>1. n \in Nat /\ Len(s) = n + 1 /\ \A i \in 1 .. n : s[i] \in Ids
  OBVIOUS
<1> HIDE DEF n
<1>2. d \in Seq(Ids)
  BY <1>1, SubSeqProperties, SMT
<1>3. Len(d) = n /\ \A i \in 1 .. n : d[i] = s[i]
  <2>1. Len(d) = n
    BY <1>1
  <2>2. \A i \in 1 .. n : d[i] = s[i]
    BY <1>1
  <2> QED
    BY <2>1, <2>2
<1>4. Distinct(s) => Distinct(d)
  BY <1>1, <1>3 DEF Distinct
<1> QED
  BY <1>2, <1>3, <1>4 DEF n

-----------------------------------------------------------------------------
(* Checkpoints. *)

\* The guards are among the policies, and there is one.
LEMMA GuardTypes ==
    /\ Len(Policies) \in Nat
    /\ Guards \subseteq 1 .. Len(Policies)
    /\ \A i \in 1 .. Len(Policies) : Policies[i].capacity \in Nat
    /\ \E i \in Guards : TRUE
<1> DEFINE Kinds == [kind: {"AtMostOne", "Allowlist"}, capacity: Nat, recipients: SUBSET STRING]
<1>1. Policies \in Seq(Kinds) /\ Guards # {}
  BY RelayAssumption
<1> HIDE DEF Kinds
<1>2. Len(Policies) \in Nat /\ \A i \in 1 .. Len(Policies) : Policies[i] \in Kinds
  BY <1>1
<1>3. \A i \in 1 .. Len(Policies) : Policies[i].capacity \in Nat
  BY <1>2 DEF Kinds
<1> QED
  BY <1>1, <1>2, <1>3 DEF Guards

\* The empty logs are sound and their checkpoint restores to them.
LEMMA EmptyLogs ==
    /\ Initial \in Checkpoints /\ Initial.logs \in Logs
    /\ Restorable(Initial)
BY GuardTypes DEF Initial, Checkpoint, Checkpoints, NoReservations, Logs, Restorable, Distinct

\* Without a release, a checkpoint restores to its logs.
LEMMA RestoredReservation ==
    ASSUME NEW logs \in Logs
    PROVE  Restored(Checkpoint(logs, None)) = logs
BY DEF Restored, Checkpoint, Logs

\* The logs with a key proposed to every guard.
Propose(logs, id) == [i \in 1 .. Len(Policies) |-> Proposed(Policies[i], logs[i], id)]

\* A proposal changes the guards' logs only.
LEMMA ProposeTypes ==
    ASSUME NEW logs \in Logs, NEW id \in Ids
    PROVE  /\ Propose(logs, id) \in Logs
           /\ \A i \in Guards : Propose(logs, id)[i] = Append(logs[i], id)
           /\ \A i \in (1 .. Len(Policies)) \ Guards : Propose(logs, id)[i] = logs[i]
BY GuardTypes DEF Propose, Proposed, Guards, Logs

\* A release restores what was there before the proposal.
LEMMA RestoredRelease ==
    ASSUME NEW logs \in Logs, NEW id \in Ids
    PROVE  Restored(Checkpoint(Propose(logs, id), id)) = logs
<1>1. \A i \in Guards : SubSeq(Append(logs[i], id), 1, Len(Append(logs[i], id)) - 1) = logs[i]
  BY DropAppended, GuardTypes DEF Logs
<1>2. id # None
  BY RelayAssumption
<1> QED
  BY <1>1, <1>2, ProposeTypes DEF Restored, Checkpoint, Logs

\* What restore() returns is sound.
LEMMA RestoredSound ==
    ASSUME NEW c \in Checkpoints, Restorable(c)
    PROVE  Restored(c) \in Logs /\ Sound(Restored(c))
<1> SUFFICES ASSUME NEW i \in 1 .. Len(Policies)
             PROVE  /\ Restored(c)[i] \in Seq(Ids)
                    /\ IF i \in Guards
                       THEN Len(Restored(c)[i]) <= Policies[i].capacity /\ Distinct(Restored(c)[i])
                       ELSE Restored(c)[i] = << >>
  BY DEF Restored, Logs, Sound
<1>1. c.logs[i] \in Seq(Ids) /\ Policies[i].capacity \in Nat
  BY GuardTypes DEF Checkpoints, Logs
<1>2. CASE i \in Guards /\ c.release # None
  <2>1. c.logs[i] # << >> /\ Len(c.logs[i]) <= Policies[i].capacity /\ Distinct(c.logs[i])
    BY <1>2 DEF Restorable
  <2>2. Restored(c)[i] = SubSeq(c.logs[i], 1, Len(c.logs[i]) - 1)
    BY <1>2 DEF Restored
  <2>3. Len(c.logs[i]) \in Nat
    BY <1>1
  <2> QED
    BY <1>1, <1>2, <2>1, <2>2, <2>3, DropLast
<1>3. CASE ~(i \in Guards /\ c.release # None)
  <2>1. Restored(c)[i] = c.logs[i]
    BY <1>3 DEF Restored
  <2> QED
    BY <1>1, <2>1 DEF Restorable
<1> QED
  BY <1>2, <1>3

\* No veto: every guard has room and does not hold the key.
LEMMA NoVeto ==
    ASSUME NEW logs \in Logs, NEW id \in Ids,
           Vetoes(Policies, logs, id, Destination[id]) = {}
    PROVE  /\ \A i \in Guards : ~Reserves(logs[i], id) /\ Len(logs[i]) < Policies[i].capacity
           /\ Reserve(Policies, logs, id, Destination[id]) = Propose(logs, id)
<1>1. \A i \in 1 .. Len(Policies) : Verdict(Policies[i], logs[i], id, Destination[id]) = "Allow"
  BY DEF Vetoes
<1>2. ASSUME NEW i \in Guards
      PROVE  ~Reserves(logs[i], id) /\ Len(logs[i]) < Policies[i].capacity
  <2>1. Policies[i].kind = "AtMostOne" /\ i \in 1 .. Len(Policies)
    BY DEF Guards
  <2>2. ~Reserves(logs[i], id) /\ ~(Len(logs[i]) >= Policies[i].capacity)
    BY <1>1, <2>1 DEF Verdict
  <2>3. Len(logs[i]) \in Nat /\ Policies[i].capacity \in Nat
    BY <2>1, GuardTypes DEF Logs
  <2> QED
    BY <2>2, <2>3
<1> QED
  BY <1>2 DEF Reserve, Propose

\* A proposal no guard vetoes keeps the logs sound, and they can be restored
\* with it reserved and with it released.
LEMMA ProposeSound ==
    ASSUME NEW logs \in Logs, NEW id \in Ids, Sound(logs),
           \A i \in Guards : ~Reserves(logs[i], id) /\ Len(logs[i]) < Policies[i].capacity
    PROVE  Sound(Propose(logs, id))
<1> SUFFICES ASSUME NEW i \in 1 .. Len(Policies)
             PROVE  IF i \in Guards
                    THEN /\ Len(Propose(logs, id)[i]) <= Policies[i].capacity
                         /\ Distinct(Propose(logs, id)[i])
                    ELSE Propose(logs, id)[i] = << >>
  BY DEF Sound
<1>1. logs[i] \in Seq(Ids) /\ Len(logs[i]) \in Nat /\ Policies[i].capacity \in Nat
  BY GuardTypes DEF Logs
<1>2. CASE i \in Guards
  <2>1. Distinct(logs[i]) /\ ~Reserves(logs[i], id) /\ Len(logs[i]) < Policies[i].capacity
    BY <1>2 DEF Sound
  <2>2. Propose(logs, id)[i] = Append(logs[i], id)
    BY <1>2, ProposeTypes
  <2>3. Distinct(Append(logs[i], id))
    BY <1>1, <2>1, AppendDistinct
  <2>4. Len(Append(logs[i], id)) = Len(logs[i]) + 1
    BY <1>1
  <2> QED
    BY <1>1, <1>2, <2>1, <2>2, <2>3, <2>4
<1>3. CASE i \notin Guards
  BY <1>3, ProposeTypes DEF Sound
<1> QED
  BY <1>2, <1>3

\* Sound logs can be restored, with the last key of a proposal released too.
LEMMA SoundRestorable ==
    ASSUME NEW logs \in Logs, NEW id \in Ids, Sound(logs)
    PROVE  /\ Restorable(Checkpoint(logs, None))
           /\ (\E p \in Logs : logs = Propose(p, id)) => Restorable(Checkpoint(logs, id))
<1>1. Restorable(Checkpoint(logs, None))
  BY DEF Sound, Restorable, Checkpoint
<1>2. ASSUME NEW p \in Logs, logs = Propose(p, id)
      PROVE  Restorable(Checkpoint(logs, id))
  <2>1. \A i \in Guards : logs[i] = Append(p[i], id) /\ p[i] \in Seq(Ids)
    BY <1>2, ProposeTypes, GuardTypes DEF Logs
  <2>2. \A i \in Guards : logs[i] # << >> /\ logs[i][Len(logs[i])] = id
    BY <2>1
  <2> QED
    BY <2>2 DEF Sound, Restorable, Checkpoint
<1> QED
  BY <1>1, <1>2

-----------------------------------------------------------------------------
(* Steps that leave the row alone. *)

\* A relay that is down knows nothing and claims nothing.
LEMMA DownTypes ==
    ASSUME NEW at \in {"closed", "stopped"}
    PROVE  /\ Down(at) \in RelayType /\ Down(at).at = at /\ Down(at).sending = None
           /\ Knows(Down(at))
BY EmptyLogs DEF Down, RelayType, Knows, Engaged

\* A ready relay knows what its checkpoint restores.
LEMMA ReadyTypes ==
    ASSUME NEW logs \in Logs, NEW c \in Checkpoints, logs = Restored(c), Sound(logs)
    PROVE  /\ Ready(logs, c) \in RelayType /\ Ready(logs, c).at = "ready"
           /\ Ready(logs, c).sending = None /\ Knows(Ready(logs, c))
BY DEF Ready, RelayType, Knows, Engaged

\* One relay changes its state, the row and the transport do not change, and
\* the relay claims no delivery that it did not claim before.
LEMMA RelayStep ==
    ASSUME IInv, NEW r \in Relays, NEW s \in RelayType,
           relay' = [relay EXCEPT ![r] = s], row' = row, invoked' = invoked,
           Knows(s), s.sending \in Ids <=> s.at \in Sending,
           s.at \in Claiming => relay[r].at \in Claiming /\ relay[r].sending = s.sending
    PROVE  IInv'
<1>1. \A q \in Relays : relay'[q] = IF q = r THEN s ELSE relay[q]
  BY DEF IInv, Types
<1>2. Types'
  BY DEF IInv, Types
<1>3. Restorable(row)' /\ \A q \in Relays : Knows(relay[q])'
  BY <1>1 DEF IInv
<1>4. \A id \in Ids : (invoked[id] <= 1 /\ (invoked[id] # 0 => Held(row, id)))'
  BY DEF IInv
<1>5. \A q \in Relays : (relay[q].at \in Claiming => Held(row, relay[q].sending))'
  BY <1>1 DEF IInv
<1>6. \A q \in Relays : (relay[q].at \in Claiming => invoked[relay[q].sending] = 0)'
  BY <1>1 DEF IInv
<1>7. \A q, t \in Relays :
        (relay[q].at \in Claiming /\ relay[t].at \in Claiming
           /\ relay[q].sending = relay[t].sending => q = t)'
  BY <1>1 DEF IInv
<1> QED
  BY <1>2, <1>3, <1>4, <1>5, <1>6, <1>7 DEF IInv

\* The relay goes down.
LEMMA DownStep ==
    ASSUME IInv, NEW r \in Relays, NEW at \in {"closed", "stopped"},
           relay' = [relay EXCEPT ![r] = Down(at)], row' = row, invoked' = invoked
    PROVE  IInv'
BY DownTypes, RelayStep, RelayAssumption DEF Sending, Engaged, Claiming

LEMMA OpenIInv ==
    ASSUME IInv, NEW r \in Relays, Open(r)
    PROVE  IInv'
<1>1. row \in Checkpoints /\ Restorable(row)
  BY DEF IInv, Types
<1> QED
  BY <1>1, RestoredSound, ReadyTypes, RelayStep, RelayAssumption
     DEF Open, Becomes, Sending, Engaged, Claiming

LEMMA DropIInv ==
    ASSUME IInv, NEW r \in Relays, Drop(r)
    PROVE  IInv'
BY DownStep DEF Drop, Becomes

LEMMA HandleIInv ==
    ASSUME IInv, NEW r \in Relays, NEW id \in Ids, Handle(r, id)
    PROVE  IInv'
<1> DEFINE s == [relay[r] EXCEPT !.at = "reserve", !.sending = id]
<1>1. CASE UNCHANGED relay
  <2>1. relay[r] \in RelayType /\ relay' = [relay EXCEPT ![r] = relay[r]]
    BY <1>1 DEF IInv, Types
  <2> QED
    BY <2>1, RelayStep DEF Handle, IInv, Types
<1>2. CASE Becomes(r, s) /\ Vetoes(Policies, relay[r].monitors, id, Destination[id]) = {}
  <2>1. relay[r] \in RelayType /\ Knows(relay[r]) /\ relay[r].at = "ready"
    BY DEF IInv, Types, Handle
  <2>2. /\ s \in RelayType /\ s.at = "reserve" /\ s.sending = id
        /\ s.monitors = relay[r].monitors /\ s.stored = relay[r].stored
    BY <2>1 DEF RelayType, Sending
  <2> HIDE DEF s
  <2>3. Knows(s)
    BY <1>2, <2>1, <2>2 DEF Knows, Engaged
  <2> QED
    BY <1>2, <2>2, <2>3, RelayStep DEF Handle, Becomes, Sending, Engaged, Claiming
<1> QED
  BY <1>1, <1>2 DEF Handle

LEMMA ForwardIInv ==
    ASSUME IInv, NEW r \in Relays, Forward(r)
    PROVE  IInv'
<1>1. CASE relay' = relay
  <2>1. relay[r] \in RelayType /\ relay' = [relay EXCEPT ![r] = relay[r]]
    BY <1>1 DEF IInv, Types
  <2> QED
    BY <2>1, RelayStep DEF Forward, IInv, Types
<1>2. CASE relay' = [relay EXCEPT ![r] = Down("stopped")]
  BY <1>2, DownStep DEF Forward
<1> QED
  BY <1>1, <1>2 DEF Forward

\* A relay in the terminal can end its send, with the reservation kept.
LEMMA KeptTypes ==
    ASSUME IInv, NEW r \in Relays, relay[r].at \in Engaged
    PROVE  /\ Kept(r) \in RelayType /\ Kept(r).at = "ready"
           /\ Kept(r).sending = None /\ Knows(Kept(r))
<1>1. relay[r] \in RelayType /\ Knows(relay[r])
  BY DEF IInv, Types
<1>2. /\ relay[r].monitors \in Logs /\ relay[r].stored \in Checkpoints
      /\ relay[r].stored = Checkpoint(relay[r].monitors, None) /\ Sound(relay[r].monitors)
  BY <1>1 DEF RelayType, Knows
<1> QED
  BY <1>2, RestoredReservation, ReadyTypes DEF Kept

LEMMA ReturnIInv ==
    ASSUME IInv, NEW r \in Relays, Return(r)
    PROVE  IInv'
<1> DEFINE s == [relay[r] EXCEPT !.at = "release"]
<1>1. CASE Becomes(r, Kept(r))
  BY <1>1, KeptTypes, RelayStep, RelayAssumption
     DEF Return, Becomes, Sending, Engaged, Claiming
<1>2. CASE Becomes(r, Down("stopped"))
  BY <1>2, DownStep DEF Return, Becomes
<1>3. CASE relay[r].at = "call" /\ Becomes(r, s)
  <2>1. relay[r] \in RelayType /\ Knows(relay[r]) /\ relay[r].sending \in Ids
    BY <1>3 DEF IInv, Types, Sending
  <2>2. /\ s \in RelayType /\ s.at = "release" /\ s.sending = relay[r].sending
        /\ s.monitors = relay[r].monitors /\ s.stored = relay[r].stored
        /\ s.previous = relay[r].previous
    BY <2>1 DEF RelayType, Sending
  <2> HIDE DEF s
  <2>3. Knows(s)
    BY <1>3, <2>1, <2>2 DEF Knows, Engaged
  <2> QED
    BY <1>3, <2>1, <2>2, <2>3, RelayStep DEF Return, Becomes, Sending, Engaged, Claiming
<1> QED
  BY <1>1, <1>2, <1>3 DEF Return

\* The transport is invoked: by the one relay that claims the delivery.
LEMMA InvokeIInv ==
    ASSUME IInv, NEW r \in Relays, Invoke(r)
    PROVE  IInv'
<1> DEFINE s == [relay[r] EXCEPT !.at = "called"]
           x == relay[r].sending
<1>1. relay[r] \in RelayType /\ Knows(relay[r]) /\ x \in Ids /\ relay[r].at = "call"
  BY DEF IInv, Types, Sending, Invoke
<1>2. /\ s \in RelayType /\ s.at = "called" /\ s.sending = x
      /\ s.monitors = relay[r].monitors /\ s.stored = relay[r].stored
      /\ s.previous = relay[r].previous
  BY <1>1 DEF RelayType, Sending
<1> HIDE DEF s
<1>3. \A q \in Relays : relay'[q] = IF q = r THEN s ELSE relay[q]
  BY DEF IInv, Types, Invoke, Becomes, s
<1>4. invoked[x] = 0 /\ Held(row, x)
  BY <1>1 DEF IInv, Claiming, Engaged
<1>5. \A id \in Ids : invoked'[id] = IF id = x THEN 1 ELSE invoked[id]
  BY <1>1, <1>4 DEF IInv, Types, Invoke
<1>6. Knows(s)
  BY <1>1, <1>2 DEF Knows, Engaged
<1>7. Types'
  <2>1. relay' \in [Relays -> RelayType]
    BY <1>2 DEF IInv, Types, Invoke, Becomes, s
  <2>2. \A q \in Relays : relay'[q].sending \in Ids <=> relay'[q].at \in Sending
    BY <1>1, <1>2, <1>3 DEF IInv, Types, Sending
  <2>3. row' \in Checkpoints /\ invoked' \in [Ids -> Nat]
    BY <1>1 DEF IInv, Types, Invoke
  <2> QED
    BY <2>1, <2>2, <2>3 DEF Types
<1>8. row' = row
  BY DEF Invoke
<1>9. Restorable(row)' /\ \A q \in Relays : Knows(relay[q])'
  BY <1>3, <1>6, <1>8 DEF IInv
<1>10. \A id \in Ids : (invoked[id] <= 1 /\ (invoked[id] # 0 => Held(row, id)))'
  BY <1>4, <1>5, <1>8 DEF IInv
<1>11. \A q \in Relays : (relay[q].at \in Claiming => Held(row, relay[q].sending))'
  BY <1>2, <1>3, <1>8 DEF IInv, Claiming
<1>12. \A q \in Relays : relay'[q].at \in Claiming =>
          q # r /\ relay[q].at \in Claiming /\ relay'[q].sending = relay[q].sending
  BY <1>2, <1>3 DEF Claiming
<1>13. \A q \in Relays : (relay[q].at \in Claiming => invoked[relay[q].sending] = 0)'
  <2> SUFFICES ASSUME NEW q \in Relays, relay'[q].at \in Claiming
               PROVE  invoked'[relay'[q].sending] = 0
    OBVIOUS
  <2>1. relay[q].sending \in Ids /\ relay[q].sending # x
    BY <1>1, <1>12 DEF IInv, Types, Claiming, Sending
  <2> QED
    BY <1>5, <1>12, <2>1 DEF IInv
<1>14. \A q, t \in Relays :
         (relay[q].at \in Claiming /\ relay[t].at \in Claiming
            /\ relay[q].sending = relay[t].sending => q = t)'
  BY <1>12 DEF IInv
<1> QED
  BY <1>7, <1>9, <1>10, <1>11, <1>13, <1>14 DEF IInv

-----------------------------------------------------------------------------
(* Steps that write the row. *)

\* The row is replaced by one that holds every delivery that was invoked and
\* every delivery another relay claims, and the writer claims one that is
\* neither.
LEMMA RowStep ==
    ASSUME IInv, NEW r \in Relays, NEW s \in RelayType, NEW next \in Checkpoints,
           relay' = [relay EXCEPT ![r] = s], row' = next, invoked' = invoked,
           Restorable(next), Knows(s), s.sending \in Ids <=> s.at \in Sending,
           \A id \in Ids : invoked[id] # 0 => Held(next, id),
           \A q \in Relays \ {r} : relay[q].at \in Claiming => Held(next, relay[q].sending),
           s.at \in Claiming =>
               /\ Held(next, s.sending) /\ invoked[s.sending] = 0
               /\ \A q \in Relays \ {r} :
                    relay[q].at \in Claiming => relay[q].sending # s.sending
    PROVE  IInv'
<1>1. \A q \in Relays : relay'[q] = IF q = r THEN s ELSE relay[q]
  BY DEF IInv, Types
<1>2. Types'
  BY DEF IInv, Types
<1>3. Restorable(row)' /\ \A q \in Relays : Knows(relay[q])'
  BY <1>1 DEF IInv
<1>4. \A id \in Ids : (invoked[id] <= 1 /\ (invoked[id] # 0 => Held(row, id)))'
  BY DEF IInv
<1>5. \A q \in Relays : (relay[q].at \in Claiming => Held(row, relay[q].sending))'
  BY <1>1
<1>6. \A q \in Relays : (relay[q].at \in Claiming => invoked[relay[q].sending] = 0)'
  BY <1>1 DEF IInv
<1>7. \A q, t \in Relays :
        (relay[q].at \in Claiming /\ relay[t].at \in Claiming
           /\ relay[q].sending = relay[t].sending => q = t)'
  BY <1>1 DEF IInv
<1> QED
  BY <1>2, <1>3, <1>4, <1>5, <1>6, <1>7 DEF IInv

\* What the reservation of a relay's send writes.
LEMMA ReservedTypes ==
    ASSUME IInv, NEW r \in Relays, relay[r].at = "reserve"
    PROVE  LET x == relay[r].sending
               logs == relay[r].monitors
           IN  /\ x \in Ids /\ logs \in Logs /\ Propose(logs, x) \in Logs
               /\ WithSend(r) = Propose(logs, x)
               /\ Sound(logs) /\ Sound(Propose(logs, x)) /\ logs = Restored(relay[r].stored)
               /\ \A i \in Guards : ~Reserves(logs[i], x)
<1> DEFINE x == relay[r].sending
           logs == relay[r].monitors
<1>1. relay[r] \in RelayType /\ Knows(relay[r]) /\ x \in Ids
  BY DEF IInv, Types, Sending
<1>2. /\ logs \in Logs /\ logs = Restored(relay[r].stored) /\ Sound(logs)
      /\ Vetoes(Policies, logs, x, Destination[x]) = {}
  BY <1>1 DEF RelayType, Knows
<1>3. /\ \A i \in Guards : ~Reserves(logs[i], x) /\ Len(logs[i]) < Policies[i].capacity
      /\ WithSend(r) = Propose(logs, x)
  BY <1>1, <1>2, NoVeto DEF WithSend
<1>4. Propose(logs, x) \in Logs /\ Sound(Propose(logs, x))
  BY <1>1, <1>2, <1>3, ProposeTypes, ProposeSound
<1> QED
  BY <1>1, <1>2, <1>3, <1>4

\* The row with a reservation holds what it held, and the new key.
LEMMA ReservedHolds ==
    ASSUME IInv, NEW r \in Relays, relay[r].at = "reserve", Matches(r)
    PROVE  /\ Reserved(r) \in Checkpoints /\ Restorable(Reserved(r))
           /\ Held(Reserved(r), relay[r].sending) /\ ~Held(row, relay[r].sending)
           /\ \A id \in Ids : Held(row, id) => Held(Reserved(r), id)
<1> DEFINE x == relay[r].sending
           logs == relay[r].monitors
<1>1. /\ x \in Ids /\ logs \in Logs /\ Propose(logs, x) \in Logs
      /\ Reserved(r) = Checkpoint(Propose(logs, x), None)
      /\ Sound(logs) /\ Sound(Propose(logs, x)) /\ logs = Restored(row)
      /\ \A i \in Guards : ~Reserves(logs[i], x)
  BY ReservedTypes DEF Matches, Reserved
<1> HIDE DEF x, logs
<1>2. Restored(Reserved(r)) = Propose(logs, x)
  BY <1>1, RestoredReservation
<1>3. \A i \in Guards : Propose(logs, x)[i] = Append(logs[i], x) /\ logs[i] \in Seq(Ids)
  BY <1>1, ProposeTypes, GuardTypes DEF Logs
<1>4. ASSUME NEW id \in Ids
      PROVE  Held(Reserved(r), id) <=> \A i \in Guards : Reserves(logs[i], id) \/ x = id
  <2>1. \A i \in Guards : Reserves(Propose(logs, x)[i], id) <=> Reserves(logs[i], id) \/ x = id
    <3> TAKE i \in Guards
    <3>1. logs[i] \in Seq(Ids) /\ Propose(logs, x)[i] = Append(logs[i], x) /\ x \in Ids
      BY <1>1, <1>3
    <3> QED
      BY <3>1, AppendReserves
  <2> QED
    BY <1>2, <2>1 DEF Held
<1>5. Held(Reserved(r), x) /\ \A id \in Ids : Held(row, id) => Held(Reserved(r), id)
  BY <1>1, <1>4 DEF Held
<1>6. ~Held(row, x)
  BY <1>1, GuardTypes DEF Held
<1>7. Reserved(r) \in Checkpoints /\ Restorable(Reserved(r))
  <2>1. Restorable(Reserved(r))
    BY <1>1, SoundRestorable
  <2> QED
    BY <1>1, <2>1 DEF Checkpoint, Checkpoints
<1> QED
  BY <1>5, <1>6, <1>7 DEF x

LEMMA ReserveIInv ==
    ASSUME IInv, NEW r \in Relays, ReserveStep(r)
    PROVE  IInv'
<1> DEFINE x == relay[r].sending
           s == [relay[r] EXCEPT !.at = "call", !.stored = Reserved(r),
                                 !.previous = relay[r].monitors, !.monitors = WithSend(r)]
<1>1. /\ relay[r].at = "reserve" /\ invoked' = invoked /\ relay[r] \in RelayType
      /\ relay[r].at \notin Claiming
  BY DEF ReserveStep, IInv, Types, Claiming
<1>2. ASSUME Matches(r), row' = Reserved(r)
      PROVE  /\ \A id \in Ids : invoked[id] # 0 => Held(Reserved(r), id)
             /\ \A q \in Relays : relay[q].at \in Claiming =>
                    Held(Reserved(r), relay[q].sending) /\ relay[q].sending # x
             /\ invoked[x] = 0
  <2>1. \A q \in Relays : relay[q].at \in Claiming => relay[q].sending \in Ids
    BY DEF IInv, Types, Claiming, Sending
  <2>2. x \in Ids
    BY <1>1 DEF IInv, Types, Sending
  <2> QED
    BY <1>1, <1>2, <2>1, <2>2, ReservedHolds DEF IInv
<1>3. CASE Matches(r) /\ row' = Reserved(r) /\ Becomes(r, s)
  <2>1. /\ x \in Ids /\ relay[r].monitors \in Logs /\ Propose(relay[r].monitors, x) \in Logs
        /\ WithSend(r) = Propose(relay[r].monitors, x)
        /\ Sound(relay[r].monitors) /\ Sound(Propose(relay[r].monitors, x))
    BY <1>1, ReservedTypes
  <2>2. Reserved(r) \in Checkpoints /\ Restorable(Reserved(r)) /\ Held(Reserved(r), x)
    BY <1>1, <1>3, ReservedHolds
  <2>3. /\ s \in RelayType /\ s.at = "call" /\ s.sending = x /\ s.stored = Reserved(r)
        /\ s.previous = relay[r].monitors /\ s.monitors = WithSend(r)
    BY <1>1, <2>1, <2>2 DEF RelayType, Sending
  <2> HIDE DEF s
  <2>4. Knows(s)
    BY <2>1, <2>3 DEF Knows, Engaged, Reserved, Propose
  <2>5. /\ \A id \in Ids : invoked[id] # 0 => Held(Reserved(r), id)
        /\ \A q \in Relays \ {r} : relay[q].at \in Claiming => Held(Reserved(r), relay[q].sending)
        /\ \A q \in Relays \ {r} : relay[q].at \in Claiming => relay[q].sending # s.sending
        /\ invoked[s.sending] = 0 /\ Held(Reserved(r), s.sending)
    BY <1>2, <1>3, <2>2, <2>3
  <2>6. relay' = [relay EXCEPT ![r] = s] /\ (s.sending \in Ids <=> s.at \in Sending)
    BY <1>3, <2>1, <2>3 DEF Becomes, Sending
  <2> QED
    BY <1>1, <1>3, <2>2, <2>3, <2>4, <2>5, <2>6, RowStep
<1>4. CASE Matches(r) /\ row' = Reserved(r) /\ Becomes(r, Down("stopped"))
  <2>1. Reserved(r) \in Checkpoints /\ Restorable(Reserved(r))
    BY <1>1, <1>4, ReservedHolds
  <2> QED
    BY <1>1, <1>2, <1>4, <2>1, DownTypes, RowStep, RelayAssumption
       DEF Becomes, Sending, Claiming
<1>5. CASE UNCHANGED row /\ Becomes(r, Down("stopped"))
  BY <1>1, <1>5, DownStep DEF Becomes
<1> QED
  BY <1>3, <1>4, <1>5 DEF ReserveStep, Commit

\* The row with a release holds what it held, except the released key.
LEMMA ReleasedHolds ==
    ASSUME IInv, NEW r \in Relays, relay[r].at = "release"
    PROVE  LET x == relay[r].sending
               prior == relay[r].previous
           IN  /\ x \in Ids /\ prior \in Logs /\ Sound(prior)
               /\ Released(r) \in Checkpoints /\ Restorable(Released(r))
               /\ Restored(Released(r)) = prior
               /\ Matches(r) =>
                    \A id \in Ids : Held(row, id) /\ id # x => Held(Released(r), id)
<1> DEFINE x == relay[r].sending
           prior == relay[r].previous
<1>1. relay[r] \in RelayType /\ Knows(relay[r]) /\ x \in Ids
  BY DEF IInv, Types, Sending
<1>2. /\ prior \in Logs /\ Sound(prior) /\ relay[r].monitors = Propose(prior, x)
      /\ Sound(Propose(prior, x)) /\ relay[r].stored = Checkpoint(Propose(prior, x), None)
  BY <1>1 DEF RelayType, Knows, Engaged, Propose
<1>3. Released(r) = Checkpoint(Propose(prior, x), x)
  BY <1>2 DEF Released
<1> HIDE DEF x, prior
<1>4. Propose(prior, x) \in Logs
  BY <1>1, <1>2, ProposeTypes
<1>5. Released(r) \in Checkpoints /\ Restorable(Released(r))
  BY <1>1, <1>2, <1>3, <1>4, SoundRestorable DEF Checkpoint, Checkpoints
<1>6. Restored(Released(r)) = prior
  BY <1>1, <1>2, <1>3, RestoredRelease
<1>7. ASSUME Matches(r), NEW id \in Ids, Held(row, id), id # x
      PROVE  Held(Released(r), id)
  <2>1. Restored(row) = Propose(prior, x)
    BY <1>2, <1>4, <1>7, RestoredReservation DEF Matches
  <2>2. \A i \in Guards : Propose(prior, x)[i] = Append(prior[i], x) /\ prior[i] \in Seq(Ids)
    BY <1>1, <1>2, ProposeTypes, GuardTypes DEF Logs
  <2>3. \A i \in Guards : Reserves(Append(prior[i], x), id)
    BY <1>7, <2>1, <2>2 DEF Held
  <2>4. \A i \in Guards : Reserves(prior[i], id)
    BY <1>1, <1>7, <2>2, <2>3, AppendReserves
  <2> QED
    BY <1>6, <2>4 DEF Held
<1> QED
  BY <1>1, <1>2, <1>5, <1>6, <1>7 DEF x, prior

LEMMA ReleaseIInv ==
    ASSUME IInv, NEW r \in Relays, ReleaseStep(r)
    PROVE  IInv'
<1> DEFINE x == relay[r].sending
<1>1. relay[r].at = "release" /\ relay[r].at \in Claiming /\ invoked' = invoked
  BY DEF ReleaseStep, Claiming
<1>2. /\ x \in Ids /\ relay[r].previous \in Logs /\ Sound(relay[r].previous)
      /\ Released(r) \in Checkpoints /\ Restorable(Released(r))
      /\ Restored(Released(r)) = relay[r].previous
  BY <1>1, ReleasedHolds
<1>3. ASSUME Matches(r)
      PROVE  /\ \A id \in Ids : invoked[id] # 0 => Held(Released(r), id)
             /\ \A q \in Relays \ {r} :
                    relay[q].at \in Claiming => Held(Released(r), relay[q].sending)
  <2>1. \A id \in Ids : Held(row, id) /\ id # x => Held(Released(r), id)
    BY <1>1, <1>3, ReleasedHolds
  <2>2. invoked[x] = 0
    BY <1>1 DEF IInv
  <2>3. \A q \in Relays \ {r} : relay[q].at \in Claiming =>
           relay[q].sending \in Ids /\ relay[q].sending # x
    BY <1>1 DEF IInv, Types, Claiming, Sending
  <2> QED
    BY <2>1, <2>2, <2>3 DEF IInv
<1>4. CASE Matches(r) /\ row' = Released(r) /\ Becomes(r, Ready(relay[r].previous, Released(r)))
  BY <1>1, <1>2, <1>3, <1>4, ReadyTypes, RowStep, RelayAssumption
     DEF Becomes, Sending, Claiming
<1>5. CASE Matches(r) /\ row' = Released(r) /\ Becomes(r, Down("stopped"))
  BY <1>1, <1>2, <1>3, <1>5, DownTypes, RowStep, RelayAssumption
     DEF Becomes, Sending, Claiming
<1>6. CASE UNCHANGED row /\ Becomes(r, Down("stopped"))
  BY <1>1, <1>6, DownStep DEF Becomes
<1> QED
  BY <1>4, <1>5, <1>6 DEF ReleaseStep, Commit

-----------------------------------------------------------------------------
(* The theorems. *)

LEMMA InitIInv == Init => IInv
<1> SUFFICES ASSUME Init PROVE IInv
  OBVIOUS
<1>1. \A r \in Relays :
        /\ relay[r] \in RelayType /\ relay[r].at = "closed" /\ relay[r].sending = None
        /\ Knows(relay[r])
  BY DownTypes DEF Init
<1>2. Types
  BY <1>1, EmptyLogs, RelayAssumption DEF Init, Types, Sending
<1> QED
  BY <1>1, <1>2, EmptyLogs DEF Init, IInv, Claiming

LEMMA NextIInv == IInv /\ [Next]_vars => IInv'
<1> SUFFICES ASSUME IInv, [Next]_vars PROVE IInv'
  OBVIOUS
<1>1. CASE Next
  BY <1>1, OpenIInv, DropIInv, ForwardIInv, HandleIInv, ReserveIInv, InvokeIInv, ReturnIInv,
     ReleaseIInv DEF Next
<1>2. CASE UNCHANGED vars
  BY <1>2 DEF vars, IInv, Types
<1> QED
  BY <1>1, <1>2

LEMMA SpecIInv == Spec => []IInv
BY InitIInv, NextIInv, PTL DEF Spec

\* The relays of one row together never give a delivery to the transport
\* twice, for any number of relays, deliveries and policies: retries, process
\* losses, ambiguous writes and releases of Relay::handle included.
THEOREM SendsOnce == Spec => []InvokedOnce
<1>1. IInv => InvokedOnce
  BY DEF IInv, InvokedOnce
<1> QED
  BY <1>1, SpecIInv, PTL

\* restore() accepts every checkpoint the relays leave behind.
THEOREM CheckpointsRestore == Spec => []AlwaysRestorable
<1>1. IInv => AlwaysRestorable
  BY DEF IInv, AlwaysRestorable
<1> QED
  BY <1>1, SpecIInv, PTL

\* A relay that would win the next write decides as a restarted one would.
THEOREM MemoryMatchesRow == Spec => []MemoryIsRestored
<1>1. IInv => MemoryIsRestored
  BY DEF IInv, MemoryIsRestored, Knows
<1> QED
  BY <1>1, SpecIInv, PTL

\* The types of the row and the relays, and the guards' capacities, are kept.
THEOREM TypeCorrect == Spec => []TypeOK
<1>1. IInv => TypeOK
  <2> SUFFICES ASSUME IInv PROVE TypeOK
    OBVIOUS
  <2>1. ~Full(row.logs)
    <3> SUFFICES ASSUME NEW i \in Guards PROVE ~(Len(row.logs[i]) > Policies[i].capacity)
      BY DEF Full
    <3>1. row.logs[i] \in Seq(Ids) /\ Policies[i].capacity \in Nat
      BY GuardTypes DEF IInv, Types, Checkpoints, Logs
    <3>2. Len(row.logs[i]) <= Policies[i].capacity
      BY GuardTypes DEF IInv, Restorable
    <3> QED
      BY <3>1, <3>2
  <2> QED
    BY <2>1 DEF IInv, Types, TypeOK
<1> QED
  BY <1>1, SpecIInv, PTL

\* Only the release of a send that was not invoked gives up a reservation.
THEOREM ReservationsKept == Spec => OnlyReleased
<1> DEFINE Lost(id) == Holds(id) /\ ~Holds(id)'
           Justified(id) ==
               /\ invoked[id] = 0
               /\ \E r \in Relays : relay[r].at = "release" /\ relay[r].sending = id
<1>1. ASSUME IInv, [Next]_vars, NEW id \in Ids, Lost(id)
      PROVE  Justified(id)
  <2>1. Held(row, id) /\ ~Held(row', id)
    BY <1>1 DEF Holds, Held
  <2>2. row' # row
    BY <2>1
  <2>3. PICK r \in Relays : ReserveStep(r) \/ ReleaseStep(r)
    BY <1>1, <2>2 DEF Next, vars, Open, Drop, Forward, Handle, Invoke, Return
  <2>4. CASE ReserveStep(r)
    <3>1. relay[r].at = "reserve" /\ Matches(r) /\ row' = Reserved(r)
      BY <2>2, <2>4 DEF ReserveStep, Commit
    <3> QED
      BY <1>1, <2>1, <3>1, ReservedHolds
  <2>5. CASE ReleaseStep(r)
    <3>1. relay[r].at = "release" /\ Matches(r) /\ row' = Released(r)
      BY <2>2, <2>5 DEF ReleaseStep, Commit
    <3>2. relay[r].sending = id
      BY <1>1, <2>1, <3>1, ReleasedHolds
    <3>3. invoked[id] = 0
      BY <1>1, <3>1, <3>2 DEF IInv, Claiming
    <3> QED
      BY <3>1, <3>2, <3>3
  <2> QED
    BY <2>3, <2>4, <2>5
<1>2. IInv /\ [Next]_vars => [\A id \in Ids : Lost(id) => Justified(id)]_vars
  BY <1>1
<1>3. Spec => [][\A id \in Ids : Lost(id) => Justified(id)]_vars
  BY <1>2, SpecIInv, PTL DEF Spec
<1> QED
  BY <1>3 DEF OnlyReleased
=============================================================================
