----------------------- MODULE IntentDispatcherProofs -----------------------
(***************************************************************************)
(* Proofs about IntentDispatcher, for any principals, intents, limits and  *)
(* policies and any number of owners: the transport is invoked under a     *)
(* live grant only, a worker is told the truth, the books of the grants    *)
(* agree with the handles, and no intent is sent twice.                    *)
(***************************************************************************)
EXTENDS IntentDispatcher, SumTheorems, FiniteSetTheorems, TLAPS

\* The relay with the theorems proved about it.
Proved == INSTANCE DurableRelayProofs WITH Relays <- {Self}

At == relay[Self].at

\* The relay and its row keep what is proved of every relay.
RelayTypes ==
    /\ relay \in [{Self} -> Proved!RelayType]
    /\ \A r \in {Self} : relay[r].sending \in Ids <=> relay[r].at \in Proved!Sending
    /\ invoked \in [Ids -> Nat]

HandleType == [brand: Nat, grant: Nat, principal: Principals, intent: Ids]
GrantType == [id: Nat, principal: Principals, intent: Ids]

ChannelType ==
    [principal: Principals \cup {None}, tenant: BOOLEAN, table: SUBSET handles, next: Nat,
     limit: Nat, stopped: BOOLEAN]

\* The owner's fields; its retained bytes have an invariant of their own.
OwnerTypes ==
    /\ owner = [grants |-> owner.grants, retained |-> owner.retained, next |-> owner.next,
                attempts |-> owner.attempts, stopped |-> owner.stopped]
    /\ owner.grants \subseteq GrantType /\ IsFiniteSet(owner.grants)
    /\ owner.next \in Nat /\ owner.attempts \in Nat

\* The live handles are this incarnation's, each with its grant; a number is
\* given to one handle of an incarnation only, revoked ones included.
Books ==
    /\ handles \subseteq HandleType /\ live \subseteq handles /\ brand \in Nat
    /\ \A h \in live : h.brand = brand
    /\ \A h \in handles : h.brand <= brand
    /\ \A h, k \in handles : h.brand = k.brand /\ h.grant = k.grant => h = k
    /\ At # "closed" => \A h \in handles : h.brand = brand => h.grant <= owner.next
    /\ {<<g.id, g.principal, g.intent>> : g \in owner.grants}
         = {<<h.grant, h.principal, h.intent>> : h \in live}
    /\ \A g, h \in owner.grants : g.id = h.id => g = h
    /\ \A g \in owner.grants : g.id <= owner.next
    /\ Cardinality(owner.grants) <= GrantLimit
    /\ owner.attempts <= DispatchLimit

\* The channel and what it told its worker.  The next sequence number counts
\* the frames unless the channel is stopped.
ChannelBooks ==
    /\ channel \in ChannelType
    /\ told = [frames |-> told.frames, sequence |-> told.sequence, status |-> told.status,
               did |-> told.did, past |-> told.past]
    /\ told.frames \in Nat
    /\ ~channel.stopped => channel.principal \in Principals /\ channel.next = told.frames
    /\ HonestChannel

\* A send under way: it is the channel's, for a live handle of the caller, and
\* the channel is poisoned and was in order when the send was admitted.
CallBooks ==
    At \in Proved!Sending =>
        /\ call = [principal |-> call.principal, handle |-> call.handle, did |-> call.did]
        /\ call.principal \in Principals /\ call.did \in BOOLEAN
        /\ call.handle \in live
        /\ call.handle.principal = call.principal
        /\ call.handle.intent = relay[Self].sending
        /\ channel.stopped /\ channel.principal \in Principals
        /\ told.status \notin Final
        /\ channel.next = told.frames + 1 /\ channel.next <= channel.limit

IInv == Proved!IInv /\ OwnerTypes /\ Books /\ ChannelBooks /\ CallBooks

-----------------------------------------------------------------------------
(* The steps of the relay. *)

\* The two instances of the relay are the same specification.
LEMMA SameRelay ==
    /\ Relay!Init <=> Proved!Init
    /\ Relay!Open(Self) <=> Proved!Open(Self)
    /\ Relay!Drop(Self) <=> Proved!Drop(Self)
    /\ \A id \in Ids : Relay!Handle(Self, id) <=> Proved!Handle(Self, id)
    /\ Relay!ReserveStep(Self) <=> Proved!ReserveStep(Self)
    /\ Relay!Invoke(Self) <=> Proved!Invoke(Self)
    /\ Relay!Return(Self) <=> Proved!Return(Self)
    /\ Relay!ReleaseStep(Self) <=> Proved!ReleaseStep(Self)
<1>1. \A logs, release : Relay!Checkpoint(logs, release) = Proved!Checkpoint(logs, release)
  BY DEF Relay!Checkpoint, Proved!Checkpoint
<1>2. Relay!Initial = Proved!Initial
  BY DEF Relay!Initial, Proved!Initial, Relay!Checkpoint, Proved!Checkpoint,
     Relay!NoReservations, Proved!NoReservations
<1>3. Relay!Guards = Proved!Guards
  BY DEF Relay!Guards, Proved!Guards
<1>4. \A c : Relay!Restored(c) = Proved!Restored(c)
  BY <1>3, Zenon DEF Relay!Restored, Proved!Restored
<1>5. \A c : Relay!Restorable(c) <=> Proved!Restorable(c)
  BY <1>3, Zenon DEF Relay!Restorable, Proved!Restorable, Relay!Distinct, Proved!Distinct
<1>6. \A at : Relay!Down(at) = Proved!Down(at)
  BY <1>2 DEF Relay!Down, Proved!Down
<1>7. \A m, s : Relay!Ready(m, s) = Proved!Ready(m, s)
  BY DEF Relay!Ready, Proved!Ready
<1>8. \A r, s : Relay!Becomes(r, s) <=> Proved!Becomes(r, s)
  BY DEF Relay!Becomes, Proved!Becomes
<1>9. \A p, m, id, d : Relay!Vetoes(p, m, id, d) = Proved!Vetoes(p, m, id, d)
  BY DEF Relay!Vetoes, Proved!Vetoes, Relay!Verdict, Proved!Verdict, Relay!Reserves, Proved!Reserves
<1>10. \A p, m, id, d : Relay!Reserve(p, m, id, d) = Proved!Reserve(p, m, id, d)
  BY <1>9 DEF Relay!Reserve, Proved!Reserve, Relay!Proposed, Proved!Proposed
<1>11. \A r, next, after : Relay!Commit(r, next, after) <=> Proved!Commit(r, next, after)
  BY <1>6, <1>8, Zenon DEF Relay!Commit, Proved!Commit, Relay!Matches, Proved!Matches
<1>12. \A r : Relay!WithSend(r) = Proved!WithSend(r)
  BY <1>10 DEF Relay!WithSend, Proved!WithSend
<1>13. \A r : Relay!Reserved(r) = Proved!Reserved(r) /\ Relay!Released(r) = Proved!Released(r)
  BY <1>1, <1>12 DEF Relay!Reserved, Proved!Reserved, Relay!Released, Proved!Released
<1>14. \A r : Relay!Kept(r) = Proved!Kept(r)
  BY <1>7 DEF Relay!Kept, Proved!Kept
<1>15. Relay!Init <=> Proved!Init
  BY <1>2, <1>6 DEF Relay!Init, Proved!Init
<1>16. Relay!Open(Self) <=> Proved!Open(Self)
  BY <1>4, <1>5, <1>7, <1>8, Zenon DEF Relay!Open, Proved!Open
<1>17. Relay!Drop(Self) <=> Proved!Drop(Self)
  BY <1>6, <1>8, Zenon DEF Relay!Drop, Proved!Drop
<1>18. \A id \in Ids : Relay!Handle(Self, id) <=> Proved!Handle(Self, id)
  BY <1>8, <1>9, Zenon DEF Relay!Handle, Proved!Handle
<1>19. Relay!ReserveStep(Self) <=> Proved!ReserveStep(Self)
  BY <1>11, <1>12, <1>13, Zenon DEF Relay!ReserveStep, Proved!ReserveStep
<1>20. Relay!Invoke(Self) <=> Proved!Invoke(Self)
  BY <1>8, Zenon DEF Relay!Invoke, Proved!Invoke
<1>21. Relay!Return(Self) <=> Proved!Return(Self)
  BY <1>6, <1>8, <1>14, Zenon DEF Relay!Return, Proved!Return
<1>22. Relay!ReleaseStep(Self) <=> Proved!ReleaseStep(Self)
  BY <1>7, <1>11, <1>13, Zenon DEF Relay!ReleaseStep, Proved!ReleaseStep
<1> QED
  BY <1>15, <1>16, <1>17, <1>18, <1>19, <1>20, <1>21, <1>22

\* What each step of the relay does to the send under way.
LEMMA RelayMoves ==
    ASSUME RelayTypes
    PROVE  /\ Relay!Open(Self) => At' = "ready" /\ UNCHANGED invoked
           /\ Relay!Drop(Self) => At' = "closed" /\ UNCHANGED invoked
           /\ \A id : Relay!Handle(Self, id) =>
                /\ At = "ready" /\ UNCHANGED invoked
                /\ At' = "ready" \/ (At' = "reserve" /\ relay'[Self].sending = id)
           /\ Relay!ReserveStep(Self) =>
                /\ At = "reserve" /\ UNCHANGED invoked
                /\ \/ At' = "call" /\ relay'[Self].sending = relay[Self].sending
                   \/ At' = "stopped"
           /\ Relay!Invoke(Self) =>
                /\ At = "call" /\ At' = "called" /\ relay'[Self].sending = relay[Self].sending
                /\ invoked' = [invoked EXCEPT ![relay[Self].sending] = @ + 1]
           /\ Relay!Return(Self) =>
                /\ At \in {"call", "called"} /\ UNCHANGED invoked
                /\ \/ At' = "release" /\ relay'[Self].sending = relay[Self].sending
                   \/ At' \in {"ready", "stopped"}
           /\ Relay!ReleaseStep(Self) =>
                At = "release" /\ At' \in {"ready", "stopped"} /\ UNCHANGED invoked
<1>0. \A s : Relay!Becomes(Self, s) => relay'[Self] = s
  BY DEF RelayTypes, Relay!Becomes
<1>1. relay[Self] \in Proved!RelayType
  BY DEF RelayTypes
<1>2. \A at : Relay!Down(at).at = at
  BY DEF Relay!Down
<1>3. \A m, s : Relay!Ready(m, s).at = "ready"
  BY DEF Relay!Ready
<1>4. Relay!Open(Self) => At' = "ready" /\ UNCHANGED invoked
  BY <1>0, <1>3 DEF Relay!Open, At
<1>5. Relay!Drop(Self) => At' = "closed" /\ UNCHANGED invoked
  BY <1>0, <1>2 DEF Relay!Drop, At
<1>6. ASSUME NEW id, Relay!Handle(Self, id)
      PROVE  /\ At = "ready" /\ UNCHANGED invoked
             /\ At' = "ready" \/ (At' = "reserve" /\ relay'[Self].sending = id)
  <2>1. At = "ready" /\ UNCHANGED invoked
    BY <1>6 DEF Relay!Handle, At
  <2>2. CASE UNCHANGED relay
    BY <2>1, <2>2 DEF At
  <2>3. CASE Relay!Becomes(Self, [relay[Self] EXCEPT !.at = "reserve", !.sending = id])
    BY <1>0, <1>1, <2>1, <2>3 DEF At, Proved!RelayType
  <2> QED
    BY <1>6, <2>1, <2>2, <2>3 DEF Relay!Handle
<1>7. ASSUME Relay!ReserveStep(Self)
      PROVE  /\ At = "reserve" /\ UNCHANGED invoked
             /\ \/ At' = "call" /\ relay'[Self].sending = relay[Self].sending
                \/ At' = "stopped"
  <2> DEFINE s == [relay[Self] EXCEPT !.at = "call", !.stored = Relay!Reserved(Self),
                                      !.previous = relay[Self].monitors,
                                      !.monitors = Relay!WithSend(Self)]
  <2>1. At = "reserve" /\ UNCHANGED invoked /\ Relay!Commit(Self, Relay!Reserved(Self), s)
    BY <1>7 DEF Relay!ReserveStep, At
  <2>2. s.at = "call" /\ s.sending = relay[Self].sending
    BY <1>1 DEF Proved!RelayType
  <2> HIDE DEF s
  <2>3. relay'[Self] = s \/ relay'[Self] = Relay!Down("stopped")
    BY <1>0, <2>1 DEF Relay!Commit
  <2> QED
    BY <1>2, <2>1, <2>2, <2>3 DEF At
<1>8. ASSUME Relay!Invoke(Self)
      PROVE  /\ At = "call" /\ At' = "called" /\ relay'[Self].sending = relay[Self].sending
             /\ invoked' = [invoked EXCEPT ![relay[Self].sending] = @ + 1]
  BY <1>0, <1>1, <1>8 DEF Relay!Invoke, At, Proved!RelayType
<1>9. ASSUME Relay!Return(Self)
      PROVE  /\ At \in {"call", "called"} /\ UNCHANGED invoked
             /\ \/ At' = "release" /\ relay'[Self].sending = relay[Self].sending
                \/ At' \in {"ready", "stopped"}
  <2>1. At \in {"call", "called"} /\ UNCHANGED invoked
    BY <1>9 DEF Relay!Return, At
  <2>2. CASE Relay!Becomes(Self, Relay!Kept(Self)) \/ Relay!Becomes(Self, Relay!Down("stopped"))
    BY <1>0, <1>2, <1>3, <2>1, <2>2 DEF At, Relay!Kept
  <2>3. CASE Relay!Becomes(Self, [relay[Self] EXCEPT !.at = "release"])
    BY <1>0, <1>1, <2>1, <2>3 DEF At, Proved!RelayType
  <2> QED
    BY <1>9, <2>2, <2>3 DEF Relay!Return
<1>10. ASSUME Relay!ReleaseStep(Self)
       PROVE  At = "release" /\ At' \in {"ready", "stopped"} /\ UNCHANGED invoked
  <2>1. /\ At = "release" /\ UNCHANGED invoked
        /\ Relay!Commit(Self, Relay!Released(Self),
                        Relay!Ready(relay[Self].previous, Relay!Released(Self)))
    BY <1>10 DEF Relay!ReleaseStep, At
  <2>2. \/ relay'[Self] = Relay!Ready(relay[Self].previous, Relay!Released(Self))
        \/ relay'[Self] = Relay!Down("stopped")
    BY <1>0, <2>1 DEF Relay!Commit
  <2> QED
    BY <1>2, <1>3, <2>1, <2>2 DEF At
<1> QED
  BY <1>4, <1>5, <1>6, <1>7, <1>8, <1>9, <1>10

-----------------------------------------------------------------------------
(* The channel. *)

\* A result the dispatcher may return for a request that had the effect `did'
\* says: a refusal means no effect, and Sent means one.
Truthful(result, did) ==
    \/ result.tag = "Refused" /\ ~did
    \/ result.tag = "Failed"
    \/ /\ result.tag = "Answer" /\ result.sent \in {"Unknown", "NotSent", "Sent", "PolicyRefused"}
       /\ result.sent = "Sent" => did
       /\ result.sent = "PolicyRefused" => ~did

\* The worker is told the sequence number of its frame and a truthful status;
\* the channel serves on unless the dispatcher failed.
LEMMA FinishHonest ==
    ASSUME NEW from \in ChannelType, NEW result, NEW did \in BOOLEAN, Truthful(result, did),
           from.principal \in Principals, from.next = told.frames + 1, from.next <= from.limit,
           told.frames \in Nat, told.status \notin Final, ~told.past,
           Finish(from, result, did), handles' = handles
    PROVE  ChannelBooks' /\ call' = NoCall
<1> DEFINE status == Status(result)
           stops == status = "DispatcherUnavailable"
<1>1. /\ status \in {"DispatcherRefused", "DispatcherUnavailable", "Unknown", "NotSent", "Sent",
                     "PolicyRefused"}
      /\ status = "Sent" => did
      /\ status \in {"PolicyRefused", "DispatcherRefused"} => ~did
  BY DEF Truthful, Status
<1>2. /\ call' = NoCall /\ channel' = [from EXCEPT !.stopped = stops]
      /\ told' = [frames |-> told.frames + 1, sequence |-> from.next - 1, status |-> status,
                  did |-> did, past |-> told.past \/ told.status \in Final]
  BY DEF Finish, Tell
<1> HIDE DEF status
<1>3. stops \in BOOLEAN
  OBVIOUS
<1> HIDE DEF stops
<1>4. /\ channel' \in ChannelType /\ channel'.stopped = stops
      /\ channel'.principal = from.principal
      /\ channel'.next = from.next /\ channel'.limit = from.limit
  BY <1>2, <1>3 DEF ChannelType
<1>5. ChannelType' = ChannelType
  BY DEF ChannelType
<1>6. /\ told'.frames = told.frames + 1 /\ told'.sequence = from.next - 1
      /\ told'.status = status /\ told'.did = did
      /\ told' = [frames |-> told'.frames, sequence |-> told'.sequence, status |-> told'.status,
                  did |-> told'.did, past |-> told'.past]
  BY <1>2
<1>7. ~told'.past
  BY <1>2
<1>8. status \in Final => stops
  BY <1>1 DEF Final, stops
<1>9. told'.frames \in Nat /\ from.next \in Nat /\ from.limit \in Nat
  BY <1>6 DEF ChannelType
<1>10. told'.sequence = told'.frames - 1 /\ told'.frames <= channel'.limit
       /\ channel'.next = told'.frames
  BY <1>4, <1>6, <1>9
<1>11. HonestChannel'
  BY <1>1, <1>4, <1>6, <1>7, <1>8, <1>10 DEF HonestChannel
<1> QED
  BY <1>2, <1>4, <1>5, <1>6, <1>9, <1>10, <1>11 DEF ChannelBooks

-----------------------------------------------------------------------------
(* The books. *)

\* Every grant has its handle and every live handle its grant.
Matched(grants, holders) ==
    /\ \A g \in grants : \E h \in holders :
         h.grant = g.id /\ h.principal = g.principal /\ h.intent = g.intent
    /\ \A h \in holders : \E g \in grants :
         h.grant = g.id /\ h.principal = g.principal /\ h.intent = g.intent

\* The same, as the equality of what they say.
LEMMA MatchedSets ==
    ASSUME NEW grants, NEW holders
    PROVE  Matched(grants, holders) <=>
             {<<g.id, g.principal, g.intent>> : g \in grants}
               = {<<h.grant, h.principal, h.intent>> : h \in holders}
<1>1. ASSUME Matched(grants, holders)
      PROVE  {<<g.id, g.principal, g.intent>> : g \in grants}
               = {<<h.grant, h.principal, h.intent>> : h \in holders}
  BY <1>1 DEF Matched
<1>2. ASSUME {<<g.id, g.principal, g.intent>> : g \in grants}
               = {<<h.grant, h.principal, h.intent>> : h \in holders}
      PROVE  Matched(grants, holders)
  <2>1. ASSUME NEW g \in grants
        PROVE  \E h \in holders : h.grant = g.id /\ h.principal = g.principal /\ h.intent = g.intent
    <3>1. <<g.id, g.principal, g.intent>> \in {<<h.grant, h.principal, h.intent>> : h \in holders}
      BY <1>2
    <3> QED
      BY <3>1
  <2>2. ASSUME NEW h \in holders
        PROVE  \E g \in grants : h.grant = g.id /\ h.principal = g.principal /\ h.intent = g.intent
    <3>1. <<h.grant, h.principal, h.intent>> \in {<<g.id, g.principal, g.intent>> : g \in grants}
      BY <1>2
    <3> QED
      BY <3>1
  <2> QED
    BY <2>1, <2>2 DEF Matched
<1> QED
  BY <1>1, <1>2

\* A new incarnation, or none, has no grants.
LEMMA EmptyBooks ==
    ASSUME Books, owner' = NewOwner, live' = {}, handles' = handles,
           \/ brand' = brand /\ At' = "closed"
           \/ brand' = brand + 1
    PROVE  OwnerTypes' /\ Books'
<1>1. OwnerTypes'
  BY FS_EmptySet DEF OwnerTypes, NewOwner
<1>2. owner'.grants = {} /\ owner'.attempts = 0 /\ Cardinality(owner'.grants) = 0
  BY FS_EmptySet DEF NewOwner
<1>3. brand' \in Nat /\ \A h \in handles : h.brand <= brand' /\ (At' # "closed" => h.brand # brand')
  BY DEF Books, HandleType
<1>4. {<<g.id, g.principal, g.intent>> : g \in {}} = {<<h.grant, h.principal, h.intent>> : h \in {}}
  OBVIOUS
<1>5. HandleType' = HandleType
  BY DEF HandleType
<1> QED
  BY <1>1, <1>2, <1>3, <1>4, <1>5, DispatcherAssumption DEF Books

\* A count below its limit may be raised by one.
LEMMA OneMore ==
    \A n, limit \in Nat : n < limit => n + 1 \in Nat /\ n + 1 <= limit
  OBVIOUS

\* A step that leaves the grants and the handles alone, and admits at most one
\* more attempt.
LEMMA SameBooks ==
    ASSUME OwnerTypes, Books, UNCHANGED <<brand, handles, live>>,
           At' # "closed" => At # "closed",
           \/ owner' = owner
           \/ \E s : owner' = [owner EXCEPT !.stopped = s]
           \/ \E s : /\ owner' = [owner EXCEPT !.attempts = @ + 1, !.stopped = s]
                     /\ owner.attempts < DispatchLimit
    PROVE  OwnerTypes' /\ Books'
<1> DEFINE Shape(a, s) == [grants |-> owner.grants, retained |-> owner.retained,
                           next |-> owner.next, attempts |-> a, stopped |-> s]
<1>0. owner = Shape(owner.attempts, owner.stopped)
  BY DEF OwnerTypes
<1>1. \E a, s : owner' = Shape(a, s) /\ a \in Nat /\ a <= DispatchLimit
  <2>0. owner.attempts \in Nat /\ owner.attempts <= DispatchLimit /\ DispatchLimit \in Nat
    BY DispatcherAssumption DEF OwnerTypes, Books
  <2>1. owner' = owner => owner' = Shape(owner.attempts, owner.stopped)
    BY <1>0
  <2>2. ASSUME NEW s, owner' = [owner EXCEPT !.stopped = s]
        PROVE  owner' = Shape(owner.attempts, s)
    BY <1>0, <2>2
  <2>3. ASSUME NEW s, owner' = [owner EXCEPT !.attempts = @ + 1, !.stopped = s]
        PROVE  owner' = Shape(owner.attempts + 1, s)
    BY <1>0, <2>3
  <2> HIDE DEF Shape
  <2>4. \/ \E s : owner' = Shape(owner.attempts, s)
        \/ (\E s : owner' = Shape(owner.attempts + 1, s)) /\ owner.attempts < DispatchLimit
    BY <2>1, <2>2, <2>3, Zenon
  <2>5. owner.attempts < DispatchLimit =>
          owner.attempts + 1 \in Nat /\ owner.attempts + 1 <= DispatchLimit
    BY <2>0, OneMore, Zenon
  <2> QED
    BY <2>0, <2>4, <2>5, Zenon
<1>2. PICK a, s : owner' = Shape(a, s) /\ a \in Nat /\ a <= DispatchLimit
  BY <1>1
<1>3. /\ owner'.grants = owner.grants /\ owner'.next = owner.next /\ owner'.attempts = a
      /\ owner' = [grants |-> owner'.grants, retained |-> owner'.retained, next |-> owner'.next,
                   attempts |-> owner'.attempts, stopped |-> owner'.stopped]
  BY <1>2
<1> HIDE DEF Shape
<1>4. HandleType' = HandleType /\ GrantType' = GrantType
  BY DEF HandleType, GrantType
<1> QED
  BY <1>2, <1>3, <1>4 DEF OwnerTypes, Books

\* A grant takes the next number, and its handle is new.
LEMMA GrantKeeps ==
    ASSUME NEW principal \in Principals, NEW id \in Ids, OwnerTypes, Books, Grant(principal, id)
    PROVE  OwnerTypes' /\ Books'
<1> DEFINE n == owner.next + 1
           g == [id |-> n, principal |-> principal, intent |-> id]
           h == [brand |-> brand, grant |-> n, principal |-> principal, intent |-> id]
<1>1. /\ owner.next \in Nat /\ n \in Nat /\ owner.next < n /\ brand \in Nat
      /\ owner.grants \subseteq GrantType /\ IsFiniteSet(owner.grants)
      /\ \A k \in owner.grants : k.id \in Nat /\ k.id <= owner.next
  BY DEF OwnerTypes, Books, GrantType
<1>2. /\ handles' = handles \cup {h} /\ live' = live \cup {h}
      /\ brand' = brand /\ At' = At /\ At # "closed"
      /\ Cardinality(owner.grants) < GrantLimit
  BY DEF Grant, Fits, Opened, At, durable
<1>3. owner' = [grants |-> owner.grants \cup {g}, retained |-> owner.retained + Bytes[id],
                next |-> n, attempts |-> owner.attempts, stopped |-> owner.stopped]
  <2> DEFINE r == [grants |-> owner.grants, retained |-> owner.retained, next |-> owner.next,
                   attempts |-> owner.attempts, stopped |-> owner.stopped]
  <2>1. owner = r
    BY DEF OwnerTypes
  <2>2. owner' = [owner EXCEPT !.grants = owner.grants \cup {g},
                               !.retained = owner.retained + Bytes[id], !.next = n]
    BY DEF Grant
  <2> HIDE DEF n, g
  <2> QED
    BY <2>1, <2>2
<1>4. /\ owner'.grants = owner.grants \cup {g} /\ owner'.next = n
      /\ owner'.attempts = owner.attempts
      /\ owner' = [grants |-> owner'.grants, retained |-> owner'.retained, next |-> owner'.next,
                   attempts |-> owner'.attempts, stopped |-> owner'.stopped]
  BY <1>3
<1>5. /\ h \in HandleType /\ h.brand = brand /\ h.grant = n /\ h.principal = principal
      /\ h.intent = id
      /\ g \in GrantType /\ g.id = n /\ g.principal = principal /\ g.intent = id
  BY <1>1 DEF HandleType, GrantType
<1> HIDE DEF n, g, h
<1>6. /\ \A k \in owner.grants : k.id # n /\ k.id <= n
      /\ \A k \in handles : k.brand \in Nat /\ k.grant \in Nat /\ k.brand <= brand
      /\ \A k \in handles : k.brand = brand => k.grant # n /\ k.grant <= n
  BY <1>1, <1>2 DEF Books, HandleType
<1>7. IsFiniteSet(owner.grants \cup {g})
      /\ Cardinality(owner.grants \cup {g}) = Cardinality(owner.grants) + 1
  BY <1>1, <1>5, <1>6, FS_AddElement
<1>8. Cardinality(owner.grants \cup {g}) <= GrantLimit
  BY <1>1, <1>2, <1>7, FS_CardinalityType, DispatcherAssumption
<1>9. OwnerTypes'
  <2>1. GrantType' = GrantType
    BY DEF GrantType
  <2> QED
    BY <1>1, <1>4, <1>5, <1>7, <2>1 DEF OwnerTypes
<1>10. Matched(owner.grants \cup {g}, live \cup {h})
  <2>1. Matched(owner.grants, live)
    BY MatchedSets DEF Books
  <2> QED
    BY <1>5, <2>1 DEF Matched
<1>11. {<<k.id, k.principal, k.intent>> : k \in owner'.grants}
         = {<<k.grant, k.principal, k.intent>> : k \in live'}
  BY <1>2, <1>4, <1>10, MatchedSets
<1>12. \A j, k \in handles' : j.brand = k.brand /\ j.grant = k.grant => j = k
  BY <1>2, <1>5, <1>6 DEF Books
<1>13. HandleType' = HandleType
  BY DEF HandleType
<1>14. /\ handles' \subseteq HandleType' /\ live' \subseteq handles' /\ brand' \in Nat
       /\ \A k \in live' : k.brand = brand'
       /\ \A k \in handles' : k.brand <= brand'
       /\ At' # "closed" => \A k \in handles' : k.brand = brand' => k.grant <= owner'.next
  BY <1>1, <1>2, <1>4, <1>5, <1>6, <1>13 DEF Books
<1>15. /\ \A j, k \in owner'.grants : j.id = k.id => j = k
       /\ \A k \in owner'.grants : k.id <= owner'.next
  BY <1>1, <1>4, <1>5, <1>6 DEF Books
<1>16. Cardinality(owner'.grants) <= GrantLimit /\ owner'.attempts <= DispatchLimit
  BY <1>4, <1>8 DEF Books
<1> QED
  BY <1>9, <1>11, <1>12, <1>14, <1>15, <1>16 DEF Books

\* Revoking a handle removes exactly its grant.
LEMMA RevokeKeeps ==
    ASSUME NEW handle \in handles, OwnerTypes, Books, Revoke(handle)
    PROVE  OwnerTypes' /\ Books'
<1> DEFINE left == owner.grants \ Selected(handle)
<1>1. /\ UNCHANGED <<brand, handles>> /\ live' = live \ {handle} /\ At' = At
      /\ handle.brand = brand
  BY DEF Revoke, At, durable
<1>2. \E r : owner' = [grants |-> left, retained |-> r, next |-> owner.next,
                       attempts |-> owner.attempts, stopped |-> owner.stopped]
  <2> DEFINE r == [grants |-> owner.grants, retained |-> owner.retained, next |-> owner.next,
                   attempts |-> owner.attempts, stopped |-> owner.stopped]
             kept == owner.retained - BytesOf(Selected(handle))
  <2>1. owner = r
    BY DEF OwnerTypes
  <2>2. owner' = [owner EXCEPT !.grants = left, !.retained = kept]
    BY DEF Revoke
  <2> HIDE DEF left, kept
  <2>3. owner' = [grants |-> left, retained |-> kept, next |-> owner.next,
                  attempts |-> owner.attempts, stopped |-> owner.stopped]
    BY <2>1, <2>2
  <2> QED
    BY <2>3
<1>3. /\ owner'.grants = left /\ owner'.next = owner.next /\ owner'.attempts = owner.attempts
      /\ owner' = [grants |-> owner'.grants, retained |-> owner'.retained, next |-> owner'.next,
                   attempts |-> owner'.attempts, stopped |-> owner'.stopped]
  BY <1>2
<1>4. /\ left \subseteq owner.grants /\ IsFiniteSet(left)
      /\ Cardinality(left) <= Cardinality(owner.grants)
      /\ Cardinality(left) \in Nat /\ Cardinality(owner.grants) \in Nat
  BY FS_Subset, FS_CardinalityType DEF OwnerTypes
<1>5. left \subseteq GrantType /\ GrantType' = GrantType /\ HandleType' = HandleType
  BY <1>4 DEF OwnerTypes, GrantType, HandleType
<1>6. OwnerTypes'
  BY <1>3, <1>4, <1>5 DEF OwnerTypes
<1>7. Cardinality(left) <= GrantLimit
  BY <1>4, DispatcherAssumption DEF Books
<1>8. Matched(left, live \ {handle})
  <2>1. Matched(owner.grants, live)
    BY MatchedSets DEF Books
  <2>2. \A h \in live : h \in handles /\ h.brand = brand
    BY DEF Books
  <2>3. \A h \in live : h.grant = handle.grant => h = handle
    BY <1>1, <2>2 DEF Books
  <2>4. \A g \in owner.grants : g \in left <=> g.id # handle.grant
    BY DEF Selected
  <2> HIDE DEF left
  <2>5. \A g \in left : \E h \in live \ {handle} :
          h.grant = g.id /\ h.principal = g.principal /\ h.intent = g.intent
    BY <1>4, <2>1, <2>4 DEF Matched
  <2>6. \A h \in live \ {handle} : \E g \in left :
          h.grant = g.id /\ h.principal = g.principal /\ h.intent = g.intent
    BY <2>1, <2>3, <2>4 DEF Matched
  <2> QED
    BY <2>5, <2>6 DEF Matched
<1>9. {<<k.id, k.principal, k.intent>> : k \in owner'.grants}
        = {<<k.grant, k.principal, k.intent>> : k \in live'}
  BY <1>1, <1>3, <1>8, MatchedSets
<1> HIDE DEF left
<1> QED
  BY <1>1, <1>3, <1>4, <1>5, <1>6, <1>7, <1>9 DEF Books

-----------------------------------------------------------------------------
(* The steps of the dispatcher. *)

\* Everything but the relay.
Desk == OwnerTypes /\ Books /\ ChannelBooks /\ CallBooks

\* No send is under way while the dispatcher waits for a call.
LEMMA IdleRelay ==
    ASSUME CallBooks, Idle
    PROVE  At \notin Proved!Sending
  BY DispatcherAssumption DEF CallBooks, Idle, NoCall

\* A channel keeps its books while it is left alone; new handles change nothing.
LEMMA SameChannel ==
    ASSUME ChannelBooks, UNCHANGED <<channel, told>>, handles \subseteq handles'
    PROVE  ChannelBooks'
<1>1. channel \in ChannelType'
  BY DEF ChannelBooks, ChannelType
<1>2. HonestChannel'
  BY DEF ChannelBooks, HonestChannel
<1> QED
  BY <1>1, <1>2 DEF ChannelBooks

\* A protocol violation is told under no sequence number and stops the channel.
LEMMA ViolateKeeps ==
    ASSUME Desk, Idle, ~channel.stopped, NEW error \in {"Format", "Sequence", "Slot", "Limit"},
           Violate(error), UNCHANGED <<brand, handles, live>>
    PROVE  Desk'
<1>1. /\ channel' = [channel EXCEPT !.stopped = TRUE]
      /\ told' = [frames |-> told.frames + 1, sequence |-> None, status |-> error,
                  did |-> FALSE, past |-> told.past \/ told.status \in Final]
      /\ UNCHANGED <<owner, call>> /\ At' = At /\ relay' = relay
  BY DEF Violate, Stop, Tell, durable, At
<1>2. channel \in ChannelType /\ told.frames \in Nat /\ ~told.past /\ told.status \notin Final
  BY DEF Desk, ChannelBooks, HonestChannel
<1>3. /\ channel' \in ChannelType /\ channel'.stopped = TRUE /\ ChannelType' = ChannelType
  BY <1>1, <1>2 DEF ChannelType
<1>4. /\ told'.frames = told.frames + 1 /\ told'.sequence = None /\ told'.status = error
      /\ told' = [frames |-> told'.frames, sequence |-> told'.sequence, status |-> told'.status,
                  did |-> told'.did, past |-> told'.past]
  BY <1>1
<1>5. ~told'.past
  BY <1>1, <1>2
<1>6. HonestChannel'
  BY <1>3, <1>4, <1>5 DEF HonestChannel
<1>7. ChannelBooks'
  BY <1>2, <1>3, <1>4, <1>6 DEF ChannelBooks
<1>8. CallBooks'
  <2>1. At \notin Proved!Sending
    BY IdleRelay DEF Desk
  <2> QED
    BY <1>1, <2>1 DEF CallBooks, Proved!Sending
<1>9. OwnerTypes' /\ Books'
  BY <1>1, SameBooks DEF Desk
<1> QED
  BY <1>7, <1>8, <1>9 DEF Desk

\* An admitted call is the principal's own, under a live handle and within the
\* budget; any other answer has no effect to tell of.
LEMMA AdmissionCases ==
    ASSUME NEW principal, NEW tenant \in BOOLEAN, NEW handle, NEW readable \in BOOLEAN,
           owner.attempts \in Nat
    PROVE  LET admission == Admission(principal, tenant, handle, readable)
           IN  /\ admission # Admitted => Truthful(admission, FALSE)
               /\ admission = Admitted =>
                    /\ handle.brand = brand /\ principal = handle.principal
                    /\ Selected(handle) # {} /\ owner.attempts < DispatchLimit
<1> DEFINE facts == Facts(principal, tenant, handle)
           admission == Admission(principal, tenant, handle, readable)
<1>1. \A reason : Refused(reason).tag = "Refused" /\ Failed(reason).tag = "Failed"
  BY DEF Refused, Failed
<1>2. Admitted.tag = "Admitted"
  BY DEF Admitted
<1>3. \/ \E reason : admission = Refused(reason) \/ admission = Failed(reason)
      \/ admission = Admitted /\ Unmet(facts) = {} /\ ~(owner.attempts >= DispatchLimit)
  BY Zenon DEF Admission
<1>4. Len(facts) = 5 /\ (facts[1][2] <=> handle.brand = brand)
      /\ (facts[3][2] <=> principal = handle.principal) /\ (facts[4][2] <=> Selected(handle) # {})
  BY DEF Facts
<1> HIDE DEF facts, admission
<1>5. Unmet(facts) = {} =>
        handle.brand = brand /\ principal = handle.principal /\ Selected(handle) # {}
  BY <1>4 DEF Unmet
<1>6. ~(owner.attempts >= DispatchLimit) => owner.attempts < DispatchLimit
  BY DispatcherAssumption
<1>7. admission # Admitted => Truthful(admission, FALSE)
  BY <1>1, <1>3 DEF Truthful
<1>8. admission = Admitted =>
         /\ handle.brand = brand /\ principal = handle.principal
         /\ Selected(handle) # {} /\ owner.attempts < DispatchLimit
  BY <1>1, <1>2, <1>3, <1>5, <1>6
<1> QED
  BY <1>7, <1>8 DEF admission

\* A handle of this incarnation whose number is granted is live.
LEMMA GrantedIsLive ==
    ASSUME Books, NEW handle \in handles, handle.brand = brand, Selected(handle) # {}
    PROVE  handle \in live
<1>1. PICK g \in owner.grants : g.id = handle.grant
  BY DEF Selected
<1>2. Matched(owner.grants, live)
  BY MatchedSets DEF Books
<1>3. PICK h \in live : h.grant = g.id
  BY <1>2 DEF Matched
<1> QED
  BY <1>1, <1>3 DEF Books

\* An admitted send: the relay vetoes it, and the worker is told so, or it is
\* under way for the live handle that the channel's principal presented.
LEMMA AttemptKeeps ==
    ASSUME Desk, RelayTypes, NEW from \in ChannelType, NEW handle \in live,
           from.principal \in Principals, from.principal = handle.principal,
           from.next = told.frames + 1, from.next <= from.limit,
           ~told.past, told.status \notin Final, owner.attempts < DispatchLimit,
           Attempt(from, handle), UNCHANGED <<brand, handles, live>>
    PROVE  Desk'
<1>0. At' = relay'[Self].at
  BY DEF At
<1>1. Relay!Handle(Self, handle.intent)
  BY DEF Attempt
<1>2. At = "ready" /\ (At' = "ready" \/ (At' = "reserve" /\ relay'[Self].sending = handle.intent))
  BY <1>1, RelayMoves
<1>3. OwnerTypes' /\ Books'
  <2>1. \E s : owner' = [owner EXCEPT !.attempts = @ + 1, !.stopped = s]
    BY DEF Attempt
  <2> QED
    BY <1>2, <2>1, SameBooks DEF Desk
<1>4. told.frames \in Nat
  BY DEF Desk, ChannelBooks
<1>5. CASE At' = "ready"
  <2>1. Finish(from, Answered("PolicyRefused"), FALSE)
    BY <1>0, <1>5 DEF Attempt
  <2>2. Truthful(Answered("PolicyRefused"), FALSE)
    BY DEF Truthful, Answered
  <2>3. ChannelBooks'
    BY <1>4, <2>1, <2>2, FinishHonest
  <2> QED
    BY <1>3, <1>5, <2>3 DEF Desk, CallBooks, Proved!Sending
<1>6. CASE At' = "reserve" /\ relay'[Self].sending = handle.intent
  <2>1. /\ call' = [principal |-> from.principal, handle |-> handle, did |-> FALSE]
        /\ channel' = [from EXCEPT !.stopped = TRUE]
        /\ told' = told
    BY <1>0, <1>6 DEF Attempt
  <2>2. /\ channel' \in ChannelType /\ channel'.stopped = TRUE /\ ChannelType' = ChannelType
        /\ channel'.principal = from.principal /\ channel'.next = from.next
        /\ channel'.limit = from.limit
    BY <2>1 DEF ChannelType
  <2>3. HonestChannel /\ from.limit \in Nat
    BY DEF Desk, ChannelBooks, ChannelType
  <2>4. told.sequence # None => told.frames <= from.limit
    BY <1>4, <2>3
  <2>5. HonestChannel'
    BY <2>1, <2>2, <2>3, <2>4 DEF HonestChannel
  <2>6. ChannelBooks'
    BY <2>1, <2>2, <2>5 DEF Desk, ChannelBooks
  <2>7. CallBooks'
    <3>1. /\ call' = [principal |-> call'.principal, handle |-> call'.handle, did |-> call'.did]
          /\ call'.principal = from.principal /\ call'.handle = handle /\ call'.did = FALSE
      BY <2>1
    <3> QED
      BY <1>6, <2>1, <2>2, <3>1 DEF CallBooks
  <2> QED
    BY <1>3, <2>6, <2>7 DEF Desk
<1> QED
  BY <1>2, <1>5, <1>6

\* A frame of the worker keeps the books, whatever it says and is answered.
LEMMA FrameKeeps ==
    ASSUME Desk, RelayTypes, NEW wellFormed \in BOOLEAN, NEW sequence, NEW slot,
           Frame(wellFormed, sequence, slot)
    PROVE  Desk' /\ (\/ UNCHANGED <<row, relay, invoked>>
                     \/ \E id \in Ids : Relay!Handle(Self, id))
<1> DEFINE from == [channel EXCEPT !.next = @ + 1]
<1>1. Idle /\ ~channel.stopped /\ UNCHANGED <<brand, handles, live>>
  BY DEF Frame
<1>2. /\ channel \in ChannelType /\ told.frames \in Nat /\ ~told.past /\ told.status \notin Final
      /\ channel.principal \in Principals /\ channel.next = told.frames
      /\ handles \subseteq HandleType
  BY <1>1 DEF Desk, ChannelBooks, HonestChannel, Books
<1>3. ASSUME NEW error \in {"Format", "Sequence", "Slot", "Limit"}, Violate(error)
      PROVE  Desk' /\ UNCHANGED <<row, relay, invoked>>
  BY <1>1, <1>3, ViolateKeeps DEF Violate, durable
<1>4. \/ \E error \in {"Format", "Sequence", "Slot", "Limit"} : Violate(error)
      \/ slot \in channel.table /\ ~(channel.next >= channel.limit) /\ Dispatch(from, slot)
  BY Zenon DEF Frame
<1>5. ASSUME slot \in channel.table, ~(channel.next >= channel.limit), Dispatch(from, slot)
      PROVE  Desk' /\ (UNCHANGED <<row, relay, invoked>> \/ \E id \in Ids : Relay!Handle(Self, id))
  <2>1. /\ from \in ChannelType /\ from.principal = channel.principal
        /\ from.next = told.frames + 1 /\ from.limit = channel.limit
        /\ from.tenant = channel.tenant
    BY <1>2 DEF ChannelType
  <2>2. /\ from.next <= from.limit /\ from.tenant \in BOOLEAN
        /\ from.principal \in Principals /\ slot \in handles
    BY <1>2, <1>5, <2>1 DEF ChannelType
  <2> HIDE DEF from
  <2>3. PICK readable \in BOOLEAN :
           LET admission == Admission(from.principal, from.tenant, slot, readable)
           IN  IF admission = Admitted THEN Attempt(from, slot)
               ELSE Finish(from, admission, FALSE) /\ UNCHANGED <<relay, row, invoked, owner>>
    BY <1>5 DEF Dispatch
  <2> DEFINE admission == Admission(from.principal, from.tenant, slot, readable)
  <2>4. /\ admission # Admitted => Truthful(admission, FALSE)
        /\ admission = Admitted =>
             /\ slot.brand = brand /\ from.principal = slot.principal
             /\ Selected(slot) # {} /\ owner.attempts < DispatchLimit
    BY <2>2, AdmissionCases, Zenon DEF Desk, OwnerTypes
  <2> HIDE DEF admission
  <2>5. CASE admission = Admitted
    <3>1. Attempt(from, slot)
      BY <2>3, <2>5 DEF admission
    <3>2. slot \in live
      BY <2>2, <2>4, <2>5, GrantedIsLive DEF Desk
    <3>3. Desk'
      BY <1>1, <1>2, <2>1, <2>2, <2>4, <2>5, <3>1, <3>2, AttemptKeeps
    <3>4. Relay!Handle(Self, slot.intent) /\ slot.intent \in Ids
      BY <1>2, <2>2, <3>1 DEF Attempt, HandleType
    <3> QED
      BY <3>3, <3>4
  <2>6. CASE admission # Admitted
    <3>1. Finish(from, admission, FALSE) /\ UNCHANGED <<relay, row, invoked, owner>>
      BY <2>3, <2>6 DEF admission
    <3>2. ChannelBooks'
      BY <1>1, <1>2, <2>1, <2>2, <2>4, <2>6, <3>1, FinishHonest
    <3>3. At' = At /\ At \notin Proved!Sending
      BY <1>1, <3>1, IdleRelay DEF At, Desk
    <3>4. OwnerTypes' /\ Books'
      BY <1>1, <3>1, <3>3, SameBooks DEF Desk
    <3>5. CallBooks'
      BY <3>3 DEF CallBooks, Proved!Sending
    <3> QED
      BY <3>1, <3>2, <3>4, <3>5 DEF Desk
  <2> QED
    BY <2>5, <2>6
<1> QED
  BY <1>3, <1>4, <1>5

\* The end of a send under way: the poisoned channel tells its worker.
LEMMA EndKeeps ==
    ASSUME Desk, At \in Proved!Sending, At' \in {"ready", "stopped"},
           NEW result, Truthful(result, call.did), Finish(channel, result, call.did),
           UNCHANGED <<brand, handles, live>>,
           owner' = owner \/ owner' = [owner EXCEPT !.stopped = FALSE]
    PROVE  Desk'
<1>1. /\ channel \in ChannelType /\ channel.principal \in Principals /\ call.did \in BOOLEAN
      /\ channel.next = told.frames + 1 /\ channel.next <= channel.limit
      /\ told.frames \in Nat /\ told.status \notin Final /\ ~told.past
  BY DEF Desk, ChannelBooks, CallBooks, HonestChannel
<1>2. ChannelBooks'
  BY <1>1, FinishHonest
<1>3. OwnerTypes' /\ Books'
  <2>1. At # "closed"
    BY DEF Proved!Sending
  <2> QED
    BY <2>1, SameBooks DEF Desk
<1>4. CallBooks'
  BY DEF CallBooks, Proved!Sending
<1> QED
  BY <1>2, <1>3, <1>4 DEF Desk

\* A send that goes on: only whether it had its effect may change.
LEMMA GoesOn ==
    ASSUME Desk, At \in Proved!Sending, At' \in Proved!Sending,
           relay'[Self].sending = relay[Self].sending,
           call' = call \/ call' = [call EXCEPT !.did = TRUE],
           UNCHANGED <<brand, handles, live, channel, told, owner>>
    PROVE  Desk'
<1>1. OwnerTypes' /\ Books'
  <2>1. At # "closed"
    BY DEF Proved!Sending
  <2> QED
    BY <2>1, SameBooks DEF Desk
<1>2. ChannelBooks'
  BY SameChannel DEF Desk
<1>3. /\ call' = [principal |-> call'.principal, handle |-> call'.handle, did |-> call'.did]
      /\ call'.principal = call.principal /\ call'.handle = call.handle
      /\ call'.did \in BOOLEAN
  <2> DEFINE c == [principal |-> call.principal, handle |-> call.handle, did |-> call.did]
  <2>1. call = c /\ call.did \in BOOLEAN
    BY DEF Desk, CallBooks
  <2>2. CASE call' = call
    BY <2>1, <2>2
  <2>3. CASE call' = [call EXCEPT !.did = TRUE]
    <3>1. call' = [c EXCEPT !.did = TRUE]
      BY <2>1, <2>3
    <3>2. call' = [principal |-> call.principal, handle |-> call.handle, did |-> TRUE]
      BY <3>1
    <3> QED
      BY <3>2
  <2> QED
    BY <2>2, <2>3
<1>4. CallBooks'
  BY <1>3 DEF Desk, CallBooks
<1> QED
  BY <1>1, <1>2, <1>4 DEF Desk

\* The steps of a send under way keep the books.
LEMMA SendKeeps ==
    ASSUME Desk, RelayTypes, Reserving \/ Invoke \/ Returning \/ Releasing
    PROVE  Desk'
<1>0. At' = relay'[Self].at
  BY DEF At
<1>1. \A error : Truthful(Failed(error), call.did)
  BY DEF Truthful, Failed
<1>2. ASSUME At \in Proved!Sending
      PROVE  \A sent \in Answers : Truthful(Answered(sent), call.did)
  <2>1. call.did \in BOOLEAN
    BY <1>2 DEF Desk, CallBooks
  <2> QED
    BY <2>1 DEF Truthful, Answered, Answers
<1>3. CASE Reserving
  <2>1. At = "reserve" /\ (\/ At' = "call" /\ relay'[Self].sending = relay[Self].sending
                           \/ At' = "stopped")
    BY <1>3, RelayMoves DEF Reserving
  <2>2. UNCHANGED <<brand, handles, live, owner>>
    BY <1>3 DEF Reserving, Poisoned, Under
  <2>3. CASE At' = "stopped"
    <3>1. Finish(channel, Failed("Reservation"), call.did)
      BY <1>0, <1>3, <2>3 DEF Reserving
    <3> QED
      BY <1>1, <2>1, <2>2, <2>3, <3>1, EndKeeps DEF Proved!Sending
  <2>4. CASE At' = "call" /\ relay'[Self].sending = relay[Self].sending
    <3>1. UNCHANGED <<channel, call, told>>
      BY <1>0, <1>3, <2>4 DEF Reserving
    <3> QED
      BY <2>1, <2>2, <2>4, <3>1, GoesOn DEF Proved!Sending
  <2> QED
    BY <2>1, <2>3, <2>4
<1>4. CASE Invoke
  <2>1. At = "call" /\ At' = "called" /\ relay'[Self].sending = relay[Self].sending
    BY <1>4, RelayMoves DEF Invoke
  <2>2. /\ UNCHANGED <<brand, handles, live, owner, channel, told>>
        /\ call' = [call EXCEPT !.did = TRUE]
    BY <1>4 DEF Invoke, Poisoned, Under
  <2> QED
    BY <2>1, <2>2, GoesOn DEF Proved!Sending
<1>5. CASE Returning
  <2>1. /\ At \in {"call", "called"}
        /\ \/ At' = "release" /\ relay'[Self].sending = relay[Self].sending
           \/ At' \in {"ready", "stopped"}
    BY <1>5, RelayMoves DEF Returning
  <2>2. UNCHANGED <<brand, handles, live>> /\ At \in Proved!Sending
    BY <1>5, <2>1 DEF Returning, Under, Proved!Sending
  <2>3. CASE At' = "release" /\ relay'[Self].sending = relay[Self].sending
    <3>1. UNCHANGED <<channel, call, told, owner>>
      BY <1>0, <1>5, <2>3 DEF Returning, Poisoned
    <3> QED
      BY <2>2, <2>3, <3>1, GoesOn DEF Proved!Sending
  <2>4. CASE At' = "stopped"
    <3>1. Finish(channel, Failed("Reservation"), call.did) /\ owner' = owner
      BY <1>0, <1>5, <2>4 DEF Returning, Poisoned
    <3> QED
      BY <1>1, <2>2, <2>4, <3>1, EndKeeps
  <2>5. CASE At' = "ready"
    <3>1. \/ /\ \E sent \in Answers : Finish(channel, Answered(sent), call.did)
             /\ owner' = [owner EXCEPT !.stopped = FALSE]
          \/ (\E error : Finish(channel, Failed(error), call.did)) /\ owner' = owner
      BY <1>0, <1>5, <2>5 DEF Returning, Poisoned
    <3>2. \E result : /\ Truthful(result, call.did) /\ Finish(channel, result, call.did)
                      /\ owner' = owner \/ owner' = [owner EXCEPT !.stopped = FALSE]
      BY <1>1, <1>2, <2>2, <3>1
    <3> QED
      BY <2>2, <2>5, <3>2, EndKeeps
  <2> QED
    BY <2>1, <2>3, <2>4, <2>5
<1>6. CASE Releasing
  <2>1. At = "release" /\ At' \in {"ready", "stopped"}
    BY <1>6, RelayMoves DEF Releasing
  <2>2. /\ UNCHANGED <<brand, handles, live, owner>>
        /\ Finish(channel, Failed("Stopped"), call.did)
    BY <1>6 DEF Releasing, Poisoned, Under
  <2> QED
    BY <1>1, <2>1, <2>2, EndKeeps DEF Proved!Sending
<1> QED
  BY <1>3, <1>4, <1>5, <1>6

\* Administration keeps the books; a channel may be bound to any principal and
\* to any handles.
LEMMA AdministerKeeps ==
    ASSUME Desk, RelayTypes, Administer
    PROVE  Desk'
<1>1. CASE Open
  <2>1. At' = "ready" /\ owner' = NewOwner /\ live' = {} /\ brand' = brand + 1
        /\ UNCHANGED <<handles, channel, call, told>>
    BY <1>1, RelayMoves DEF Open
  <2>2. OwnerTypes' /\ Books'
    BY <2>1, EmptyBooks DEF Desk
  <2>3. ChannelBooks'
    BY <2>1, SameChannel DEF Desk
  <2> QED
    BY <2>1, <2>2, <2>3 DEF Desk, CallBooks, Proved!Sending
<1>2. CASE Drop
  <2>1. At' = "closed" /\ owner' = NewOwner /\ live' = {}
        /\ UNCHANGED <<brand, handles, channel, told>>
    BY <1>2, RelayMoves DEF Drop
  <2>2. OwnerTypes' /\ Books'
    BY <2>1, EmptyBooks DEF Desk
  <2>3. ChannelBooks'
    BY <2>1, SameChannel DEF Desk
  <2> QED
    BY <2>1, <2>2, <2>3 DEF Desk, CallBooks, Proved!Sending
<1>3. ASSUME NEW principal \in Principals, NEW id \in Ids, Grant(principal, id)
      PROVE  Desk'
  <2>1. Idle /\ At' = At /\ UNCHANGED <<channel, call, told>> /\ handles \subseteq handles'
    BY <1>3 DEF Grant, durable, At
  <2>2. OwnerTypes' /\ Books'
    BY <1>3, GrantKeeps DEF Desk
  <2>3. ChannelBooks'
    BY <2>1, SameChannel DEF Desk
  <2>4. At \notin Proved!Sending
    BY <2>1, IdleRelay DEF Desk
  <2> QED
    BY <2>1, <2>2, <2>3, <2>4 DEF Desk, CallBooks, Proved!Sending
<1>4. ASSUME NEW handle \in handles, Revoke(handle)
      PROVE  Desk'
  <2>1. Idle /\ At' = At /\ UNCHANGED <<channel, call, told, handles>>
    BY <1>4 DEF Revoke, durable, At
  <2>2. OwnerTypes' /\ Books'
    BY <1>4, RevokeKeeps DEF Desk
  <2>3. ChannelBooks'
    BY <2>1, SameChannel DEF Desk
  <2>4. At \notin Proved!Sending
    BY <2>1, IdleRelay DEF Desk
  <2> QED
    BY <2>1, <2>2, <2>3, <2>4 DEF Desk, CallBooks, Proved!Sending
<1>5. ASSUME NEW principal \in Principals, NEW tenant \in BOOLEAN, NEW limit \in RequestLimits,
             OpenChannel(principal, tenant, handles, limit)
      PROVE  Desk'
  <2>1. /\ Idle /\ At' = At /\ UNCHANGED <<brand, owner, handles, live, call>>
        /\ channel' = [principal |-> principal, tenant |-> tenant, table |-> handles,
                       next |-> 0, limit |-> limit, stopped |-> FALSE]
        /\ told' = [frames |-> 0, sequence |-> None, status |-> "None", did |-> FALSE,
                    past |-> FALSE]
    BY <1>5 DEF OpenChannel, durable, At, Untold
  <2>2. limit \in Nat
    BY DispatcherAssumption
  <2>3. channel' \in ChannelType' /\ ~channel'.stopped /\ channel'.principal = principal
        /\ channel'.next = 0
    BY <2>1, <2>2 DEF ChannelType
  <2>4. HonestChannel'
    BY <2>1 DEF HonestChannel, Final
  <2>5. ChannelBooks'
    BY <2>1, <2>3, <2>4 DEF ChannelBooks
  <2>6. OwnerTypes' /\ Books'
    BY <2>1, SameBooks DEF Desk
  <2>7. At \notin Proved!Sending
    BY <2>1, IdleRelay DEF Desk
  <2> QED
    BY <2>1, <2>5, <2>6, <2>7 DEF Desk, CallBooks, Proved!Sending
<1> QED
  BY <1>1, <1>2, <1>3, <1>4, <1>5 DEF Administer

-----------------------------------------------------------------------------
(* The invariant. *)

\* Every step of the dispatcher is a step of the relay or leaves it alone.
LEMMA RelaysOnly ==
    ASSUME IInv, [Next]_vars
    PROVE  [Proved!Next]_Proved!vars
<1>0. RelayTypes /\ Desk
  BY DEF IInv, Desk, RelayTypes, Proved!IInv, Proved!Types
<1>1. ASSUME UNCHANGED <<row, relay, invoked>>
      PROVE  [Proved!Next]_Proved!vars
  BY <1>1 DEF Proved!vars
<1>2. ASSUME \/ Relay!Open(Self) \/ Relay!Drop(Self) \/ (\E id \in Ids : Relay!Handle(Self, id))
             \/ Relay!ReserveStep(Self) \/ Relay!Invoke(Self) \/ Relay!Return(Self)
             \/ Relay!ReleaseStep(Self)
      PROVE  Proved!Next
  BY <1>2, SameRelay, Zenon DEF Proved!Next
<1>3. CASE UNCHANGED vars
  BY <1>1, <1>3 DEF vars, durable
<1>4. CASE Administer
  BY <1>1, <1>2, <1>4 DEF Administer, Open, Drop, Grant, Revoke, OpenChannel, durable
<1>5. CASE Work
  <2>1. \E wellFormed \in BOOLEAN : \E sequence, slot : Frame(wellFormed, sequence, slot)
    BY <1>5, Zenon DEF Work
  <2>2. UNCHANGED <<row, relay, invoked>> \/ \E id \in Ids : Relay!Handle(Self, id)
    BY <1>0, <2>1, FrameKeeps
  <2> QED
    BY <1>1, <1>2, <2>2
<1>6. CASE Reserving \/ Invoke \/ Returning \/ Releasing
  BY <1>2, <1>6 DEF Reserving, Invoke, Returning, Releasing
<1> QED
  BY <1>3, <1>4, <1>5, <1>6 DEF Next

\* The lifetime is one the relay's proofs are about.
LEMMA LifetimeHasGuard ==
    /\ Policies \in Seq([kind: {"AtMostOne", "Allowlist"}, capacity: Nat,
                         recipients: SUBSET STRING])
    /\ Proved!Guards # {}
    /\ Destination \in [Ids -> STRING]
    /\ None \notin Ids
  BY LifetimeAssumption, DispatcherAssumption DEF Proved!Guards

\* The invariant holds initially: the relay's does, and there is nothing else.
LEMMA InitIInv ==
    Init => IInv
<1> SUFFICES ASSUME Init PROVE IInv
  OBVIOUS
<1>1. Proved!IInv
  BY SameRelay, LifetimeHasGuard, Proved!InitIInv DEF Init
<1>2. OwnerTypes
  BY FS_EmptySet DEF Init, NewOwner, OwnerTypes
<1>3. Books
  <2>1. /\ owner.grants = {} /\ owner.attempts = 0 /\ Cardinality(owner.grants) = 0
        /\ handles = {} /\ live = {} /\ brand = 0
    BY FS_EmptySet DEF Init, NewOwner
  <2> QED
    BY <2>1, DispatcherAssumption DEF Books
<1>4. ChannelBooks
  <2>1. channel \in ChannelType /\ channel.stopped = TRUE
    BY DEF Init, NoChannel, ChannelType
  <2>2. HonestChannel
    BY DEF Init, Untold, HonestChannel, Final
  <2> QED
    BY <2>1, <2>2 DEF Init, Untold, ChannelBooks
<1>5. CallBooks
  <2>1. At = "closed"
    BY DEF Init, Relay!Init, Relay!Down, At
  <2> QED
    BY <2>1 DEF CallBooks, Proved!Sending
<1> QED
  BY <1>1, <1>2, <1>3, <1>4, <1>5 DEF IInv

\* Every step keeps it: the relay's part by the relay's own proof.
LEMMA NextIInv ==
    IInv /\ [Next]_vars => IInv'
<1> SUFFICES ASSUME IInv, [Next]_vars PROVE IInv'
  OBVIOUS
<1>0. RelayTypes /\ Desk
  BY DEF IInv, Desk, RelayTypes, Proved!IInv, Proved!Types
<1>1. Proved!IInv'
  BY RelaysOnly, LifetimeHasGuard, Proved!NextIInv DEF IInv
<1>2. Desk'
  <2>1. CASE Administer
    BY <1>0, <2>1, AdministerKeeps
  <2>2. CASE Work
    <3>1. \E wellFormed \in BOOLEAN : \E sequence, slot : Frame(wellFormed, sequence, slot)
      BY <2>2, Zenon DEF Work
    <3> QED
      BY <1>0, <3>1, FrameKeeps
  <2>3. CASE Reserving \/ Invoke \/ Returning \/ Releasing
    BY <1>0, <2>3, SendKeeps
  <2>4. CASE UNCHANGED vars
    <3>1. UNCHANGED <<relay, brand, owner, handles, channel, call, live, told>> /\ At' = At
      BY <2>4 DEF vars, durable, At
    <3>2. OwnerTypes' /\ Books'
      BY <1>0, <3>1, SameBooks DEF Desk
    <3>3. ChannelBooks'
      BY <1>0, <3>1, SameChannel DEF Desk
    <3>4. CallBooks'
      BY <1>0, <3>1 DEF Desk, CallBooks, Proved!Sending
    <3> QED
      BY <3>2, <3>3, <3>4 DEF Desk
  <2> QED
    BY <2>1, <2>2, <2>3, <2>4 DEF Next
<1> QED
  BY <1>1, <1>2 DEF IInv, Desk

\* The invariant holds always.
LEMMA SpecIInv ==
    Spec => []IInv
  BY InitIInv, NextIInv, PTL DEF Spec

-----------------------------------------------------------------------------
(* The theorems. *)

\* TrustedDispatcher::dispatch gives the transport an intent only under a
\* handle that is live: issued by this incarnation to this principal for this
\* intent, and not revoked.
THEOREM SendsUnderGrant ==
    Spec => InvokedUnderGrant
<1> DEFINE Allowed == \A id \in Ids : invoked'[id] # invoked[id] =>
                        /\ call.handle \in live
                        /\ call.handle.principal = call.principal
                        /\ call.handle.intent = id
<1>1. ASSUME IInv, [Next]_vars PROVE [Allowed]_vars
  <2>0. RelayTypes /\ Desk
    BY <1>1 DEF IInv, Desk, RelayTypes, Proved!IInv, Proved!Types
  <2>1. CASE Invoke
    <3>1. /\ At = "call" /\ invoked' = [invoked EXCEPT ![relay[Self].sending] = @ + 1]
      BY <2>0, <2>1, RelayMoves DEF Invoke
    <3>2. \A id \in Ids : invoked'[id] # invoked[id] => id = relay[Self].sending
      BY <2>0, <3>1 DEF RelayTypes
    <3>3. /\ call.handle \in live /\ call.handle.principal = call.principal
          /\ call.handle.intent = relay[Self].sending
      BY <2>0, <3>1 DEF Desk, CallBooks, Proved!Sending
    <3> QED
      BY <3>2, <3>3
  <2>2. CASE Administer \/ Reserving \/ Returning \/ Releasing
    <3>1. UNCHANGED invoked
      BY <2>0, <2>2, RelayMoves DEF Administer, Open, Drop, Grant, Revoke, OpenChannel, durable,
         Reserving, Returning, Releasing
    <3> QED
      BY <3>1
  <2>3. CASE Work
    <3>1. \E wellFormed \in BOOLEAN : \E sequence, slot : Frame(wellFormed, sequence, slot)
      BY <2>3, Zenon DEF Work
    <3>2. UNCHANGED invoked
      BY <2>0, <3>1, FrameKeeps, RelayMoves
    <3> QED
      BY <3>2
  <2> QED
    BY <1>1, <2>1, <2>2, <2>3 DEF Next
<1> QED
  BY <1>1, SpecIInv, PTL DEF Spec, InvokedUnderGrant

\* Channel::dispatch tells its worker sequence numbers without a gap, nothing
\* after a violation or a failure, and of an effect only what the send had.
THEOREM WorkersToldTheTruth ==
    Spec => []HonestChannel
<1>1. IInv => HonestChannel
  BY DEF IInv, ChannelBooks
<1> QED
  BY <1>1, SpecIInv, PTL

\* The bytes the owner has counted are those of its grants.
Retained ==
    /\ owner.retained \in Nat /\ owner.retained = BytesOf(owner.grants)
    /\ owner.retained <= ByteLimit

\* The bytes of grants: of none, of one more, and of one less.
LEMMA BytesAdded ==
    ASSUME NEW G \in SUBSET GrantType, IsFiniteSet(G)
    PROVE  /\ BytesOf({}) = 0 /\ BytesOf(G) \in Nat
           /\ \A g \in G : /\ BytesOf(G \ {g}) \in Nat /\ Bytes[g.intent] \in Nat
                           /\ BytesOf(G) = Bytes[g.intent] + BytesOf(G \ {g})
<1> DEFINE f == [g \in G |-> Bytes[g.intent]]
<1>1. \A g \in G : Bytes[g.intent] \in Nat
  BY DispatcherAssumption DEF GrantType
<1>2. f \in [G -> Nat] /\ f \in [G -> Int] /\ \A g \in G : f[g] = Bytes[g.intent]
  BY <1>1
<1>3. \A s \in SUBSET G : BytesOf(s) = Total(On(f, s))
  <2> TAKE s \in SUBSET G
  <2>1. On(f, s) = [g \in s |-> Bytes[g.intent]]
    BY DEF On
  <2> QED BY <2>1 DEF BytesOf, Total
<1> HIDE DEF f
<1>4. /\ Total(On(f, {})) = 0
      /\ \A g \in G : Total(On(f, G)) = f[g] + Total(On(f, G \ {g}))
  <2>1. G \in SUBSET G
    OBVIOUS
  <2> QED BY <1>2, <2>1, SumOfParts
<1>5. \A s \in SUBSET G : Total(On(f, s)) \in Nat
  BY <1>2, PartsWithinSum
<1> QED BY <1>1, <1>2, <1>3, <1>4, <1>5

\* grant counts its bytes once.
LEMMA GrantCounts ==
    ASSUME NEW principal \in Principals, NEW id \in Ids, OwnerTypes, Books, Retained,
           Grant(principal, id)
    PROVE  Retained'
<1> DEFINE g == [id |-> owner.next + 1, principal |-> principal, intent |-> id]
           G == owner.grants \cup {g}
<1>1. /\ owner = [grants |-> owner.grants, retained |-> owner.retained, next |-> owner.next,
                  attempts |-> owner.attempts, stopped |-> owner.stopped]
      /\ owner.grants \in SUBSET GrantType /\ IsFiniteSet(owner.grants) /\ owner.next \in Nat
      /\ \A k \in owner.grants : k.id <= owner.next
  BY DEF OwnerTypes, Books
<1>2. owner' = [owner EXCEPT !.grants = G, !.retained = owner.retained + Bytes[id],
                             !.next = owner.next + 1]
      /\ owner.retained + Bytes[id] <= ByteLimit
  BY DEF Grant, Fits
<1>3. g \in GrantType /\ g.id = owner.next + 1 /\ g.intent = id
  BY <1>1 DEF GrantType
<1> HIDE DEF g
<1>4. g \notin owner.grants
  BY <1>1, <1>3
<1>5. G \in SUBSET GrantType /\ IsFiniteSet(G) /\ g \in G /\ G \ {g} = owner.grants
  BY <1>1, <1>3, <1>4, FS_AddElement
<1> HIDE DEF G
<1>6. owner'.grants = G /\ owner'.retained = owner.retained + Bytes[id]
  BY <1>1, <1>2
<1>7. BytesOf(G) = Bytes[id] + BytesOf(owner.grants) /\ Bytes[id] \in Nat
  BY <1>3, <1>5, BytesAdded
<1> QED BY <1>2, <1>6, <1>7 DEF Retained

\* revoke gives back exactly the bytes of the grant it removes.
LEMMA RevokeReturns ==
    ASSUME NEW handle \in handles, OwnerTypes, Books, Retained, Revoke(handle)
    PROVE  Retained'
<1> DEFINE G == owner.grants
           T == Selected(handle)
<1>1. /\ owner = [grants |-> owner.grants, retained |-> owner.retained, next |-> owner.next,
                  attempts |-> owner.attempts, stopped |-> owner.stopped]
      /\ G \in SUBSET GrantType /\ IsFiniteSet(G)
      /\ \A j, k \in G : j.id = k.id => j = k
  BY DEF OwnerTypes, Books
<1>2. owner' = [owner EXCEPT !.grants = G \ T, !.retained = owner.retained - BytesOf(T)]
  BY DEF Revoke
<1>3. T = {} \/ \E g \in G : T = {g}
  BY <1>1 DEF Selected
<1> HIDE DEF T
<1>4. owner'.grants = G \ T /\ owner'.retained = owner.retained - BytesOf(T)
  BY <1>1, <1>2
<1>5. owner.retained \in Nat /\ owner.retained = BytesOf(G) /\ owner.retained <= ByteLimit
  BY DEF Retained
<1>6. ByteLimit \in Nat
  BY DispatcherAssumption
<1> HIDE DEF G
<1>7. CASE T = {}
  <2>1. BytesOf(T) = 0 /\ G \ T = G
    BY <1>1, <1>7, BytesAdded
  <2> QED BY <1>4, <1>5, <2>1 DEF Retained
<1>8. ASSUME NEW g \in G, T = {g} PROVE Retained'
  <2>1. /\ BytesOf(G \ {g}) \in Nat /\ Bytes[g.intent] \in Nat
        /\ BytesOf(G) = Bytes[g.intent] + BytesOf(G \ {g})
    BY <1>1, BytesAdded
  <2>2. BytesOf({g}) = Bytes[g.intent]
    <3>1. {g} \in SUBSET GrantType /\ IsFiniteSet({g}) /\ g \in {g} /\ {g} \ {g} = {}
      BY <1>1, FS_Singleton
    <3>2. BytesOf({}) = 0 /\ BytesOf({g}) = Bytes[g.intent] + BytesOf({g} \ {g})
      BY <3>1, BytesAdded
    <3>3. Bytes[g.intent] \in Nat /\ BytesOf({g}) = Bytes[g.intent] + BytesOf({})
      BY <2>1, <3>1, <3>2
    <3> QED BY <3>2, <3>3
  <2> QED BY <1>4, <1>5, <1>6, <1>8, <2>1, <2>2 DEF Retained
<1> QED BY <1>3, <1>7, <1>8

\* A dispatch counts no bytes.
LEMMA SameBytes ==
    ASSUME OwnerTypes, Retained,
           \/ owner' = owner
           \/ \E s : owner' = [owner EXCEPT !.stopped = s]
           \/ \E s : owner' = [owner EXCEPT !.attempts = @ + 1, !.stopped = s]
    PROVE  Retained'
<1>1. owner = [grants |-> owner.grants, retained |-> owner.retained, next |-> owner.next,
               attempts |-> owner.attempts, stopped |-> owner.stopped]
  BY DEF OwnerTypes
<1>2. owner'.grants = owner.grants /\ owner'.retained = owner.retained
  <2>1. ASSUME NEW s, owner' = [owner EXCEPT !.stopped = s]
        PROVE  owner'.grants = owner.grants /\ owner'.retained = owner.retained
    BY <1>1, <2>1
  <2>2. ASSUME NEW s, owner' = [owner EXCEPT !.attempts = @ + 1, !.stopped = s]
        PROVE  owner'.grants = owner.grants /\ owner'.retained = owner.retained
    BY <1>1, <2>2
  <2> QED BY <2>1, <2>2
<1> QED BY <1>2 DEF Retained

\* Every step keeps the count.
LEMMA NextRetained ==
    ASSUME IInv, Retained, [Next]_vars
    PROVE  Retained'
<1>0. OwnerTypes /\ Books
  BY DEF IInv
<1>1. CASE Open \/ Drop
  <2>1. owner' = NewOwner
    BY <1>1 DEF Open, Drop
  <2>2. owner'.grants = {} /\ owner'.retained = 0
    BY <2>1 DEF NewOwner
  <2>3. BytesOf({}) = 0
    BY FS_EmptySet, BytesAdded
  <2> QED BY <2>2, <2>3, DispatcherAssumption DEF Retained
<1>2. ASSUME NEW principal \in Principals, NEW id \in Ids, Grant(principal, id)
      PROVE  Retained'
  BY <1>0, <1>2, GrantCounts
<1>3. ASSUME NEW handle \in handles, Revoke(handle)
      PROVE  Retained'
  BY <1>0, <1>3, RevokeReturns
<1>4. ASSUME NEW principal, NEW tenant, NEW table, NEW limit,
             OpenChannel(principal, tenant, table, limit)
      PROVE  Retained'
  BY <1>0, <1>4, SameBytes DEF OpenChannel
<1>5. ASSUME NEW wellFormed, NEW sequence, NEW slot, Frame(wellFormed, sequence, slot)
      PROVE  Retained'
  <2>1. \/ \E error : Violate(error)
        \/ \E from, handle : Dispatch(from, handle)
    BY <1>5, Zenon DEF Frame
  <2>2. ASSUME NEW error, Violate(error) PROVE owner' = owner
    BY <2>2 DEF Violate
  <2>3. ASSUME NEW from, NEW handle, Dispatch(from, handle)
        PROVE  owner' = owner \/ \E s : owner' = [owner EXCEPT !.attempts = @ + 1, !.stopped = s]
    <3>1. Attempt(from, handle) \/ owner' = owner
      BY <2>3, Zenon DEF Dispatch
    <3> QED BY <3>1, Zenon DEF Attempt
  <2> QED BY <1>0, <2>1, <2>2, <2>3, SameBytes
<1>6. CASE Reserving \/ Invoke \/ Releasing
  BY <1>0, <1>6, SameBytes DEF Reserving, Invoke, Releasing, Poisoned
<1>7. CASE Returning
  <2>1. owner' = owner \/ owner' = [owner EXCEPT !.stopped = FALSE]
    <3>1. RelayTypes
      BY DEF IInv, RelayTypes, Proved!IInv, Proved!Types
    <3>2. At' \in {"release", "stopped", "ready"}
      BY <1>7, <3>1, RelayMoves DEF Returning
    <3> QED BY <1>7, <3>2 DEF Returning, Poisoned, At
  <2> QED BY <1>0, <2>1, SameBytes
<1>8. CASE UNCHANGED vars
  BY <1>0, <1>8, SameBytes DEF vars
<1>9. CASE Administer
  BY <1>1, <1>2, <1>3, <1>4, <1>9, Zenon DEF Administer
<1>10. CASE Work
  BY <1>5, <1>10, Zenon DEF Work
<1> QED BY <1>6, <1>7, <1>8, <1>9, <1>10 DEF Next

\* The grants of the owner are exactly the live handles', under numbers of
\* their own, their bytes are counted once and given back once, and neither
\* they nor the attempts exceed the limits, also after the owner was dropped
\* and opened again.
THEOREM BooksAgree ==
    Spec => []GrantBooks
<1>1. Init => Retained
  <2>1. ASSUME Init PROVE owner.grants = {} /\ owner.retained = 0
    BY <2>1 DEF Init, NewOwner
  <2>2. BytesOf({}) = 0
    BY FS_EmptySet, BytesAdded
  <2> QED BY <2>1, <2>2, DispatcherAssumption DEF Retained
<1>2. IInv /\ Retained /\ [Next]_vars => Retained'
  BY NextRetained
<1>3. IInv /\ Retained => GrantBooks
  BY DEF IInv, Books, Retained, GrantBooks
<1> QED
  BY <1>1, <1>2, <1>3, SpecIInv, PTL DEF Spec

\* The dispatcher is a client of the durable relay: what it does to the relay
\* and its row is a behaviour of the relay.
THEOREM DispatcherIsRelay ==
    Spec => Proved!Spec
<1>1. Init => Proved!Init
  BY SameRelay DEF Init
<1>2. IInv /\ [Next]_vars => [Proved!Next]_Proved!vars
  BY RelaysOnly
<1> QED
  BY <1>1, <1>2, SpecIInv, PTL DEF Spec, Proved!Spec

\* So no intent is given to the transport twice, whatever grants and handles
\* of it exist and however often the owner is dropped in the middle of a send.
THEOREM IntentsSentOnce ==
    Spec => []Relay!InvokedOnce
<1>1. Proved!InvokedOnce => Relay!InvokedOnce
  BY DEF Proved!InvokedOnce, Relay!InvokedOnce
<1>2. Proved!Spec => []Proved!InvokedOnce
  BY LifetimeHasGuard, Proved!SendsOnce
<1> QED
  BY <1>1, <1>2, DispatcherIsRelay, PTL

=============================================================================
