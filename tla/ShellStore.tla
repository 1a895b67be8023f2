----------------------------- MODULE ShellStore -----------------------------
(***************************************************************************)
(* The durable store D of zeno-fcis-shell, effects/simulation.rs, and what *)
(* one commit request does to it.  The simulated application is a counter  *)
(* of bounded width: a publication adds its body to the counter in its     *)
(* prestate, and every commit carries two deliveries.                      *)
(*                                                                         *)
(* Hashes are ideal: the subject of a publication is the publication, the  *)
(* history chain is the sequence of subjects hashed into it, a delivery id *)
(* is the chain and the ordinal it is computed from.                       *)
(***************************************************************************)
EXTENDS Ports, Sequences

CONSTANTS
    Keys,       \* replay keys
    MaxCount    \* largest counter value (u8::MAX)

ASSUME MaxCountAssumption == MaxCount \in Nat

Entries == [key: Keys, version: Nat, publication: Publications]

(***************************************************************************)
(* A delivery record is its id with its owning version, its ordinal in the *)
(* outbox lane, the counter value it carries, and whether it is            *)
(* acknowledged.                                                           *)
(***************************************************************************)
Deliveries(version, chain, state) ==
    [i \in 1 .. 2 |->
        [id |-> DeliveryId(chain, i - 1), version |-> version,
         ordinal |-> i - 1, payload |-> state, acked |-> FALSE]]

Genesis ==
    [state |-> 0, chain |-> << >>, commits |-> << >>,
     receipts |-> << >>, replays |-> << >>, outbox |-> << >>]

Version(d) == Len(d.commits)

Pending(d) == SelectSeq(d.outbox, LAMBDA record : ~record.acked)

\* Mutant: the entry records the version it was computed for.
AppliedAtPrestate(d, key, pub) ==
    LET chain == Append(d.chain, pub)
        state == d.state + pub.body
    IN  [state    |-> state,
         chain    |-> chain,
         commits  |-> Append(d.commits, [key |-> key, version |-> Version(d),
                                         publication |-> pub]),
         receipts |-> Append(d.receipts, chain),
         replays  |-> Append(d.replays, key),
         outbox   |-> d.outbox \o Deliveries(Version(d) + 1, chain, state)]

\* The durable state after the commit of `pub' under `key'.
Applied(d, key, pub) ==
    LET chain == Append(d.chain, pub)
        version == Version(d) + 1
        state == d.state + pub.body
    IN  [state    |-> state,
         chain    |-> chain,
         commits  |-> Append(d.commits, [key |-> key, version |-> version,
                                         publication |-> pub]),
         receipts |-> Append(d.receipts, chain),
         replays  |-> Append(d.replays, key),
         outbox   |-> d.outbox \o Deliveries(version, chain, state)]

Refuse(code) == [tag |-> "Refuse", code |-> code]
Replay(receipt) == [tag |-> "Replay", receipt |-> receipt]
Apply(after, receipt) == [tag |-> "Apply", after |-> after, receipt |-> receipt]

VersionMatches(d, mode) ==
    mode.kind = "Unversioned" \/ mode.expected = Version(d)

HasKey(d, key) == \E i \in 1 .. Len(d.replays) : d.replays[i] = key

Position(d, key) == CHOOSE i \in 1 .. Len(d.replays) : d.replays[i] = key

\* Mutant: a replay answers with the current head.
HeadReceipt(d, key) == Receipt(Version(d), d.chain, "IdempotentReplay")

\* The first position's certificate, marked as a replay.
OriginalReceipt(d, key) ==
    LET i == Position(d, key)
    IN  Receipt(d.commits[i].version, d.receipts[i], "IdempotentReplay")

\* The expected version is compared before the replay key is looked up.
Decide(d, key, pub, mode) ==
    IF ~VersionMatches(d, mode) THEN Refuse("Concurrent")
    ELSE IF HasKey(d, key)
         THEN IF d.commits[Position(d, key)].publication = pub
              THEN Replay(OriginalReceipt(d, key))
              ELSE Refuse("Replay")
    ELSE IF ~pub.genuine THEN Refuse("Identity")
    ELSE IF pub.prestate # d.state THEN Refuse("PreState")
    ELSE IF mode.kind = "BoundedAt" /\ pub.size > mode.cap THEN Refuse("Capacity")
    ELSE IF d.state + pub.body > MaxCount THEN Refuse("Range")
    ELSE LET after == Applied(d, key, pub)
         IN  Apply(after, Receipt(Version(after), after.chain, "Committed"))
=============================================================================
