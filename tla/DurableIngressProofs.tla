------------------------ MODULE DurableIngressProofs ------------------------
(***************************************************************************)
(* Proofs about DurableIngress, for any clients, commands, writes of other *)
(* connections, failures and retries, and for both kinds of terminal: the  *)
(* endpoint judges every request by the audited history, and every answer  *)
(* it gives is true.                                                       *)
(***************************************************************************)
EXTENDS DurableIngress, SequenceTheorems, TLAPS

-----------------------------------------------------------------------------
(* The inductive invariant, conjunct by conjunct; d is the store. *)

\* A store with one receipt and one replay key for each commit.
Store(d) ==
    /\ d = [state |-> d.state, chain |-> d.chain, commits |-> d.commits,
            receipts |-> d.receipts, replays |-> d.replays, outbox |-> d.outbox]
    /\ d.state \in Nat /\ d.chain \in Seq(Publications) /\ d.commits \in Seq(Entries)
    /\ d.receipts \in Seq(Seq(Publications)) /\ d.replays \in Seq(Keys)
    /\ Len(d.chain) = Version(d) /\ Len(d.receipts) = Version(d) /\ Len(d.replays) = Version(d)
    /\ \A i \in 1 .. Version(d) :
         /\ d.commits[i].version = i /\ d.replays[i] = d.commits[i].key
         /\ d.receipts[i] = SubSeq(d.chain, 1, i)
    /\ \A i, j \in 1 .. Version(d) : d.commits[i].key = d.commits[j].key => i = j

\* The cached head h and entries are the store's up to the head's version.
Audited(d, h, entries) ==
    /\ h.version \in 0 .. Version(d) /\ h.state \in Nat
    /\ entries = EntriesTo(d, h.version)
    /\ h.chain = SubSeq(d.chain, 1, h.version)

\* Where the commit of c's command belongs.
Place(c) == Command[c].expected + 1

\* The command of c is in the store.
Settled(d, c) ==
    /\ Place(c) \in 1 .. Version(d)
    /\ d.commits[Place(c)].key = Command[c].key
    /\ d.commits[Place(c)].publication.body = Command[c].body

\* The invocation is c's: the replay of its original, or a new commit on the
\* version it expects.
Asked(d, c, inv) ==
    /\ c \in Clients /\ Command[c].bound
    /\ inv.key = Command[c].key /\ inv.publication \in Publications
    /\ inv.publication.body = Command[c].body
    /\ \/ /\ inv.mode = Unversioned /\ Settled(d, c)
          /\ d.commits[Place(c)].publication = inv.publication
       \/ inv.mode = At(Command[c].expected)

\* What the requests made and the retries left weigh: three for a retry.
Weight(p) == IF p = "Reopen" THEN 2 ELSE IF p = "History" THEN 1 ELSE 0
Weigh(k) == k.ordinal + Weight(k.phase) + 3 * k.retries

\* The commit run: it asks without a guard only for what the history has,
\* and so it does once the store has applied the command.
Running(d, c, inv, k, done) ==
    /\ k \in Continuations /\ Weigh(k) <= 3 * Retries
    /\ k.phase = "Commit" =>
         \/ k.mode = Unversioned /\ Contains(d.commits, inv)
         \/ k.mode = inv.mode /\ inv.mode # Unversioned
    /\ c \in done =>
         Contains(d.commits, inv) /\ (k.phase = "Commit" => k.mode = Unversioned)

\* The receipt names a commit of the invocation.
Certified(d, inv, r) ==
    /\ r.version \in 1 .. Version(d)
    /\ d.commits[r.version].key = inv.key
    /\ d.commits[r.version].publication = inv.publication
    /\ r.chain = SubSeq(d.chain, 1, r.version)

Cached ==
    head # << >> =>
        /\ Audited(durable, head[1], commits)
        /\ others = 0 /\ (phase = "deliver" \/ Replayed) => head[1] = Snapshot(durable)

Serving ==
    /\ phase \in {"idle", "history", "state", "commit", "confirm", "deliver"}
    /\ client \in Clients \cup {NoClient}
    /\ client \in Clients => Command[client].bound
    /\ phase = "idle" => client = NoClient
    /\ phase \in {"idle", "history", "state"} => invocation = NoInvocation
    /\ phase \in {"state", "commit", "confirm", "deliver"} => head # << >>
    /\ phase \in {"commit", "confirm", "deliver"} => Asked(durable, client, invocation)
    /\ phase \in {"commit", "confirm"} /\ ~Replayed => head[1].version = Command[client].expected
    /\ phase = "commit" => Running(durable, client, invocation, cont, applied)
    /\ phase = "commit" /\ cont.phase \in {"Commit", "History"} => disturbed \/ ~Barred
    /\ phase \in {"confirm", "deliver"} => Certified(durable, invocation, receipt)
    /\ phase = "deliver" => receipt.version = Place(client)

AppliedSettled == applied \subseteq Clients /\ \A c \in applied : Command[c].bound /\ Settled(durable, c)

IInv ==
    /\ Store(durable) /\ others \in Nat /\ DOMAIN replies = Clients
    /\ Cached /\ Serving /\ AppliedSettled

-----------------------------------------------------------------------------
(* The commit program. *)

\* A step ends the run with the store's own answer or in uncertainty, as after
\* any refusal, or asks on: past a reopen only if it succeeded, and for a
\* commit with a guard that depends on the history it has read.
GoodStep(c, inv, o, s) ==
    \/ /\ s.tag = "Done"
       /\ s.outcome.tag \in {"Ok", "Refused"} => c.phase = "Commit" /\ s.outcome = o
    \/ /\ s.tag = "Request" /\ s.cont \in Continuations /\ Weigh(s.cont) <= Weigh(c)
       /\ o.tag # "Refused"
       /\ s.cont.phase \in {"Commit", "History"} =>
            IF c.phase = "Reopen" THEN o.tag = "Ok" ELSE o.tag # "Unknown"
       /\ s.cont.phase = "Commit" =>
            \/ c.phase = "Commit" /\ o.tag = "NotApplied" /\ s.cont.mode = c.mode
            \/ /\ c.phase = "History" /\ o.tag = "Ok"
               /\ s.cont.mode = IF Contains(o.value, inv) THEN Unversioned ELSE inv.mode

\* The fields of a continuation.
LEMMA ContFields ==
    ASSUME NEW c \in Continuations
    PROVE  /\ c.phase \in Phases /\ c.ordinal \in Nat /\ c.ordinal <= MaxOrdinal
           /\ c.retries \in Nat /\ c.retries <= Retries
           /\ c.mode \in Modes /\ c.unknown \in Faults \cup {NoFault}
           /\ c = [phase |-> c.phase, ordinal |-> c.ordinal, retries |-> c.retries,
                   mode |-> c.mode, unknown |-> c.unknown]
BY ProgramAssumption DEF Continuations

\* A run starts with its whole budget.
LEMMA StartWeighs ==
    ASSUME NEW inv, inv.mode \in Modes
    PROVE  /\ Start(inv) \in Continuations /\ Weigh(Start(inv)) = 3 * Retries
           /\ Start(inv).phase = "Commit" /\ Start(inv).mode = inv.mode
BY ProgramAssumption DEF Start, Continuations, Phases, Weigh, Weight, Faults, NoFault

\* The next request, while ordinals last.
LEMMA AskStep ==
    ASSUME NEW c \in Continuations, c.ordinal < MaxOrdinal, NEW p \in Phases
    PROVE  LET s == AskPhase(c, p)
           IN  /\ s.tag = "Request" /\ s.cont \in Continuations /\ s.cont.phase = p
               /\ s.cont.ordinal = c.ordinal + 1 /\ s.cont.retries = c.retries
               /\ s.cont.mode = c.mode
<1> DEFINE next == [c EXCEPT !.phase = p, !.ordinal = @ + 1]
<1>1. c.ordinal # MaxOrdinal /\ c.ordinal + 1 \in 0 .. MaxOrdinal
  BY ContFields, ProgramAssumption
<1>2. AskPhase(c, p) = Request(next)
  BY <1>1 DEF AskPhase
<1>3. /\ next \in Continuations /\ next.phase = p /\ next.ordinal = c.ordinal + 1
      /\ next.retries = c.retries /\ next.mode = c.mode
  BY <1>1 DEF Continuations
<1> HIDE DEF next
<1> QED
  BY <1>2, <1>3 DEF Request

\* One retry less.
LEMMA SpendStep ==
    ASSUME NEW c \in Continuations, c.retries # 0
    PROVE  /\ Spend(c) \in Continuations /\ Spend(c).retries = c.retries - 1
           /\ Spend(c).ordinal = c.ordinal /\ Spend(c).mode = c.mode
           /\ Spend(c).unknown = c.unknown
           /\ [Spend(c) EXCEPT !.mode = c.mode] = Spend(c)
<1>1. c.retries - 1 \in 0 .. Retries
  BY ContFields, ProgramAssumption
<1>2. Spend(c) = [phase |-> c.phase, ordinal |-> c.ordinal, retries |-> c.retries - 1,
                  mode |-> c.mode, unknown |-> c.unknown]
  BY ContFields DEF Spend
<1>3. Spend(c) \in Continuations
  BY <1>1, <1>2 DEF Continuations
<1>4. [Spend(c) EXCEPT !.mode = c.mode] = Spend(c)
  BY <1>2
<1> QED
  BY <1>2, <1>3, <1>4

\* It may remember a fault.
LEMMA RememberStep ==
    ASSUME NEW c \in Continuations, NEW u \in Faults \cup {NoFault}, NEW d,
           d = [c EXCEPT !.unknown = u]
    PROVE  d \in Continuations /\ d.retries = c.retries /\ d.ordinal = c.ordinal
BY DEF Continuations

\* A retry in the phase p.
LEMMA RetryStep ==
    ASSUME NEW c \in Continuations, Weigh(c) <= 3 * Retries, c.retries # 0, NEW p \in Phases,
           NEW d \in Continuations, d.ordinal = c.ordinal, d.retries = c.retries - 1
    PROVE  LET s == AskPhase(d, p)
           IN  /\ s.tag = "Request" /\ s.cont \in Continuations /\ s.cont.phase = p
               /\ s.cont.mode = d.mode /\ Weigh(s.cont) <= Weigh(c)
<1> DEFINE s == AskPhase(d, p)
<1>1. c.ordinal \in Nat /\ c.retries \in Nat /\ Retries \in Nat /\ MaxOrdinal \in Nat
      /\ c.phase \in Phases
  BY ContFields, ProgramAssumption
<1>2. d.ordinal < MaxOrdinal
  BY <1>1, OrdinalAssumption DEF Weigh, Weight, Phases
<1>3. /\ s.tag = "Request" /\ s.cont \in Continuations /\ s.cont.phase = p
      /\ s.cont.ordinal = c.ordinal + 1 /\ s.cont.retries = c.retries - 1
      /\ s.cont.mode = d.mode
  BY <1>2, AskStep
<1> HIDE DEF s
<1>4. Weigh(s.cont) <= Weigh(c)
  BY <1>1, <1>3 DEF Weigh, Weight, Phases
<1> QED
  BY <1>3, <1>4 DEF s

\* The answers to a request of the given phase.
Fits(p, o) ==
    /\ o.tag \in {"Ok", "Refused", "NotApplied"} \/ (p = "Commit" /\ o.tag = "Unknown")
    /\ o.tag \in {"NotApplied", "Unknown"} => o.fault \in Faults

\* The answer to a commit.
LEMMA CommittedStep ==
    ASSUME NEW c \in Continuations, Weigh(c) <= 3 * Retries, c.phase = "Commit", NEW inv, NEW o,
           Fits("Commit", o)
    PROVE  GoodStep(c, inv, o, Committed(c, o))
<1> DEFINE s == Committed(c, o)
<1>0. c.retries \in Nat
  BY ContFields
<1>1. CASE o.tag \in {"Ok", "Refused"}
  BY <1>1 DEF Committed, Done, GoodStep
<1>2. CASE o.tag = "NotApplied" /\ c.retries > 0
  <2>0. c.retries # 0
    BY <1>0, <1>2
  <2>1. s = AskPhase(Spend(c), "Commit")
    <3>1. s = AskPhase([Spend(c) EXCEPT !.mode = c.mode], "Commit")
      BY <1>2 DEF Committed, AskCommit
    <3> QED
      BY <2>0, <3>1, SpendStep
  <2> HIDE DEF s
  <2>2. /\ s.tag = "Request" /\ s.cont \in Continuations /\ s.cont.mode = c.mode
        /\ Weigh(s.cont) <= Weigh(c)
    BY <2>0, <2>1, SpendStep, RetryStep DEF Phases
  <2>3. GoodStep(c, inv, o, s)
    BY <1>2, <2>2 DEF GoodStep
  <2> QED
    BY <2>3 DEF s
<1>3. CASE o.tag = "NotApplied" /\ ~(c.retries > 0)
  <2>1. s = Done(IF c.unknown = NoFault THEN o ELSE Unknown(c.unknown))
    BY <1>3 DEF Committed
  <2>2. s.tag = "Done" /\ s.outcome.tag \in {"NotApplied", "Unknown"}
    BY <1>3, <2>1 DEF Done, Unknown
  <2> HIDE DEF s
  <2>3. GoodStep(c, inv, o, s)
    BY <2>2 DEF GoodStep
  <2> QED
    BY <2>3 DEF s
<1>4. CASE o.tag = "Unknown" /\ c.retries = 0
  <2>1. s.tag = "Done" /\ s.outcome.tag = "Unknown"
    BY <1>4 DEF Committed, Unresolved, Done, Unknown
  <2> HIDE DEF s
  <2>3. GoodStep(c, inv, o, s)
    BY <2>1 DEF GoodStep
  <2> QED
    BY <2>3 DEF s
<1>5. CASE o.tag = "Unknown" /\ c.retries # 0
  <2> DEFINE u == IF c.unknown = NoFault THEN o.fault ELSE c.unknown
             d == [Spend(c) EXCEPT !.unknown = u]
  <2>1. u \in Faults \cup {NoFault}
    BY <1>5, ContFields DEF Fits
  <2>2. Spend(c).unknown = c.unknown
    BY <1>5, SpendStep
  <2>3. s = AskPhase(d, "Reopen")
    BY <1>5, <2>2 DEF Committed
  <2> HIDE DEF s, u
  <2>4. d \in Continuations /\ d.retries = c.retries - 1 /\ d.ordinal = c.ordinal
    BY <1>5, <2>1, SpendStep, RememberStep
  <2> HIDE DEF d
  <2>5. /\ s.tag = "Request" /\ s.cont \in Continuations /\ s.cont.phase = "Reopen"
        /\ Weigh(s.cont) <= Weigh(c)
    BY <1>5, <2>3, <2>4, RetryStep DEF Phases
  <2>6. GoodStep(c, inv, o, s)
    BY <1>5, <2>5 DEF GoodStep
  <2> QED
    BY <2>6 DEF s
<1> QED
  BY <1>0, <1>1, <1>2, <1>3, <1>4, <1>5 DEF Fits

\* A phase that is repeated because it failed.
LEMMA RepeatStep ==
    ASSUME NEW c \in Continuations, Weigh(c) <= 3 * Retries, c.phase \in {"Reopen", "History"},
           NEW inv, NEW o, o.tag = "NotApplied", NEW fault
    PROVE  GoodStep(c, inv, o, RetryPhase(c, c.phase, fault))
<1> DEFINE s == RetryPhase(c, c.phase, fault)
<1>1. CASE c.retries = 0
  <2>1. s.tag = "Done" /\ s.outcome.tag = "Unknown"
    BY <1>1 DEF RetryPhase, Unresolved, Done, Unknown
  <2> HIDE DEF s
  <2>2. GoodStep(c, inv, o, s)
    BY <2>1 DEF GoodStep
  <2> QED
    BY <2>2 DEF s
<1>2. CASE c.retries # 0
  <2>1. s = AskPhase(Spend(c), c.phase)
    BY <1>2 DEF RetryPhase
  <2> HIDE DEF s
  <2>2. /\ s.tag = "Request" /\ s.cont \in Continuations /\ s.cont.phase = c.phase
        /\ Weigh(s.cont) <= Weigh(c)
    BY <1>2, <2>1, SpendStep, RetryStep DEF Phases
  <2>3. GoodStep(c, inv, o, s)
    BY <2>2 DEF GoodStep
  <2> QED
    BY <2>3 DEF s
<1> QED
  BY <1>1, <1>2

\* What the program makes of an answer.
LEMMA ResumeStep ==
    ASSUME NEW c \in Continuations, Weigh(c) <= 3 * Retries, NEW inv, inv.mode \in Modes,
           NEW o, Fits(c.phase, o)
    PROVE  GoodStep(c, inv, o, Resume(c, inv, o))
<1> DEFINE s == Resume(c, inv, o)
<1>0. c.ordinal \in Nat /\ c.retries \in Nat /\ c.phase \in Phases /\ MaxOrdinal \in Nat
      /\ Retries \in Nat
  BY ContFields, ProgramAssumption
<1>1. CASE c.phase = "Commit"
  BY <1>1, CommittedStep DEF Resume
<1>2. CASE c.phase \in {"Reopen", "History"} /\ o.tag = "NotApplied"
  <2>1. s = RetryPhase(c, c.phase, o.fault)
    BY <1>2 DEF Resume, Reopened, HistoryRead
  <2> QED
    BY <1>2, <2>1, RepeatStep
<1>3. CASE c.phase = "Reopen" /\ o.tag = "Ok"
  <2>1. s = AskPhase(c, "History")
    BY <1>3 DEF Resume, Reopened
  <2>2. c.ordinal < MaxOrdinal
    BY <1>0, <1>3, OrdinalAssumption DEF Weigh, Weight
  <2> HIDE DEF s
  <2>3. /\ s.tag = "Request" /\ s.cont \in Continuations /\ s.cont.phase = "History"
        /\ s.cont.ordinal = c.ordinal + 1 /\ s.cont.retries = c.retries
    BY <2>1, <2>2, AskStep DEF Phases
  <2>4. Weigh(s.cont) <= Weigh(c)
    BY <1>0, <1>3, <2>3 DEF Weigh, Weight
  <2>5. GoodStep(c, inv, o, s)
    BY <1>3, <2>3, <2>4 DEF GoodStep
  <2> QED
    BY <2>5 DEF s
<1>4. CASE c.phase = "History" /\ o.tag = "Ok"
  <2> DEFINE m == IF Contains(o.value, inv) THEN Unversioned ELSE inv.mode
             d == [c EXCEPT !.mode = m]
  <2>1. s = AskPhase(d, "Commit")
    BY <1>4 DEF Resume, HistoryRead, AskCommit
  <2>2. m \in Modes
    BY DEF Modes, ModeKinds, Unversioned
  <2>3. m = IF Contains(o.value, inv) THEN Unversioned ELSE inv.mode
    OBVIOUS
  <2> HIDE DEF s, m
  <2>4. d \in Continuations /\ d.mode = m /\ d.ordinal = c.ordinal /\ d.retries = c.retries
    BY <2>2 DEF Continuations
  <2> HIDE DEF d
  <2>5. d.ordinal < MaxOrdinal
    BY <1>0, <1>4, <2>4, OrdinalAssumption DEF Weigh, Weight
  <2>6. /\ s.tag = "Request" /\ s.cont \in Continuations /\ s.cont.phase = "Commit"
        /\ s.cont.ordinal = c.ordinal + 1 /\ s.cont.retries = c.retries /\ s.cont.mode = m
    BY <2>1, <2>4, <2>5, AskStep DEF Phases
  <2>7. Weigh(s.cont) <= Weigh(c)
    BY <1>0, <1>4, <2>6 DEF Weigh, Weight
  <2>8. GoodStep(c, inv, o, s)
    BY <1>4, <2>3, <2>6, <2>7 DEF GoodStep
  <2> QED
    BY <2>8 DEF s
<1>5. CASE c.phase \in {"Reopen", "History"} /\ o.tag = "Refused"
  <2>1. s = Unresolved(c, "Io")
    BY <1>5 DEF Resume, Reopened, HistoryRead
  <2>2. s.tag = "Done" /\ s.outcome.tag = "Unknown"
    BY <2>1 DEF Unresolved, Done, Unknown
  <2> HIDE DEF s
  <2>3. GoodStep(c, inv, o, s)
    BY <2>2 DEF GoodStep
  <2> QED
    BY <2>3 DEF s
<1> QED
  BY <1>0, <1>1, <1>2, <1>3, <1>4, <1>5 DEF Phases, Fits

-----------------------------------------------------------------------------
(* The store. *)

\* The store e holds all that d holds.
Extends(d, e) ==
    /\ Version(d) <= Version(e)
    /\ \A i \in 1 .. Version(d) : e.commits[i] = d.commits[i]
    /\ \A n \in 0 .. Version(d) : SubSeq(e.chain, 1, n) = SubSeq(d.chain, 1, n)

\* A store's parts.
LEMMA StoreParts ==
    ASSUME NEW d, Store(d)
    PROVE  /\ Version(d) \in Nat /\ Version(d) = Len(d.commits) /\ d.commits \in Seq(Entries)
           /\ d.chain \in Seq(Publications) /\ d.receipts \in Seq(Seq(Publications))
           /\ d.replays \in Seq(Keys) /\ d.state \in Nat
           /\ Len(d.chain) = Version(d) /\ Len(d.receipts) = Version(d)
           /\ Len(d.replays) = Version(d)
           /\ \A i \in 1 .. Version(d) : d.commits[i] \in Entries
BY LenProperties, ElementOfSeq DEF Store, Version

\* A store holds what it holds.
LEMMA ExtendsItself ==
    ASSUME NEW d, Store(d)
    PROVE  Extends(d, d)
BY StoreParts DEF Extends

\* And what the store it extends holds.
LEMMA ExtendsMore ==
    ASSUME NEW d, Store(d), NEW e, Store(e), Extends(d, e), NEW f, Extends(e, f), Store(f)
    PROVE  Extends(d, f)
<1>1. Version(d) \in Nat /\ Version(e) \in Nat /\ Version(f) \in Nat
      /\ Version(d) <= Version(e) /\ Version(e) <= Version(f)
  BY StoreParts DEF Extends
<1>2. /\ \A i \in 1 .. Version(d) : i \in 1 .. Version(e)
      /\ \A n \in 0 .. Version(d) : n \in 0 .. Version(e)
  BY <1>1
<1> QED
  BY <1>1, <1>2 DEF Extends

\* The fronts of a sequence are those of a longer one.
LEMMA SameFronts ==
    ASSUME NEW S, NEW s \in Seq(S), NEW x \in S, NEW n \in 0 .. Len(s)
    PROVE  SubSeq(Append(s, x), 1, n) = SubSeq(s, 1, n)
<1> DEFINE t == Append(s, x)
<1>0. Len(s) \in Nat /\ n \in Int /\ 1 \in Int
  BY LenProperties
<1>1. \A i \in 1 .. n : s[i] \in S /\ t[i] = s[i]
  BY <1>0, AppendProperties, ElementOfSeq
<1>2. \A i \in 1 .. n : t[i] \in S
  BY <1>1
<1> HIDE DEF t
<1>3. /\ SubSeq(s, 1, n) \in Seq(S) /\ Len(SubSeq(s, 1, n)) = (IF 1 <= n THEN n - 1 + 1 ELSE 0)
      /\ \A i \in 1 .. n - 1 + 1 : SubSeq(s, 1, n)[i] = s[1 + i - 1]
  BY <1>0, <1>1, SubSeqProperties
<1>4. /\ SubSeq(t, 1, n) \in Seq(S) /\ Len(SubSeq(t, 1, n)) = (IF 1 <= n THEN n - 1 + 1 ELSE 0)
      /\ \A i \in 1 .. n - 1 + 1 : SubSeq(t, 1, n)[i] = t[1 + i - 1]
  BY <1>0, <1>2, SubSeqProperties
<1>5. Len(SubSeq(s, 1, n)) = n /\ Len(SubSeq(t, 1, n)) = n
  BY <1>0, <1>3, <1>4
<1>6. \A i \in 1 .. n : SubSeq(s, 1, n)[i] = SubSeq(t, 1, n)[i]
  <2> TAKE i \in 1 .. n
  <2>1. i \in 1 .. n - 1 + 1 /\ 1 + i - 1 = i
    BY <1>0
  <2>2. SubSeq(s, 1, n)[i] = s[i] /\ SubSeq(t, 1, n)[i] = t[i]
    BY <1>3, <1>4, <2>1
  <2> QED
    BY <1>1, <2>2
<1>7. SubSeq(s, 1, n) = SubSeq(t, 1, n)
  BY <1>3, <1>4, <1>5, <1>6, SeqEqual
<1> QED
  BY <1>7 DEF t

\* A commit of a new key adds one entry, one receipt and one link.
LEMMA AppliedStore ==
    ASSUME NEW d, Store(d), NEW key \in Keys, NEW pub \in Publications, ~HasKey(d, key),
           NEW e, e = Applied(d, key, pub)
    PROVE  /\ Store(e) /\ Extends(d, e) /\ Version(e) = Version(d) + 1
           /\ e.commits[Version(e)].key = key /\ e.commits[Version(e)].publication = pub
           /\ e.chain = SubSeq(e.chain, 1, Version(e))
<1> DEFINE n == Version(d)
           entry == [key |-> key, version |-> n + 1, publication |-> pub]
           chain == Append(d.chain, pub)
<1>0. /\ n \in Nat /\ n = Len(d.commits) /\ d.commits \in Seq(Entries)
      /\ d.chain \in Seq(Publications) /\ d.receipts \in Seq(Seq(Publications))
      /\ d.replays \in Seq(Keys) /\ d.state \in Nat
      /\ Len(d.chain) = n /\ Len(d.receipts) = n /\ Len(d.replays) = n
  BY StoreParts
<1>1. /\ e.chain = chain /\ e.commits = Append(d.commits, entry)
      /\ e.receipts = Append(d.receipts, chain) /\ e.replays = Append(d.replays, key)
      /\ e.state = d.state + pub.body
      /\ e = [state |-> e.state, chain |-> e.chain, commits |-> e.commits,
              receipts |-> e.receipts, replays |-> e.replays, outbox |-> e.outbox]
  BY DEF Applied
<1>2. entry \in Entries /\ entry.key = key /\ entry.publication = pub /\ entry.version = n + 1
  BY <1>0 DEF Entries
<1>a. n \in Nat
  BY <1>0
<1>b. chain = Append(d.chain, pub)
  OBVIOUS
<1> HIDE DEF n, entry, chain
<1>3. /\ chain \in Seq(Publications) /\ Len(chain) = n + 1
  BY <1>0, <1>b, AppendProperties
<1>4. /\ e.commits \in Seq(Entries) /\ Len(e.commits) = n + 1 /\ e.commits[n + 1] = entry
      /\ \A i \in 1 .. n : e.commits[i] = d.commits[i]
  BY <1>0, <1>1, <1>2, AppendProperties
<1>5. /\ e.receipts \in Seq(Seq(Publications)) /\ Len(e.receipts) = n + 1
      /\ e.receipts[n + 1] = chain /\ \A i \in 1 .. n : e.receipts[i] = d.receipts[i]
  BY <1>0, <1>1, <1>3, AppendProperties
<1>6. /\ e.replays \in Seq(Keys) /\ Len(e.replays) = n + 1 /\ e.replays[n + 1] = key
      /\ \A i \in 1 .. n : e.replays[i] = d.replays[i]
  BY <1>0, <1>1, AppendProperties
<1>7. e.state \in Nat
  BY <1>0, <1>1 DEF Publications
<1>8. Version(e) = n + 1 /\ Version(d) = n
  BY <1>4 DEF Version, n
<1>9. \A i \in 0 .. n : SubSeq(chain, 1, i) = SubSeq(d.chain, 1, i)
  BY <1>0, SameFronts DEF chain
<1>10. chain = SubSeq(chain, 1, n + 1)
  BY <1>3, SubSeqFull
<1>11. \A i \in 1 .. n : /\ d.commits[i].version = i /\ d.replays[i] = d.commits[i].key
                         /\ d.receipts[i] = SubSeq(d.chain, 1, i)
  BY <1>8 DEF Store
<1>12. \A i \in 1 .. n : d.commits[i].key # key
  BY <1>0, <1>11 DEF HasKey
<1>13. \A i, j \in 1 .. n : d.commits[i].key = d.commits[j].key => i = j
  BY <1>8 DEF Store
<1>14. ASSUME NEW i \in 1 .. n + 1
       PROVE  /\ e.commits[i].version = i /\ e.replays[i] = e.commits[i].key
              /\ e.receipts[i] = SubSeq(chain, 1, i)
  <2>1. CASE i = n + 1
    BY <1>2, <1>4, <1>5, <1>6, <1>10, <2>1
  <2>2. CASE i \in 1 .. n
    <3>1. i \in 0 .. n
      BY <2>2
    <3> QED
      BY <1>4, <1>5, <1>6, <1>9, <1>11, <2>2, <3>1
  <2>3. i = n + 1 \/ i \in 1 .. n
    BY <1>a
  <2> QED
    BY <2>1, <2>2, <2>3
<1>15. ASSUME NEW i \in 1 .. n + 1, NEW j \in 1 .. n + 1, e.commits[i].key = e.commits[j].key
       PROVE  i = j
  <2>1. \A k \in 1 .. n + 1 : k = n + 1 \/ k \in 1 .. n
    BY <1>a
  <2>2. e.commits[n + 1].key = key /\ \A k \in 1 .. n : e.commits[k].key = d.commits[k].key
    BY <1>2, <1>4
  <2> QED
    BY <1>12, <1>13, <1>15, <2>1, <2>2
<1>16. Store(e)
  BY <1>1, <1>3, <1>4, <1>5, <1>6, <1>7, <1>8, <1>14, <1>15 DEF Store
<1>17. Extends(d, e)
  BY <1>0, <1>1, <1>4, <1>8, <1>9 DEF Extends
<1> QED
  BY <1>1, <1>2, <1>4, <1>8, <1>10, <1>16, <1>17

\* Acknowledgements touch the outbox alone.
LEMMA AcknowledgedStore ==
    ASSUME NEW d, Store(d), NEW A, NEW e, e = Acknowledge(d, A)
    PROVE  /\ Store(e) /\ Extends(d, e) /\ Version(e) = Version(d)
           /\ Snapshot(e) = Snapshot(d)
<1> DEFINE box == [i \in 1 .. Len(d.outbox) |-> [d.outbox[i] EXCEPT !.acked = @ \/ i \in A]]
<1>1. e = [d EXCEPT !.outbox = box]
  BY DEF Acknowledge
<1>2. d = [state |-> d.state, chain |-> d.chain, commits |-> d.commits,
           receipts |-> d.receipts, replays |-> d.replays, outbox |-> d.outbox]
  BY DEF Store
<1> HIDE DEF box
<1>3. e = [state |-> d.state, chain |-> d.chain, commits |-> d.commits,
           receipts |-> d.receipts, replays |-> d.replays, outbox |-> box]
  BY <1>1, <1>2
<1>4. /\ e.state = d.state /\ e.chain = d.chain /\ e.commits = d.commits
      /\ e.receipts = d.receipts /\ e.replays = d.replays /\ e.outbox = box
  BY <1>3
<1>5. Version(e) = Version(d) /\ Snapshot(e) = Snapshot(d)
  BY <1>4 DEF Version, Snapshot
<1>6. Store(e)
  BY <1>3, <1>4, <1>5 DEF Store
<1>7. Extends(d, e)
  BY <1>4, <1>5, StoreParts DEF Extends
<1> QED
  BY <1>5, <1>6, <1>7

\* What is true of a store stays true of a later one.
LEMMA StaysTrue ==
    ASSUME NEW d, Store(d), NEW e, Store(e), Extends(d, e)
    PROVE  /\ \A c : Settled(d, c) => Settled(e, c)
           /\ \A c, inv : Asked(d, c, inv) => Asked(e, c, inv)
           /\ \A inv : Contains(d.commits, inv) => Contains(e.commits, inv)
           /\ \A c, inv, k, done : Running(d, c, inv, k, done) => Running(e, c, inv, k, done)
           /\ \A inv, r : Certified(d, inv, r) => Certified(e, inv, r)
           /\ \A h, entries : Audited(d, h, entries) => Audited(e, h, entries)
<1>0. /\ Version(d) \in Nat /\ Version(e) \in Nat /\ Version(d) <= Version(e)
      /\ Version(d) = Len(d.commits) /\ Version(e) = Len(e.commits)
      /\ \A i \in 1 .. Version(d) : i \in 1 .. Version(e) /\ e.commits[i] = d.commits[i]
      /\ \A n \in 0 .. Version(d) :
           n \in 0 .. Version(e) /\ SubSeq(e.chain, 1, n) = SubSeq(d.chain, 1, n)
  BY StoreParts DEF Extends
<1>1. \A c : Settled(d, c) => Settled(e, c)
  BY <1>0 DEF Settled
<1>2. \A c, inv : Asked(d, c, inv) => Asked(e, c, inv)
  BY <1>0, <1>1 DEF Asked, Settled
<1>3. \A inv : Contains(d.commits, inv) => Contains(e.commits, inv)
  BY <1>0 DEF Contains
<1>4. \A c, inv, k, done : Running(d, c, inv, k, done) => Running(e, c, inv, k, done)
  BY <1>3 DEF Running
<1>5. ASSUME NEW inv, NEW r, Certified(d, inv, r) PROVE Certified(e, inv, r)
  <2>1. r.version \in 1 .. Version(d) /\ r.version \in 0 .. Version(d)
    BY <1>0, <1>5 DEF Certified
  <2> QED
    BY <1>0, <1>5, <2>1 DEF Certified
<1>6. ASSUME NEW h, NEW entries, Audited(d, h, entries) PROVE Audited(e, h, entries)
  <2>1. h.version \in 0 .. Version(d) /\ \A i \in 1 .. h.version : i \in 1 .. Version(d)
    BY <1>0, <1>6 DEF Audited
  <2>2. EntriesTo(e, h.version) = EntriesTo(d, h.version)
    BY <1>0, <2>1 DEF EntriesTo, Entry
  <2> QED
    BY <1>0, <1>6, <2>1, <2>2 DEF Audited
<1> QED
  BY <1>1, <1>2, <1>3, <1>4, <1>5, <1>6

\* A key of a store is at one position, and its receipt is the original one.
LEMMA PositionOf ==
    ASSUME NEW d, Store(d), NEW key, HasKey(d, key)
    PROVE  LET p == Position(d, key)
           IN  /\ p \in 1 .. Version(d) /\ d.commits[p].key = key
               /\ \A i \in 1 .. Version(d) : d.commits[i].key = key => i = p
               /\ OriginalReceipt(d, key).version = p
               /\ OriginalReceipt(d, key).chain = SubSeq(d.chain, 1, p)
<1> DEFINE p == Position(d, key)
<1>1. Len(d.replays) = Version(d)
  BY DEF Store
<1>2. p \in 1 .. Len(d.replays) /\ d.replays[p] = key
  BY DEF HasKey, Position
<1>3. /\ OriginalReceipt(d, key).version = d.commits[p].version
      /\ OriginalReceipt(d, key).chain = d.receipts[p]
  BY DEF OriginalReceipt, Receipt
<1> HIDE DEF p
<1>4. /\ d.commits[p].version = p /\ d.replays[p] = d.commits[p].key
      /\ d.receipts[p] = SubSeq(d.chain, 1, p)
  BY <1>1, <1>2 DEF Store
<1>5. \A i \in 1 .. Version(d) : d.commits[i].key = key => i = p
  BY <1>1, <1>2, <1>4 DEF Store
<1> QED
  BY <1>1, <1>2, <1>3, <1>4, <1>5 DEF p

\* What the store has of the invocation, it finds by its key.
LEMMA Found ==
    ASSUME NEW d, Store(d), NEW inv, Contains(d.commits, inv)
    PROVE  HasKey(d, inv.key) /\ d.commits[Position(d, inv.key)].publication = inv.publication
<1>1. PICK i \in 1 .. Len(d.commits) :
         d.commits[i].key = inv.key /\ d.commits[i].publication = inv.publication
  BY DEF Contains
<1>2. i \in 1 .. Version(d) /\ i \in 1 .. Len(d.replays) /\ d.replays[i] = inv.key
  BY <1>1, StoreParts DEF Store
<1>3. HasKey(d, inv.key)
  BY <1>2 DEF HasKey
<1>4. Position(d, inv.key) = i
  BY <1>1, <1>2, <1>3, PositionOf
<1> QED
  BY <1>1, <1>3, <1>4

\* A decision applies only a key the store does not have, on the version the
\* guard names; it certifies what it applied or finds; what is in the history
\* is never applied again, and without a guard it is always found.
Sound(d, inv, mode, r) ==
    /\ \/ r.tag = "Refuse"
       \/ r.tag = "Replay" /\ Certified(d, inv, r.receipt)
       \/ /\ r.tag = "Apply" /\ VersionMatches(d, mode)
          /\ Store(r.after) /\ Extends(d, r.after) /\ Version(r.after) = Version(d) + 1
          /\ Certified(r.after, inv, r.receipt) /\ r.receipt.version = Version(r.after)
    /\ Contains(d.commits, inv) => r.tag # "Apply"
    /\ Contains(d.commits, inv) /\ mode = Unversioned => r.tag = "Replay"

\* Every decision of the store on a commit is of that kind.
LEMMA Decision ==
    ASSUME NEW d, Store(d), NEW inv, inv.key \in Keys, inv.publication \in Publications, NEW mode
    PROVE  Sound(d, inv, mode, Decide(d, inv.key, inv.publication, mode))
<1> DEFINE key == inv.key
           pub == inv.publication
           r == Decide(d, key, pub, mode)
<1>1. CASE ~VersionMatches(d, mode)
  <2>1. r.tag = "Refuse"
    BY <1>1 DEF Decide, Refuse
  <2>2. mode # Unversioned
    BY <1>1 DEF VersionMatches, Unversioned
  <2> QED
    BY <2>1, <2>2 DEF Sound
<1>2. CASE VersionMatches(d, mode) /\ HasKey(d, key)
  <2>1. CASE d.commits[Position(d, key)].publication = pub
    <3>1. r = [tag |-> "Replay", receipt |-> OriginalReceipt(d, key)]
      BY <1>2, <2>1 DEF Decide, Replay
    <3>2. Certified(d, inv, OriginalReceipt(d, key))
      BY <1>2, <2>1, PositionOf DEF Certified
    <3> QED
      BY <3>1, <3>2 DEF Sound
  <2>2. CASE d.commits[Position(d, key)].publication # pub
    <3>1. r.tag = "Refuse"
      BY <1>2, <2>2 DEF Decide, Refuse
    <3>2. ~Contains(d.commits, inv)
      BY <2>2, Found
    <3> QED
      BY <3>1, <3>2 DEF Sound
  <2> QED
    BY <2>1, <2>2
<1>3. CASE VersionMatches(d, mode) /\ ~HasKey(d, key)
  <2>0. ~Contains(d.commits, inv)
    BY <1>3, Found
  <2>1. CASE r.tag = "Refuse"
    BY <2>0, <2>1 DEF Sound
  <2>2. CASE r.tag # "Refuse"
    <3> DEFINE e == Applied(d, key, pub)
               rec == Receipt(Version(e), e.chain, "Committed")
    <3>1. r = [tag |-> "Apply", after |-> e, receipt |-> rec]
      BY <1>3, <2>2 DEF Decide, Refuse, Apply
    <3>2. rec.version = Version(e) /\ rec.chain = e.chain
      BY DEF Receipt
    <3>3. e = Applied(d, key, pub)
      OBVIOUS
    <3> HIDE DEF e, rec
    <3>4. /\ Store(e) /\ Extends(d, e) /\ Version(e) = Version(d) + 1
          /\ e.commits[Version(e)].key = key /\ e.commits[Version(e)].publication = pub
          /\ e.chain = SubSeq(e.chain, 1, Version(e))
      BY <1>3, <3>3, AppliedStore
    <3>5. Version(e) \in 1 .. Version(e)
      BY <3>4, StoreParts
    <3>6. Certified(e, inv, rec)
      BY <3>2, <3>4, <3>5 DEF Certified
    <3> QED
      BY <1>3, <2>0, <3>1, <3>2, <3>4, <3>6 DEF Sound
  <2> QED
    BY <2>1, <2>2
<1> QED
  BY <1>1, <1>2, <1>3

-----------------------------------------------------------------------------
(* Every step keeps the invariant and gives true answers. *)

\* The answers a step gives are true.
TrueAnswers ==
    \A c \in Clients : \A answer \in replies'[c] \ replies[c] :
        IF answer.tag = "Packet" THEN TrueOf(c, answer, durable')
        ELSE c \in applied' => answer.code = "Conflict" /\ disturbed'

Kept == IInv' /\ TrueAnswers

\* What a step of the endpoint finds: an invariant store, cache and request.
LEMMA Parts ==
    ASSUME IInv
    PROVE  /\ Store(durable) /\ others \in Nat /\ DOMAIN replies = Clients
           /\ Cached /\ Serving /\ AppliedSettled
BY DEF IInv

\* The endpoint starts with nothing.
LEMMA InitIInv == Init => IInv
<1> SUFFICES ASSUME Init PROVE IInv
  OBVIOUS
<1>1. /\ durable.state = 0 /\ durable.chain = << >> /\ durable.commits = << >>
      /\ durable.receipts = << >> /\ durable.replays = << >> /\ durable.outbox = << >>
      /\ durable = [state |-> durable.state, chain |-> durable.chain,
                    commits |-> durable.commits, receipts |-> durable.receipts,
                    replays |-> durable.replays, outbox |-> durable.outbox]
  BY DEF Init, Genesis
<1>2. \A S : << >> \in Seq(S) /\ Len(<< >>) = 0
  BY EmptySeq
<1>3. Version(durable) = 0
  BY <1>1, <1>2 DEF Version
<1>4. \A i \in 1 .. Version(durable) : FALSE
  BY <1>3
<1>5. Store(durable)
  BY <1>1, <1>2, <1>3, <1>4 DEF Store
<1>6. Cached /\ Serving /\ AppliedSettled /\ others \in Nat /\ DOMAIN replies = Clients
  BY IngressAssumption DEF Init, Cached, Serving, AppliedSettled
<1> QED
  BY <1>5, <1>6 DEF IInv

\* A step that tells nobody anything tells nothing false.
LEMMA Silent ==
    ASSUME UNCHANGED replies
    PROVE  TrueAnswers
BY DEF TrueAnswers

\* A step that tells one client the truth.
LEMMA Tells ==
    ASSUME DOMAIN replies = Clients, NEW c \in Clients, NEW a, Tell(c, a),
           IF a.tag = "Packet" THEN TrueOf(c, a, durable')
           ELSE c \in applied' => a.code = "Conflict" /\ disturbed'
    PROVE  TrueAnswers /\ DOMAIN replies' = Clients
<1>1. replies' = [replies EXCEPT ![c] = @ \cup {a}]
  BY DEF Tell
<1>2. DOMAIN replies' = Clients /\ replies'[c] = replies[c] \cup {a}
      /\ \A b \in Clients : b # c => replies'[b] = replies[b]
  BY <1>1
<1>3. ASSUME NEW b \in Clients, NEW answer \in replies'[b] \ replies[b]
      PROVE  b = c /\ answer = a
  BY <1>2, <1>3
<1> QED
  BY <1>2, <1>3 DEF TrueAnswers

\* Applied commands stay in a store that grows.
LEMMA StillSettled ==
    ASSUME IInv, Store(durable'), Extends(durable, durable'), UNCHANGED applied
    PROVE  AppliedSettled'
<1>1. \A c : Settled(durable, c) => Settled(durable', c)
  BY Parts, StaysTrue
<1>2. \A c \in applied : Command[c].bound /\ Settled(durable', c)
  BY <1>1, Parts DEF AppliedSettled
<1> QED
  BY <1>2, Parts DEF AppliedSettled

\* Another connection's write adds at most a commit.
LEMMA Interfered ==
    ASSUME IInv, NEW d, Store(d), Interfere(d)
    PROVE  /\ Store(durable') /\ Extends(d, durable')
           /\ others' \in Nat /\ others' # 0 /\ disturbed'
<1>1. others' = others + 1 /\ durable' \in OthersLeave(d) /\ disturbed'
  BY DEF Interfere
<1>2. others' \in Nat /\ others' # 0
  BY <1>1, Parts
<1>3. CASE durable' = d
  BY <1>1, <1>2, <1>3, ExtendsItself
<1>4. CASE durable' # d
  <2>1. PICK o \in OtherCommits :
          /\ ~HasKey(d, o.key)
          /\ durable' = Applied(d, o.key, [prestate |-> d.state, body |-> o.body,
                                           genuine |-> TRUE, size |-> 1])
    BY <1>1, <1>4 DEF OthersLeave
  <2> DEFINE pub == [prestate |-> d.state, body |-> o.body, genuine |-> TRUE, size |-> 1]
  <2>2. o.key \in Keys /\ o.body \in Nat
    BY IngressAssumption
  <2>3. pub \in Publications
    BY <2>2, StoreParts DEF Publications
  <2>4. durable' = Applied(d, o.key, pub)
    BY <2>1
  <2> HIDE DEF pub
  <2>5. Store(durable') /\ Extends(d, durable')
    BY <2>1, <2>2, <2>3, <2>4, AppliedStore
  <2> QED
    BY <1>1, <1>2, <2>5
<1> QED
  BY <1>3, <1>4

\* A request that is over leaves an idle endpoint.
LEMMA Rests ==
    ASSUME Release, Store(durable'), others' \in Nat, DOMAIN replies' = Clients,
           Cached', AppliedSettled'
    PROVE  IInv'
<1>1. Serving'
  BY IngressAssumption DEF Release, Serving
<1> QED
  BY <1>1 DEF IInv

\* A request that is over while the store is as it was.
LEMMA Over ==
    ASSUME IInv, Release, UNCHANGED <<durable, others, applied>>, DOMAIN replies' = Clients,
           Cached'
    PROVE  IInv'
<1>1. Store(durable') /\ others' \in Nat /\ AppliedSettled'
  BY Parts DEF AppliedSettled
<1> QED
  BY <1>1, Rests

\* The cache after a step that changes neither it nor the store.
LEMMA SameCache ==
    ASSUME IInv, UNCHANGED <<durable, cache, others>>,
           others = 0 /\ head # << >> => head[1] = Snapshot(durable)
    PROVE  Cached'
BY Parts DEF Cached, cache

\* The cache after a step that drops the head.
LEMMA NoHead ==
    ASSUME head' = << >>
    PROVE  Cached'
BY DEF Cached

\* Before the commit run the cached head is the store's, but for others.
LEMMA FreshHead ==
    ASSUME IInv, phase \in {"idle", "history", "state", "deliver"} \/ Replayed, others = 0,
           head # << >>
    PROVE  head[1] = Snapshot(durable)
<1>1. phase = "deliver" \/ Replayed
  BY Parts DEF Serving, Replayed, NoInvocation
<1> QED
  BY <1>1, Parts DEF Cached

\* execute_admitted takes a request or refuses it at once.
LEMMA AcceptKept ==
    ASSUME IInv, NEW c \in Clients, Accept(c)
    PROVE  Kept
<1>0. phase = "idle" /\ UNCHANGED <<durable, cache, others, applied>>
  BY DEF Accept, environment, history
<1>1. Cached'
  BY <1>0, SameCache, FreshHead
<1>2. CASE ~Command[c].bound
  <2>1. Tell(c, Refusal("Binding"))
    BY <1>2 DEF Accept
  <2>2. c \notin applied'
    BY <1>0, <1>2, Parts DEF AppliedSettled
  <2>3. Refusal("Binding").tag # "Packet"
    BY DEF Refusal
  <2>4. TrueAnswers /\ DOMAIN replies' = Clients
    BY <2>1, <2>2, <2>3, Parts, Tells
  <2>5. IInv'
    BY <1>0, <1>1, <2>1, <2>4, Over DEF Tell
  <2> QED
    BY <2>4, <2>5 DEF Kept
<1>3. CASE Command[c].bound
  <2>1. /\ client' = c /\ phase' = IF head = << >> THEN "history" ELSE "state"
        /\ UNCHANGED <<invocation, cont, receipt, replies>>
    BY <1>3 DEF Accept
  <2>2. Serving'
    BY <1>0, <1>3, <2>1, Parts DEF Serving, cache
  <2>3. IInv'
    BY <1>0, <1>1, <2>1, <2>2, Parts DEF IInv, AppliedSettled
  <2> QED
    BY <2>1, <2>3, Silent DEF Kept
<1> QED
  BY <1>2, <1>3

\* verified_snapshot.
LEMMA InspectKept ==
    ASSUME IInv, Inspect
    PROVE  Kept
<1>0. /\ phase = "idle" /\ UNCHANGED <<durable, cache, request, replies, others, applied>>
      /\ phase' = IF head = << >> THEN "history" ELSE "state"
  BY DEF Inspect, environment, history
<1>1. Cached'
  BY <1>0, SameCache, FreshHead
<1>2. Serving'
  BY <1>0, Parts DEF Serving, cache, request
<1>3. IInv'
  BY <1>0, <1>1, <1>2, Parts DEF IInv, AppliedSettled
<1> QED
  BY <1>0, <1>3, Silent DEF Kept

\* The store's whole history is its audited history.
LEMMA WholeHistory ==
    ASSUME NEW d, Store(d)
    PROVE  Audited(d, Snapshot(d), EntriesTo(d, Version(d))) /\ WellFormed(d)
<1>1. Version(d) \in Nat /\ d.chain \in Seq(Publications) /\ Len(d.chain) = Version(d)
      /\ d.state \in Nat
  BY StoreParts
<1>2. SubSeq(d.chain, 1, Version(d)) = d.chain
  BY <1>1, SubSeqFull
<1>3. /\ Snapshot(d).version = Version(d) /\ Snapshot(d).chain = d.chain
      /\ Snapshot(d).state = d.state
  BY DEF Snapshot
<1>4. Version(d) \in 0 .. Version(d)
  BY <1>1
<1>5. WellFormed(d)
  BY DEF WellFormed, Store, Entry
<1> QED
  BY <1>1, <1>2, <1>3, <1>4, <1>5 DEF Audited

\* load.
LEMMA LoadKept ==
    ASSUME IInv, Load
    PROVE  Kept
<1>0. phase = "history" /\ UNCHANGED <<durable, others, applied>>
  BY DEF Load, history
<1>1. WellFormed(durable) /\ Audited(durable, Snapshot(durable), EntriesTo(durable, Version(durable)))
  BY Parts, WholeHistory
<1>2. CASE Unavailable /\ UNCHANGED cache
  <2>1. Cached'
    BY <1>0, <1>2, SameCache, FreshHead
  <2>2. UNCHANGED replies /\ Release
    BY <1>2 DEF Unavailable
  <2>3. IInv'
    BY <1>0, <2>1, <2>2, Parts, Over
  <2> QED
    BY <2>2, <2>3, Silent DEF Kept
<1>3. CASE /\ commits' = EntriesTo(durable, Version(durable))
           /\ head' = <<Snapshot(durable)>> /\ Proceed("state")
  <2>1. phase' = "state" /\ UNCHANGED <<client, invocation, cont, receipt, replies>>
    BY <1>3 DEF Proceed, request
  <2>2. head' # << >> /\ head'[1] = Snapshot(durable)
    BY <1>3
  <2>3. Cached'
    BY <1>0, <1>1, <1>3, <2>2 DEF Cached
  <2>4. Serving'
    BY <1>0, <2>1, <2>2, Parts DEF Serving
  <2>5. IInv'
    BY <1>0, <2>1, <2>3, <2>4, Parts DEF IInv, AppliedSettled
  <2> QED
    BY <2>1, <2>5, Silent DEF Kept
<1> QED
  BY <1>1, <1>2, <1>3 DEF Load

\* The process dies.
LEMMA DieKept ==
    ASSUME IInv, Die
    PROVE  Kept
<1>1. /\ head' = << >> /\ Release /\ UNCHANGED replies /\ UNCHANGED <<durable, others, applied>>
  BY DEF Die, Unavailable, history
<1>2. IInv'
  BY <1>1, NoHead, Over, Parts
<1> QED
  BY <1>1, <1>2, Silent DEF Kept

\* Another connection writes between two operations.
LEMMA OtherKept ==
    ASSUME IInv, OtherWrite
    PROVE  Kept
<1>0. Interfere(durable) /\ UNCHANGED <<cache, phase, request, replies, applied>>
  BY DEF OtherWrite
<1>1. /\ Store(durable') /\ Extends(durable, durable')
      /\ others' \in Nat /\ others' # 0 /\ disturbed'
  BY <1>0, Parts, Interfered
<1>2. AppliedSettled'
  BY <1>0, <1>1, StillSettled
<1>3. Cached'
  BY <1>0, <1>1, Parts, StaysTrue DEF Cached, cache
<1>4. Serving'
  <2>1. UNCHANGED <<head, client, invocation, cont, receipt>>
    BY <1>0 DEF cache, request
  <2>2. /\ Asked(durable, client, invocation) => Asked(durable', client, invocation)
        /\ Running(durable, client, invocation, cont, applied) =>
             Running(durable', client, invocation, cont, applied)
        /\ Certified(durable, invocation, receipt) => Certified(durable', invocation, receipt)
    BY <1>1, Parts, StaysTrue
  <2> QED
    BY <1>0, <1>1, <2>1, <2>2, Parts DEF Serving, Replayed
<1>5. IInv'
  BY <1>0, <1>1, <1>2, <1>3, <1>4, Parts DEF IInv
<1> QED
  BY <1>0, <1>5, Silent DEF Kept

\* The delivery run, and the packet.
LEMMA DeliverKept ==
    ASSUME IInv, Deliver
    PROVE  Kept
<1>0. /\ phase = "deliver" /\ Tell(client, Packet(invocation.publication, receipt))
      /\ UNCHANGED <<cache, applied>>
  BY DEF Deliver
<1> DEFINE Grown ==
             /\ Store(durable') /\ Extends(durable, durable') /\ others' \in Nat
             /\ others' = 0 => others = 0 /\ Snapshot(durable') = Snapshot(durable)
<1>1. Grown
  <2>1. CASE durable' = durable /\ Alone
    BY <2>1, Parts, ExtendsItself DEF Alone
  <2>2. ASSUME NEW A, durable' = Acknowledge(durable, A), Alone
        PROVE  Grown
    BY <2>2, Parts, AcknowledgedStore DEF Alone
  <2>3. ASSUME NEW A, Interfere(Acknowledge(durable, A))
        PROVE  Grown
    <3>1. Store(Acknowledge(durable, A)) /\ Extends(durable, Acknowledge(durable, A))
      BY Parts, AcknowledgedStore
    <3>2. /\ Store(durable') /\ Extends(Acknowledge(durable, A), durable')
          /\ others' \in Nat /\ others' # 0
      BY <2>3, <3>1, Interfered
    <3> QED
      BY <3>1, <3>2, Parts, ExtendsMore
  <2> QED
    BY <2>1, <2>2, <2>3 DEF Deliver
<1>3. /\ Asked(durable', client, invocation) /\ Certified(durable', invocation, receipt)
      /\ receipt.version = Place(client)
  BY <1>0, <1>1, Parts, StaysTrue DEF Serving
<1>4. head # << >> /\ (others = 0 => head[1] = Snapshot(durable))
  BY <1>0, Parts DEF Serving, Cached
<1>5. Cached'
  BY <1>0, <1>1, <1>4, Parts, StaysTrue DEF Cached, cache
<1>6. TrueOf(client, Packet(invocation.publication, receipt), durable')
  <2>1. Version(durable') \in Nat
    BY <1>1, StoreParts
  <2> QED
    BY <1>3, <2>1 DEF TrueOf, Packet, Asked, Certified, Place, Entry
<1>7. client \in Clients /\ Packet(invocation.publication, receipt).tag = "Packet"
  BY <1>3 DEF Asked, Packet
<1>8. TrueAnswers /\ DOMAIN replies' = Clients
  BY <1>0, <1>6, <1>7, Parts, Tells
<1>9. AppliedSettled'
  BY <1>0, <1>1, StillSettled
<1>10. IInv'
  BY <1>0, <1>1, <1>5, <1>8, <1>9, Rests DEF Tell
<1> QED
  BY <1>8, <1>10 DEF Kept

\* What a client's replay of an original asks for is in the history.
LEMMA AskedContains ==
    ASSUME NEW d, Store(d), NEW c, NEW inv, Asked(d, c, inv), inv.mode = Unversioned
    PROVE  Contains(d.commits, inv) /\ Settled(d, c)
<1>1. Command[c].expected \in Nat
  BY IngressAssumption DEF Asked, Commands
<1>2. inv.mode # At(Command[c].expected)
  BY DEF At, Unversioned
<1> QED
  BY <1>2, StoreParts DEF Asked, Settled, Contains

\* The commit run of a client begins.
LEMMA BeginKept ==
    ASSUME IInv, phase = "state", client \in Clients, ~Barred',
           NEW pub, NEW mode \in Modes, Begin(client, pub, mode),
           UNCHANGED <<durable, cache, others, applied>>,
           NEW inv, inv = [key |-> Command[client].key, publication |-> pub, mode |-> mode],
           Asked(durable, client, inv),
           mode = Unversioned \/ (client \notin applied /\ head[1].version = Command[client].expected)
    PROVE  Kept
<1>1. /\ invocation' = inv /\ cont' = Start(inv) /\ phase' = "commit"
      /\ UNCHANGED <<client, receipt, replies>>
  BY DEF Begin
<1>2. inv.mode = mode
  OBVIOUS
<1>3. /\ Start(inv) \in Continuations /\ Weigh(Start(inv)) = 3 * Retries
      /\ Start(inv).phase = "Commit" /\ Start(inv).mode = mode
  BY <1>2, StartWeighs
<1>4. mode = Unversioned => Contains(durable.commits, inv)
  BY <1>2, Parts, AskedContains
<1>5. Weigh(Start(inv)) <= 3 * Retries
  BY <1>3, ProgramAssumption
<1>6. Running(durable, client, inv, Start(inv), applied)
  BY <1>2, <1>3, <1>4, <1>5 DEF Running
<1>7. head # << >>
  BY Parts DEF Serving
<1>8. Cached'
  BY SameCache, FreshHead
<1>9. ~Replayed' => head[1].version = Command[client].expected
  BY <1>1, <1>2 DEF Replayed
<1>10. Serving'
  BY <1>1, <1>6, <1>7, <1>9, Parts DEF Serving, cache
<1>11. IInv'
  BY <1>1, <1>8, <1>10, Parts DEF IInv, AppliedSettled
<1> QED
  BY <1>1, <1>11, Silent DEF Kept

\* A request is refused before the commit run.
LEMMA RefuseKept ==
    ASSUME IInv, phase = "state", client \in Clients, client \notin applied,
           NEW code, Tell(client, Refusal(code)), UNCHANGED <<durable, cache, others, applied>>
    PROVE  Kept
<1>1. Refusal(code).tag # "Packet"
  BY DEF Refusal
<1>2. TrueAnswers /\ DOMAIN replies' = Clients
  BY <1>1, Parts, Tells
<1>3. Cached'
  BY SameCache, FreshHead
<1>4. IInv'
  BY <1>2, <1>3, Over DEF Tell
<1> QED
  BY <1>2, <1>4 DEF Kept

\* The replay of an original, or a new decision on the verified head.
LEMMA PlanKept ==
    ASSUME IInv, phase = "state", client \in Clients, Snapshot(durable) = head[1], ~Barred',
           Plan(client), UNCHANGED <<durable, cache, others, applied>>
    PROVE  Kept
<1> DEFINE key == Command[client].key
           n == Version(durable)
<1>0. /\ Store(durable) /\ Command[client] \in Commands /\ Command[client].bound
      /\ head # << >> /\ Audited(durable, head[1], commits)
  BY Parts, IngressAssumption DEF Serving, Cached
<1>1. /\ n \in Nat /\ n = Len(durable.commits) /\ durable.state \in Nat
      /\ \A i \in 1 .. n : durable.commits[i] \in Entries
  BY <1>0, StoreParts
<1>2. head[1].version = n /\ head[1].state = durable.state
  BY DEF Snapshot
<1>3. commits = {durable.commits[i] : i \in 1 .. n}
  BY <1>0, <1>2 DEF Audited, EntriesTo, Entry
<1>4. /\ key \in Keys /\ Command[client].body \in Nat /\ Command[client].expected \in Nat
  BY <1>0 DEF Commands
<1>5. \A i \in 1 .. n : durable.commits[i].version = i
  BY <1>0 DEF Store
<1>6. \A i, j \in 1 .. n : durable.commits[i].key = durable.commits[j].key => i = j
  BY <1>0 DEF Store
<1>7. client \in applied => Settled(durable, client)
  BY Parts DEF AppliedSettled
<1>8. CASE Originals(key) # {}
  <2> DEFINE e == CHOOSE e \in Originals(key) : TRUE
  <2>1. e \in Originals(key)
    BY <1>8
  <2>2. \/ Replays(client, e) /\ Begin(client, e.publication, Unversioned)
        \/ ~Replays(client, e) /\ Tell(client, Refusal("Replay"))
    BY <1>8 DEF Plan
  <2> HIDE DEF e
  <2>3. PICK i \in 1 .. n : e = durable.commits[i] /\ e.key = key
    BY <1>3, <2>1 DEF Originals
  <2>4. e.version = i /\ e.publication \in Publications
    BY <1>1, <1>5, <2>3 DEF Entries
  <2>5. CASE Replays(client, e) /\ Begin(client, e.publication, Unversioned)
    <3> DEFINE inv == [key |-> key, publication |-> e.publication, mode |-> Unversioned]
    <3>1. i = Place(client) /\ e.publication.body = Command[client].body
      BY <2>4, <2>5 DEF Replays, Place
    <3>2. Settled(durable, client)
      BY <2>3, <3>1 DEF Settled
    <3>3. Asked(durable, client, inv)
      BY <1>0, <2>3, <2>4, <3>1, <3>2 DEF Asked
    <3>4. Unversioned \in Modes
      BY DEF Unversioned, Modes, ModeKinds
    <3> QED
      BY <2>5, <3>3, <3>4, BeginKept
  <2>6. CASE ~Replays(client, e) /\ Tell(client, Refusal("Replay"))
    <3>1. ~Settled(durable, client)
      <4> SUFFICES ASSUME Settled(durable, client) PROVE FALSE
        OBVIOUS
      <4>1. Place(client) = i
        BY <1>6, <2>3 DEF Settled
      <4> QED
        BY <2>3, <2>4, <2>6, <4>1 DEF Settled, Replays, Place
    <3>2. client \notin applied
      BY <1>7, <3>1
    <3> QED
      BY <2>6, <3>2, RefuseKept
  <2> QED
    BY <2>2, <2>5, <2>6
<1>9. CASE Originals(key) = {}
  <2> DEFINE body == Command[client].body
             pub == [prestate |-> head[1].state, body |-> body, genuine |-> TRUE, size |-> 1]
             mode == At(Command[client].expected)
             inv == [key |-> key, publication |-> pub, mode |-> mode]
  <2>1. client \notin applied
    <3>1. ~Settled(durable, client)
      BY <1>3, <1>9 DEF Settled, Originals
    <3> QED
      BY <1>7, <3>1
  <2>2. \/ \E code : Tell(client, Refusal(code))
        \/ head[1].version = Command[client].expected /\ Begin(client, pub, mode)
    BY <1>9 DEF Plan
  <2>3. CASE \E code : Tell(client, Refusal(code))
    BY <2>1, <2>3, RefuseKept
  <2>4. CASE head[1].version = Command[client].expected /\ Begin(client, pub, mode)
    <3>1. pub \in Publications /\ mode \in Modes
      BY <1>1, <1>2, <1>4 DEF Publications, At, Modes, ModeKinds
    <3>2. Asked(durable, client, inv)
      BY <1>0, <3>1 DEF Asked
    <3> HIDE DEF pub, mode
    <3> QED
      BY <2>1, <2>4, <3>1, <3>2, BeginKept
  <2> QED
    BY <2>2, <2>3, <2>4
<1> QED
  BY <1>8, <1>9

\* verified_head.
LEMMA VerifyKept ==
    ASSUME IInv, VerifyHead
    PROVE  Kept
<1>0. phase = "state" /\ UNCHANGED <<cache, applied>>
  BY DEF VerifyHead
<1>1. CASE Unavailable /\ UNCHANGED <<durable, others>>
  <2>1. Cached'
    BY <1>0, <1>1, SameCache, FreshHead
  <2>2. UNCHANGED replies /\ Release
    BY <1>1 DEF Unavailable
  <2>3. IInv'
    BY <1>0, <1>1, <2>1, <2>2, Parts, Over
  <2> QED
    BY <2>2, <2>3, Silent DEF Kept
<1>2. CASE /\ Snapshot(durable) = head[1] /\ client # NoClient /\ Plan(client)
           /\ ~Barred /\ UNCHANGED <<durable, terminal, others>>
  <2>1. client \in Clients
    BY <1>2, Parts DEF Serving
  <2>2. ~Barred'
    BY <1>2 DEF Barred, terminal
  <2> QED
    BY <1>0, <1>2, <2>1, <2>2, PlanKept
<1>3. CASE Interfere(durable) /\ Unavailable
  <2>1. Store(durable') /\ Extends(durable, durable') /\ others' \in Nat /\ others' # 0
    BY <1>3, Parts, Interfered
  <2>2. Cached'
    BY <1>0, <2>1, Parts, StaysTrue DEF Cached, cache
  <2>3. UNCHANGED replies /\ Release
    BY <1>3 DEF Unavailable
  <2>4. AppliedSettled'
    BY <1>0, <2>1, StillSettled
  <2>5. IInv'
    BY <2>1, <2>2, <2>3, <2>4, Parts, Rests
  <2> QED
    BY <2>3, <2>5, Silent DEF Kept
<1> QED
  BY <1>1, <1>2, <1>3 DEF VerifyHead, Alone

\* Once the program may go on from o, the terminal can be used, unless
\* another connection has disturbed it.
Follows(o) ==
    \/ disturbed'
    \/ cont.phase = "Reopen" /\ (o.tag = "Ok" => ~Barred')
    \/ cont.phase # "Reopen" /\ UNCHANGED <<terminal, disturbed>>
    \/ cont.phase = "Commit" /\ o.tag = "Unknown"

\* What the store did while it answered o: it has grown by the command of the
\* client, which it then certifies or leaves unknown, or by another's write,
\* which it refuses to work on; it refuses an applied command in no other case.
Handled(o) ==
    /\ Store(durable') /\ Extends(durable, durable') /\ AppliedSettled' /\ others' \in Nat
    /\ Fits(cont.phase, o) /\ Follows(o)
    /\ o.tag # "Refused" => UNCHANGED others /\ (Replayed => durable' = durable)
    /\ client \in applied' => Contains(durable'.commits, invocation)
    /\ client \in applied' \ applied => o.tag \in {"Ok", "Unknown"} /\ cont.phase = "Commit"
    /\ o.tag = "Refused" /\ cont.phase = "Commit" =>
         client \notin applied' \/ (o.code # "Replay" /\ disturbed')
    /\ o.tag = "Ok" /\ cont.phase = "Commit" => Certified(durable', invocation, o.value)
    /\ cont.phase = "History" /\ o.tag = "Ok" => o.value = durable.commits /\ durable' = durable

\* The run has lost its answer.
LEMMA LostKept ==
    ASSUME IInv, Lost, Store(durable'), AppliedSettled', others' \in Nat
    PROVE  Kept
<1>1. head' = << >> /\ Release /\ UNCHANGED replies
  BY DEF Lost, DropHead, Unavailable
<1>2. IInv'
  BY <1>1, NoHead, Rests, Parts
<1> QED
  BY <1>1, <1>2, Silent DEF Kept

\* The cache, while the commit run goes on.
LEMMA RunCached ==
    ASSUME IInv, phase = "commit", NEW o, Handled(o), UNCHANGED <<head, commits, invocation>>,
           phase' # "deliver", o.tag # "Refused"
    PROVE  Cached'
<1>1. head # << >> => Audited(durable', head[1], commits)
  BY Parts, StaysTrue DEF Cached, Handled
<1>2. others = 0 /\ Replayed /\ head # << >> => head[1] = Snapshot(durable')
  BY FreshHead DEF Handled
<1> QED
  BY <1>1, <1>2 DEF Cached, Handled, Replayed

\* The guard of the next request.
LEMMA RunsOn ==
    ASSUME IInv, phase = "commit", NEW o, Handled(o), NEW s,
           GoodStep(cont, invocation, o, s), s.tag = "Request"
    PROVE  Running(durable', client, invocation, s.cont, applied')
<1>1. /\ Asked(durable, client, invocation)
      /\ Running(durable, client, invocation, cont, applied)
  BY Parts DEF Serving
<1>2. /\ s.cont \in Continuations /\ Weigh(s.cont) <= Weigh(cont) /\ o.tag # "Refused"
      /\ s.cont.phase = "Commit" =>
            \/ cont.phase = "Commit" /\ o.tag = "NotApplied" /\ s.cont.mode = cont.mode
            \/ /\ cont.phase = "History" /\ o.tag = "Ok"
               /\ s.cont.mode = IF Contains(o.value, invocation) THEN Unversioned
                                ELSE invocation.mode
  BY DEF GoodStep
<1>3. Weigh(s.cont) <= 3 * Retries
  <2>1. /\ s.cont.ordinal \in Nat /\ s.cont.retries \in Nat
        /\ cont.ordinal \in Nat /\ cont.retries \in Nat
    BY <1>1, <1>2, ContFields DEF Running
  <2> QED
    BY <1>1, <1>2, <2>1, ProgramAssumption DEF Running, Weigh, Weight
<1>4. Contains(durable.commits, invocation) => Contains(durable'.commits, invocation)
  BY Parts, StaysTrue DEF Handled
<1>5. ASSUME s.cont.phase = "Commit", cont.phase = "Commit", o.tag = "NotApplied",
             s.cont.mode = cont.mode
      PROVE  Running(durable', client, invocation, s.cont, applied')
  <2>1. client \in applied' => client \in applied
    BY <1>5 DEF Handled
  <2> QED
    BY <1>1, <1>2, <1>3, <1>4, <1>5, <2>1 DEF Running, Handled
<1>6. ASSUME s.cont.phase = "Commit", cont.phase = "History", o.tag = "Ok",
             s.cont.mode = IF Contains(o.value, invocation) THEN Unversioned ELSE invocation.mode
      PROVE  Running(durable', client, invocation, s.cont, applied')
  <2>1. o.value = durable.commits /\ durable' = durable
    BY <1>6 DEF Handled
  <2>2. invocation.mode = Unversioned => Contains(durable.commits, invocation)
    BY <1>1, Parts, AskedContains
  <2>3. client \in applied' => Contains(durable.commits, invocation)
    BY <2>1 DEF Handled
  <2> QED
    BY <1>2, <1>3, <1>6, <2>1, <2>2, <2>3 DEF Running
<1>7. CASE s.cont.phase # "Commit"
  BY <1>2, <1>3, <1>7 DEF Running, Handled
<1> QED
  BY <1>2, <1>5, <1>6, <1>7

\* The terminal at the next request.
LEMMA Usable ==
    ASSUME IInv, phase = "commit", NEW o, Handled(o), NEW s,
           GoodStep(cont, invocation, o, s), s.tag = "Request",
           s.cont.phase \in {"Commit", "History"}
    PROVE  disturbed' \/ ~Barred'
<1>1. /\ IF cont.phase = "Reopen" THEN o.tag = "Ok" ELSE o.tag # "Unknown"
      /\ cont.phase \in Phases
  BY Parts, ContFields DEF GoodStep, Serving, Running
<1>2. Follows(o)
  BY DEF Handled
<1>3. CASE cont.phase # "Reopen" /\ UNCHANGED <<terminal, disturbed>>
  <2>1. disturbed \/ ~Barred
    BY <1>1, <1>3, Parts DEF Serving, Phases
  <2>2. UNCHANGED <<closed, behind, disturbed>>
    BY <1>3 DEF terminal
  <2> QED
    BY <2>1, <2>2, Zenon DEF Barred
<1> QED
  BY <1>1, <1>2, <1>3 DEF Follows

\* The modes a client's commit may have.
LEMMA AskedMode ==
    ASSUME NEW d, NEW c, NEW inv, Asked(d, c, inv)
    PROVE  inv.mode \in Modes /\ inv.key \in Keys /\ inv.publication \in Publications
<1>1. Command[c].expected \in Nat /\ Command[c].key \in Keys
  BY IngressAssumption DEF Asked, Commands
<1> QED
  BY <1>1 DEF Asked, At, Unversioned, Modes, ModeKinds

\* One answer to the commit program.
LEMMA AnswerKept ==
    ASSUME IInv, phase = "commit", NEW o, Handled(o), Answer(o)
    PROVE  Kept
<1> DEFINE s == Resume(cont, invocation, o)
<1>0. /\ Asked(durable, client, invocation) /\ head # << >>
      /\ Running(durable, client, invocation, cont, applied)
      /\ ~Replayed => head[1].version = Command[client].expected
  BY Parts DEF Serving
<1>1. cont \in Continuations /\ Weigh(cont) <= 3 * Retries /\ invocation.mode \in Modes
  BY <1>0, AskedMode DEF Running
<1>2. GoodStep(cont, invocation, o, s)
  BY <1>1, ResumeStep DEF Handled
<1>3. /\ Store(durable') /\ AppliedSettled' /\ others' \in Nat /\ client \in Clients
      /\ Asked(durable', client, invocation)
  BY <1>0, Parts, StaysTrue DEF Handled, Asked
<1>4. \/ /\ s.tag = "Request" /\ cont' = s.cont
         /\ UNCHANGED <<cache, phase, client, invocation, receipt, replies>>
      \/ /\ s.tag # "Request" /\ s.outcome.tag = "Ok" /\ receipt' = s.outcome.value
         /\ phase' = "confirm" /\ UNCHANGED <<cache, client, invocation, cont, replies>>
      \/ s.tag # "Request" /\ s.outcome.tag # "Ok" /\ CommitFailed(s.outcome)
  BY DEF Answer
<1> HIDE DEF s
<1>5. CASE /\ s.tag = "Request" /\ cont' = s.cont
           /\ UNCHANGED <<cache, phase, client, invocation, receipt, replies>>
  <2>1. Running(durable', client, invocation, s.cont, applied')
    BY <1>2, <1>5, RunsOn
  <2>2. UNCHANGED <<head, commits>>
    BY <1>5 DEF cache
  <2>3. Cached'
    BY <1>2, <1>5, <2>2, RunCached DEF GoodStep
  <2>4. s.cont.phase \in {"Commit", "History"} => disturbed' \/ ~Barred'
    BY <1>2, <1>5, Usable
  <2>a. Serving'
    BY <1>0, <1>3, <1>5, <2>1, <2>2, <2>4, Parts DEF Serving, Replayed
  <2>5. IInv'
    BY <1>3, <1>5, <2>3, <2>a, Parts DEF IInv
  <2> QED
    BY <1>5, <2>5, Silent DEF Kept
<1>6. CASE /\ s.tag # "Request" /\ s.outcome.tag = "Ok" /\ receipt' = s.outcome.value
           /\ phase' = "confirm" /\ UNCHANGED <<cache, client, invocation, cont, replies>>
  <2>1. Certified(durable', invocation, receipt')
    BY <1>2, <1>6 DEF GoodStep, Handled
  <2>2. UNCHANGED <<head, commits>>
    BY <1>6 DEF cache
  <2>3. Cached'
    BY <1>2, <1>6, <2>2, RunCached DEF GoodStep
  <2>4. Serving'
    BY <1>0, <1>3, <1>6, <2>1, <2>2, Parts DEF Serving, Replayed
  <2>5. IInv'
    BY <1>3, <1>6, <2>3, <2>4, Parts DEF IInv
  <2> QED
    BY <1>6, <2>5, Silent DEF Kept
<1>7. CASE s.tag # "Request" /\ s.outcome.tag # "Ok" /\ CommitFailed(s.outcome)
  <2>1. head' = << >>
    BY <1>7 DEF CommitFailed, DropHead
  <2>2. CASE s.outcome.tag = "Refused"
    <3> DEFINE code == IF o.code = "Replay" THEN "Replay" ELSE "Conflict"
    <3>0. s.outcome = o /\ cont.phase = "Commit"
      BY <1>2, <1>7, <2>2 DEF GoodStep
    <3>1. Tell(client, Refusal(code))
      BY <1>7, <2>2, <3>0 DEF CommitFailed
    <3>2. /\ Refusal(code).tag # "Packet"
          /\ client \in applied' => Refusal(code).code = "Conflict" /\ disturbed'
      BY <2>2, <3>0 DEF Handled, Refusal
    <3> HIDE DEF code
    <3>3. TrueAnswers /\ DOMAIN replies' = Clients
      BY <1>3, <3>1, <3>2, Parts, Tells
    <3>4. IInv'
      BY <1>3, <2>1, <3>1, <3>3, NoHead, Rests DEF Tell
    <3> QED
      BY <3>3, <3>4 DEF Kept
  <2>3. CASE s.outcome.tag # "Refused"
    <3>1. Release /\ UNCHANGED replies
      BY <1>7, <2>3 DEF CommitFailed, Unavailable
    <3>2. IInv'
      BY <1>3, <2>1, <3>1, NoHead, Rests, Parts
    <3> QED
      BY <3>1, <3>2, Silent DEF Kept
  <2> QED
    BY <2>2, <2>3
<1> QED
  BY <1>4, <1>5, <1>6, <1>7

\* A store that is left alone.
LEMMA HandledIdly ==
    ASSUME IInv, phase = "commit", UNCHANGED <<durable, others, applied>>, NEW o,
           Fits(cont.phase, o), Follows(o),
           ~(o.tag \in {"Ok", "Refused"} /\ cont.phase = "Commit"),
           cont.phase = "History" /\ o.tag = "Ok" => o.value = durable.commits
    PROVE  Handled(o)
<1>1. Store(durable') /\ Extends(durable, durable') /\ AppliedSettled' /\ others' \in Nat
  BY Parts, ExtendsItself DEF AppliedSettled
<1>2. client \in applied => Contains(durable.commits, invocation)
  BY Parts DEF Serving, Running
<1> QED
  BY <1>1, <1>2 DEF Handled

\* An operation that another connection has overtaken.
LEMMA HandledConcurrently ==
    ASSUME IInv, phase = "commit", Interfere(durable), UNCHANGED applied,
           Answer(Refused("Concurrent"))
    PROVE  Kept
<1>1. /\ Store(durable') /\ Extends(durable, durable')
      /\ others' \in Nat /\ others' # 0 /\ disturbed'
  BY Parts, Interfered
<1>2. AppliedSettled'
  BY <1>1, StillSettled
<1>3. client \in applied => Contains(durable.commits, invocation)
  BY Parts DEF Serving, Running
<1>4. Contains(durable.commits, invocation) => Contains(durable'.commits, invocation)
  BY <1>1, Parts, StaysTrue
<1>5. Refused("Concurrent").tag = "Refused" /\ Refused("Concurrent").code = "Concurrent"
  BY DEF Refused
<1>6. Handled(Refused("Concurrent"))
  BY <1>1, <1>2, <1>3, <1>4, <1>5 DEF Handled, Fits, Follows
<1> QED
  BY <1>6, AnswerKept

\* An operation that fails without an effect.
LEMMA FailKept ==
    ASSUME IInv, phase = "commit", UNCHANGED <<durable, others, applied>>, NoEffect,
           cont.phase = "Reopen" \/ UNCHANGED <<terminal, disturbed>>
    PROVE  Kept
<1>1. CASE Lost
  BY <1>1, Parts, LostKept DEF AppliedSettled
<1>2. ASSUME NEW fault \in Faults, Answer(NotApplied(fault))
      PROVE  Kept
  <2>1. NotApplied(fault).tag = "NotApplied" /\ NotApplied(fault).fault = fault
    BY DEF NotApplied
  <2>2. Follows(NotApplied(fault))
    BY <2>1 DEF Follows
  <2>3. Handled(NotApplied(fault))
    BY <2>1, <2>2, HandledIdly DEF Fits
  <2> QED
    BY <1>2, <2>3, AnswerKept
<1> QED
  BY <1>1, <1>2 DEF NoEffect

\* The reopen of the commit run.
LEMMA ReopenKept ==
    ASSUME IInv, CommitReopen
    PROVE  Kept
<1>0. phase = "commit" /\ cont.phase = "Reopen" /\ UNCHANGED applied
  BY DEF CommitReopen
<1>1. /\ Refused("History").tag = "Refused" /\ Ok(durable.commits).tag = "Ok"
      /\ Ok(durable.commits).value = durable.commits
  BY DEF Refused, Ok
<1>2. CASE exclusive /\ Answer(Refused("History")) /\ UNCHANGED <<durable, others>>
  <2>1. Follows(Refused("History"))
    BY <1>0, <1>1 DEF Follows
  <2>2. Handled(Refused("History"))
    BY <1>0, <1>1, <1>2, <2>1, HandledIdly DEF Fits
  <2> QED
    BY <1>0, <1>2, <2>2, AnswerKept
<1>3. CASE ~exclusive /\ Overtaken /\ Answer(Ok(durable.commits)) /\ UNCHANGED <<durable, others>>
  <2>1. ~Barred'
    BY <1>3, Zenon DEF Overtaken, Barred
  <2>2. Follows(Ok(durable.commits))
    BY <1>0, <2>1 DEF Follows
  <2>3. Handled(Ok(durable.commits))
    BY <1>0, <1>1, <1>3, <2>2, HandledIdly DEF Fits
  <2> QED
    BY <1>0, <1>3, <2>3, AnswerKept
<1>4. CASE NoEffect /\ UNCHANGED <<durable, others>>
  BY <1>0, <1>4, FailKept
<1>5. CASE Interfere(durable) /\ Answer(Refused("Concurrent"))
  BY <1>0, <1>5, HandledConcurrently
<1> QED
  BY <1>2, <1>3, <1>4, <1>5 DEF CommitReopen, Alone

\* The history read of the commit run.
LEMMA HistoryKept ==
    ASSUME IInv, CommitHistory
    PROVE  Kept
<1>0. /\ phase = "commit" /\ cont.phase = "History" /\ UNCHANGED <<durable, others, applied>>
      /\ UNCHANGED <<terminal, disturbed>>
  BY DEF CommitHistory, history
<1>1. /\ Refused("History").tag = "Refused" /\ Ok(durable.commits).tag = "Ok"
      /\ Ok(durable.commits).value = durable.commits
  BY DEF Refused, Ok
<1>2. \A o : Follows(o)
  BY <1>0 DEF Follows
<1>3. CASE Answer(Refused("History"))
  <2>1. Handled(Refused("History"))
    BY <1>0, <1>1, <1>2, HandledIdly DEF Fits
  <2> QED
    BY <1>0, <1>3, <2>1, AnswerKept
<1>4. CASE Answer(Ok(durable.commits))
  <2>1. Handled(Ok(durable.commits))
    BY <1>0, <1>1, <1>2, HandledIdly DEF Fits
  <2> QED
    BY <1>0, <1>4, <2>1, AnswerKept
<1>5. CASE NoEffect
  BY <1>0, <1>5, FailKept
<1> QED
  BY <1>3, <1>4, <1>5 DEF CommitHistory

\* The store applies a command only on the version its client expects, and
\* then the command is where it belongs.
LEMMA AppliesAtPlace ==
    ASSUME IInv, phase = "commit", cont.phase = "Commit", NEW r,
           Sound(durable, invocation, cont.mode, r), r.tag = "Apply"
    PROVE  /\ Store(r.after) /\ Extends(durable, r.after) /\ Certified(r.after, invocation, r.receipt)
           /\ Settled(r.after, client) /\ Contains(r.after.commits, invocation)
           /\ ~Replayed
<1>1. /\ Asked(durable, client, invocation)
      /\ Running(durable, client, invocation, cont, applied)
  BY Parts DEF Serving
<1>2. /\ VersionMatches(durable, cont.mode) /\ Store(r.after) /\ Extends(durable, r.after)
      /\ Version(r.after) = Version(durable) + 1 /\ Certified(r.after, invocation, r.receipt)
      /\ r.receipt.version = Version(r.after) /\ ~Contains(durable.commits, invocation)
  BY DEF Sound
<1>3. cont.mode = invocation.mode /\ invocation.mode # Unversioned
  BY <1>1, <1>2 DEF Running
<1>4. invocation.mode = At(Command[client].expected)
  BY <1>1, <1>3 DEF Asked
<1>5. At(Command[client].expected).kind = "At"
      /\ At(Command[client].expected).expected = Command[client].expected
  BY DEF At
<1>6. Command[client].expected = Version(durable)
  BY <1>2, <1>3, <1>4, <1>5 DEF VersionMatches
<1>7. r.receipt.version = Place(client)
  BY <1>2, <1>6 DEF Place
<1>8. /\ Place(client) \in 1 .. Version(r.after)
      /\ r.after.commits[Place(client)].key = invocation.key
      /\ r.after.commits[Place(client)].publication = invocation.publication
  BY <1>2, <1>7 DEF Certified
<1>9. Settled(r.after, client)
  BY <1>1, <1>8 DEF Settled, Asked
<1>10. Contains(r.after.commits, invocation)
  BY <1>2, <1>8, StoreParts DEF Contains
<1> QED
  BY <1>2, <1>3, <1>9, <1>10 DEF Replayed

\* The commit on the synchronized tip.
LEMMA PublishKept ==
    ASSUME IInv, phase = "commit", cont.phase = "Commit", Alone,
           Publish(Decide(durable, invocation.key, invocation.publication, cont.mode))
    PROVE  Kept
<1> DEFINE r == Decide(durable, invocation.key, invocation.publication, cont.mode)
<1>0. others' = others /\ disturbed' = disturbed /\ others \in Nat
  BY Parts DEF Alone
<1>1. /\ Asked(durable, client, invocation) /\ Store(durable)
      /\ Running(durable, client, invocation, cont, applied)
  BY Parts DEF Serving
<1>2. Sound(durable, invocation, cont.mode, r)
  BY <1>1, AskedMode, Decision
<1>3. Publish(r)
  OBVIOUS
<1>4. /\ client \in applied =>
           Contains(durable.commits, invocation) /\ cont.mode = Unversioned
      /\ client \in Clients /\ AppliedSettled
  BY <1>1, Parts DEF Running, Asked
<1> HIDE DEF r
<1>5. /\ Ok(r.receipt).tag = "Ok" /\ Ok(r.receipt).value = r.receipt
      /\ Unknown("Io").tag = "Unknown" /\ Unknown("Io").fault = "Io" /\ "Io" \in Faults
      /\ Refused(r.code).tag = "Refused"
  BY DEF Ok, Unknown, Refused, Faults
<1>6. UNCHANGED terminal => \A o : Follows(o)
  BY <1>0 DEF Follows
<1>7. Follows(Unknown("Io"))
  BY <1>5 DEF Follows
<1>8. CASE r.tag = "Refuse" /\ Answer(Refused(r.code)) /\ Untouched /\ UNCHANGED terminal
  <2>1. client \notin applied'
    BY <1>2, <1>4, <1>8 DEF Sound, Untouched
  <2>2. Store(durable') /\ Extends(durable, durable') /\ AppliedSettled' /\ durable' = durable
    BY <1>1, <1>4, <1>8, ExtendsItself DEF AppliedSettled, Untouched
  <2>3. Handled(Refused(r.code))
    BY <1>0, <1>5, <1>6, <1>8, <2>1, <2>2 DEF Handled, Fits
  <2> QED
    BY <1>8, <2>3, AnswerKept
<1>9. CASE r.tag = "Replay" /\ Answer(Ok(r.receipt)) /\ Untouched /\ UNCHANGED terminal
  <2>1. /\ Store(durable') /\ Extends(durable, durable') /\ AppliedSettled'
        /\ durable' = durable /\ applied' = applied
    BY <1>1, <1>4, <1>9, ExtendsItself DEF AppliedSettled, Untouched
  <2>2. Certified(durable, invocation, r.receipt)
    BY <1>2, <1>9 DEF Sound
  <2>3. Handled(Ok(r.receipt))
    BY <1>0, <1>4, <1>5, <1>6, <1>9, <2>1, <2>2 DEF Handled, Fits
  <2> QED
    BY <1>9, <2>3, AnswerKept
<1>10. ASSUME r.tag = "Apply", Apply1(r.after)
       PROVE  /\ Store(durable') /\ AppliedSettled'
              /\ UNCHANGED terminal => Handled(Ok(r.receipt))
              /\ Handled(Unknown("Io"))
  <2>1. durable' = r.after /\ applied' = applied \cup {client}
    BY <1>10 DEF Apply1
  <2>2. /\ Store(durable') /\ Extends(durable, durable') /\ Certified(durable', invocation, r.receipt)
        /\ Settled(durable', client) /\ Contains(durable'.commits, invocation) /\ ~Replayed
    BY <1>2, <1>10, <2>1, AppliesAtPlace
  <2>3. \A c : Settled(durable, c) => Settled(durable', c)
    BY <1>1, <2>2, StaysTrue
  <2>4. Command[client].bound
    BY <1>1 DEF Asked
  <2>5. AppliedSettled'
    BY <1>4, <2>1, <2>2, <2>3, <2>4 DEF AppliedSettled
  <2>6. Handled(Unknown("Io"))
    BY <1>0, <1>5, <1>7, <2>2, <2>5 DEF Handled, Fits
  <2>7. UNCHANGED terminal => Handled(Ok(r.receipt))
    BY <1>0, <1>5, <1>6, <2>2, <2>5 DEF Handled, Fits
  <2> QED
    BY <2>2, <2>5, <2>6, <2>7
<1>11. CASE r.tag = "Apply" /\ Apply1(r.after) /\ Answer(Ok(r.receipt)) /\ UNCHANGED terminal
  BY <1>10, <1>11, AnswerKept
<1>12. CASE r.tag = "Apply" /\ Apply1(r.after) /\ Answer(Unknown("Io"))
  BY <1>10, <1>12, AnswerKept
<1>13. CASE r.tag = "Apply" /\ Apply1(r.after) /\ Lost
  BY <1>0, <1>10, <1>13, LostKept
<1>14. CASE Untouched /\ Answer(Unknown("Io"))
  <2>1. Handled(Unknown("Io"))
    BY <1>0, <1>5, <1>7, <1>14, HandledIdly DEF Fits, Untouched
  <2> QED
    BY <1>14, <2>1, AnswerKept
<1>15. r.tag \in {"Refuse", "Replay", "Apply"}
  BY <1>2 DEF Sound
<1> QED
  BY <1>3, <1>8, <1>9, <1>11, <1>12, <1>13, <1>14, <1>15 DEF Publish

\* A terminal that can no longer be used refuses the commit: nobody else's
\* write could make it so since the head was verified but a disturbance.
LEMMA BarredKept ==
    ASSUME IInv, phase = "commit", cont.phase = "Commit", Barred, Answer(Refused(BarredCode)),
           Untouched, UNCHANGED terminal, Alone
    PROVE  Kept
<1>1. disturbed'
  BY Parts DEF Serving, Alone
<1>2. /\ Store(durable') /\ Extends(durable, durable') /\ AppliedSettled'
      /\ others' \in Nat /\ UNCHANGED <<durable, applied>>
  BY Parts, ExtendsItself DEF AppliedSettled, Untouched, Alone
<1>3. client \in applied => Contains(durable.commits, invocation)
  BY Parts DEF Serving, Running
<1>4. /\ Refused(BarredCode).tag = "Refused" /\ Refused(BarredCode).code = BarredCode
      /\ BarredCode # "Replay"
  BY DEF Refused, BarredCode
<1>5. Handled(Refused(BarredCode))
  BY <1>1, <1>2, <1>3, <1>4 DEF Handled, Fits, Follows
<1> QED
  BY <1>5, AnswerKept

\* The commit of the commit run.
LEMMA WriteKept ==
    ASSUME IInv, CommitWrite
    PROVE  Kept
<1>0. phase = "commit" /\ cont.phase = "Commit"
  BY DEF CommitWrite
<1>1. CASE Alone /\ Publish(Decide(durable, invocation.key, invocation.publication, cont.mode))
  BY <1>0, <1>1, PublishKept
<1>2. CASE NoEffect /\ Untouched /\ UNCHANGED terminal /\ Alone
  BY <1>0, <1>2, FailKept DEF Untouched, Alone
<1>3. CASE /\ Barred /\ Answer(Refused(BarredCode))
           /\ Untouched /\ UNCHANGED terminal /\ Alone
  BY <1>0, <1>3, BarredKept
<1>4. CASE Interfere(durable) /\ Answer(Refused("Concurrent")) /\ UNCHANGED applied
  BY <1>0, <1>4, HandledConcurrently
<1> QED
  BY <1>1, <1>2, <1>3, <1>4 DEF CommitWrite

\* The receipt of a replay is the one of the client's own commit.
LEMMA ReplayedPlace ==
    ASSUME IInv, phase = "confirm", Replayed
    PROVE  receipt.version = Place(client)
<1>1. Asked(durable, client, invocation) /\ Certified(durable, invocation, receipt)
  BY Parts DEF Serving
<1>2. Settled(durable, client)
  BY <1>1, Parts, AskedContains DEF Replayed
<1>3. \A i, j \in 1 .. Version(durable) : durable.commits[i].key = durable.commits[j].key => i = j
  BY Parts DEF Store
<1> QED
  BY <1>1, <1>2, <1>3 DEF Asked, Certified, Settled

\* The entry the endpoint adds to its cache is the one the store has.
LEMMA ConfirmedEntry ==
    ASSUME IInv, phase = "confirm", ~Replayed, IsSuccessor(Snapshot(durable))
    PROVE  /\ commits \cup {NewEntry} = EntriesTo(durable, Version(durable))
           /\ receipt.version = Place(client)
<1> DEFINE n == head[1].version
<1>0. /\ Asked(durable, client, invocation) /\ Certified(durable, invocation, receipt)
      /\ head # << >> /\ Audited(durable, head[1], commits) /\ n = Command[client].expected
  BY Parts DEF Serving, Cached
<1>1. Version(durable) = n + 1 /\ receipt.version = n + 1
  BY DEF IsSuccessor, Snapshot
<1>2. n \in Nat /\ commits = EntriesTo(durable, n)
  BY <1>0, Parts, StoreParts DEF Audited
<1> HIDE DEF n
<1>3. n + 1 \in 1 .. Version(durable)
  BY <1>1, <1>2
<1>4. durable.commits[n + 1] \in Entries /\ durable.commits[n + 1].version = n + 1
  BY <1>3, Parts, StoreParts DEF Store
<1>5. /\ durable.commits[n + 1].key = invocation.key
      /\ durable.commits[n + 1].publication = invocation.publication
  BY <1>0, <1>1 DEF Certified
<1>6. NewEntry = durable.commits[n + 1]
  BY <1>1, <1>4, <1>5 DEF NewEntry, Entries
<1>7. \A i : i \in 1 .. n + 1 <=> (i \in 1 .. n \/ i = n + 1)
  BY <1>2
<1>8. EntriesTo(durable, n + 1) = EntriesTo(durable, n) \cup {durable.commits[n + 1]}
  BY <1>7 DEF EntriesTo, Entry
<1> QED
  BY <1>0, <1>1, <1>2, <1>6, <1>8 DEF Place

\* The check after the receipt.
LEMMA ConfirmKept ==
    ASSUME IInv, Confirm
    PROVE  Kept
<1> DEFINE actual == Snapshot(durable)
<1>0. phase = "confirm" /\ UNCHANGED applied
  BY DEF Confirm
<1>1. /\ Asked(durable, client, invocation) /\ Certified(durable, invocation, receipt)
      /\ head # << >> /\ client \in Clients /\ Command[client].bound
      /\ Audited(durable, head[1], commits)
  BY <1>0, Parts DEF Serving, Cached, Asked
<1>2. \/ /\ \/ Replayed /\ actual = head[1] /\ Proceed("deliver") /\ UNCHANGED cache
            \/ Replayed /\ Unavailable /\ UNCHANGED cache
            \/ /\ ~Replayed /\ IsSuccessor(actual) /\ commits' = commits \cup {NewEntry}
               /\ head' = <<actual>> /\ Proceed("deliver")
            \/ Lost
         /\ UNCHANGED <<durable, others>>
      \/ Interfere(durable) /\ Lost
  BY DEF Confirm, Alone, Lost
<1> HIDE DEF actual
<1>3. CASE /\ Replayed /\ actual = head[1] /\ Proceed("deliver")
           /\ UNCHANGED <<cache, durable, others>>
  <2>1. /\ phase' = "deliver" /\ UNCHANGED <<client, invocation, cont, receipt, replies>>
        /\ UNCHANGED <<head, commits>>
    BY <1>3 DEF Proceed, request, cache
  <2>2. Cached'
    BY <1>0, <1>1, <1>3, <2>1 DEF Cached, actual
  <2>3. receipt.version = Place(client)
    BY <1>0, <1>3, ReplayedPlace
  <2>4. Serving'
    BY <1>0, <1>1, <1>3, <2>1, <2>3 DEF Serving
  <2>5. IInv'
    BY <1>0, <1>3, <2>1, <2>2, <2>4, Parts DEF IInv, AppliedSettled
  <2> QED
    BY <2>1, <2>5, Silent DEF Kept
<1>4. CASE Replayed /\ Unavailable /\ UNCHANGED <<cache, durable, others>>
  <2>1. Cached'
    BY <1>0, <1>4, SameCache, FreshHead
  <2>2. UNCHANGED replies /\ Release
    BY <1>4 DEF Unavailable
  <2>3. IInv'
    BY <1>0, <1>4, <2>1, <2>2, Parts, Over
  <2> QED
    BY <2>2, <2>3, Silent DEF Kept
<1>5. CASE /\ ~Replayed /\ IsSuccessor(actual) /\ commits' = commits \cup {NewEntry}
           /\ head' = <<actual>> /\ Proceed("deliver") /\ UNCHANGED <<durable, others>>
  <2>1. phase' = "deliver" /\ UNCHANGED <<client, invocation, cont, receipt, replies>>
    BY <1>5 DEF Proceed, request
  <2>2. commits' = EntriesTo(durable, Version(durable)) /\ receipt.version = Place(client)
    BY <1>0, <1>5, ConfirmedEntry DEF actual
  <2>3. head' # << >> /\ head'[1] = actual
    BY <1>5
  <2>4. Audited(durable, actual, commits')
    BY <2>2, Parts, WholeHistory DEF actual
  <2>5. Cached'
    BY <1>0, <1>5, <2>3, <2>4 DEF Cached, actual
  <2>6. Serving'
    BY <1>0, <1>1, <1>5, <2>1, <2>2, <2>3 DEF Serving
  <2>7. IInv'
    BY <1>0, <1>5, <2>1, <2>5, <2>6, Parts DEF IInv, AppliedSettled
  <2> QED
    BY <2>1, <2>7, Silent DEF Kept
<1>6. CASE Lost /\ UNCHANGED <<durable, others>>
  BY <1>0, <1>6, Parts, LostKept DEF AppliedSettled
<1>7. CASE Interfere(durable) /\ Lost
  <2>1. Store(durable') /\ Extends(durable, durable') /\ others' \in Nat
    BY <1>7, Parts, Interfered
  <2>2. AppliedSettled'
    BY <1>0, <2>1, StillSettled
  <2> QED
    BY <1>7, <2>1, <2>2, LostKept
<1> QED
  BY <1>2, <1>3, <1>4, <1>5, <1>6, <1>7

\* A step of nobody.
LEMMA StutterKept ==
    ASSUME IInv, UNCHANGED vars
    PROVE  IInv' /\ TrueAnswers
<1>1. /\ UNCHANGED <<durable, head, commits, phase, client, invocation, cont, receipt>>
      /\ UNCHANGED <<replies, others, applied, disturbed, closed, behind>>
  BY DEF vars, cache, request, environment, history, terminal
<1>2. Barred' = Barred
  BY <1>1 DEF Barred
<1>3. IInv'
  BY <1>1, <1>2, Parts DEF IInv, Cached, Serving, AppliedSettled, Replayed
<1> QED
  BY <1>1, <1>3, Silent

\* Every step.
LEMMA StepKept ==
    ASSUME IInv, [Next]_vars
    PROVE  IInv' /\ TrueAnswers
<1> SUFFICES Kept
  BY DEF Kept
<1>1. ASSUME NEW c \in Clients, Ask(c) \/ AskAgain(c)
      PROVE  Kept
  BY <1>1, AcceptKept DEF Ask, AskAgain
<1>2. CASE Inspect \/ Die \/ OtherWrite
  BY <1>2, InspectKept, DieKept, OtherKept
<1>3. CASE Serve
  BY <1>3, LoadKept, VerifyKept, ReopenKept, HistoryKept, WriteKept, ConfirmKept, DeliverKept
     DEF Serve
<1>4. CASE UNCHANGED vars
  BY <1>4, StutterKept DEF Kept
<1> QED
  BY <1>1, <1>2, <1>3, <1>4 DEF Next

\* The inductive invariant holds of every behaviour.
LEMMA Invariant == Spec => []IInv
<1>1. Spec => Init /\ [][Next]_vars
  BY PTL DEF Spec
<1>2. Init => IInv
  BY InitIInv
<1>3. IInv /\ [Next]_vars => IInv'
  BY StepKept
<1> QED
  BY <1>1, <1>2, <1>3, PTL

-----------------------------------------------------------------------------
(* The theorems. *)

\* The cached head and entries are always the audited history of the store,
\* and between requests the head is the store's own unless another connection
\* has written: load, verified_head and the commit run of the endpoint
\* never judge a request by a stale or partial list, whatever operation
\* fails or is lost and wherever the process dies.
THEOREM CacheStaysAudited == Spec => []CacheIsAudited
<1>1. ASSUME IInv PROVE CacheIsAudited
  <2> SUFFICES ASSUME head # << >>
               PROVE  /\ head[1].version <= Version(durable)
                      /\ commits = EntriesTo(durable, head[1].version)
                      /\ head[1].chain = SubSeq(durable.chain, 1, head[1].version)
                      /\ others = 0 /\ phase = "idle" => head[1] = Snapshot(durable)
    BY DEF CacheIsAudited
  <2>1. Audited(durable, head[1], commits) /\ Version(durable) \in Nat
    BY <1>1, Parts, StoreParts DEF Cached
  <2>2. others = 0 /\ phase = "idle" => head[1] = Snapshot(durable)
    BY <1>1, FreshHead
  <2> QED
    BY <2>1, <2>2 DEF Audited
<1> QED
  BY <1>1, Invariant, PTL

\* Every answer of the endpoint is true: a packet carries the one commit of
\* the command, at the version its client expected.  A command the endpoint
\* has applied, though the request that applied it was answered Unavailable
\* or died, is refused afterwards only as Conflict, by a commit run during
\* which another connection wrote: V2's refusal of a tip that moved before
\* its transaction, or an exclusive terminal's of an outside change.
THEOREM AnswersAreTrue == Spec => AnswersHold
<1>1. ASSUME IInv, [Next]_vars PROVE [TrueAnswers]_vars
  BY <1>1, StepKept
<1>2. Spec => [][Next]_vars
  BY PTL DEF Spec
<1>3. Spec => [][TrueAnswers]_vars
  BY <1>1, <1>2, Invariant, PTL
<1> QED
  BY <1>3 DEF AnswersHold, TrueAnswers

=============================================================================
