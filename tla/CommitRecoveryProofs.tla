------------------------ MODULE CommitRecoveryProofs ------------------------
(***************************************************************************)
(* Proofs about CommitRecovery, for any number of callers, requests,       *)
(* retries and restarts: every invariant of the commit program's recovery, *)
(* and that the callers, the drivers and the faulty store together keep    *)
(* the promise of PublishOnce.                                             *)
(***************************************************************************)
EXTENDS CommitRecovery, SequenceTheorems, TLAPS

DeliveryIds == [chain: Seq(Publications), ordinal: Nat]

Records ==
    [id: DeliveryIds, version: Nat, ordinal: Nat, payload: Nat, acked: BOOLEAN]

Stores ==
    [state: 0 .. MaxCount, chain: Seq(Publications), commits: Seq(Entries),
     receipts: Seq(Seq(Publications)), replays: Seq(Keys), outbox: Seq(Records)]

\* One commit of a store, with everything that belongs to it.
CommitIsFold(d, i) ==
    /\ d.commits[i].version = i
    /\ d.commits[i].publication.prestate = StateAfter(d, i - 1)
    /\ d.receipts[i] = [j \in 1 .. i |-> d.commits[j].publication]
    /\ d.replays[i] = d.commits[i].key
    /\ \A j \in 1 .. Version(d) : d.replays[i] = d.replays[j] => i = j
    /\ \A o \in 0 .. 1 :
         /\ d.outbox[2 * i - 1 + o].id = DeliveryId(d.receipts[i], o)
         /\ d.outbox[2 * i - 1 + o].payload = StateAfter(d, i)

\* StoreIsFold of any store; the chain of the genesis store is empty, so
\* the chain is the history's whatever the version.
Fold(d) ==
    /\ \A i \in 1 .. Version(d) : CommitIsFold(d, i)
    /\ d.state = StateAfter(d, Version(d))
    /\ Len(d.receipts) = Version(d) /\ Len(d.replays) = Version(d)
    /\ Len(d.outbox) = 2 * Version(d)
    /\ d.chain = [j \in 1 .. Version(d) |-> d.commits[j].publication]

\* A receipt names a commit of the request.
Certifies(d, inv, receipt) ==
    /\ receipt.version \in 1 .. Version(d)
    /\ d.commits[receipt.version].key = inv.key
    /\ d.commits[receipt.version].publication = inv.publication
    /\ receipt.chain = d.receipts[receipt.version]

\* What the requests made and the retries left weigh: three for a retry.
Weight(phase) == IF phase = "Reopen" THEN 2 ELSE IF phase = "History" THEN 1 ELSE 0
Load(c) == c.ordinal + Weight(c.phase) + 3 * c.retries

\* A continuation that knows its request may be in the history.
Wary(c) ==
    /\ c.unknown # NoFault
    /\ c.phase = "Commit" => c.mode = Unversioned

Types ==
    /\ durable \in Stores
    /\ invocation \in [Actors -> Invocations]
    /\ cont \in [Actors -> Continuations]
    /\ status \in [Actors -> {"waiting", "done", "crashed"}]
    /\ outcome \in [Actors -> Outcomes \cup {NoOutcome}]
    /\ incarnation \in [Actors -> 0 .. Restarts]
    /\ applied \subseteq Actors

\* What holds of one caller: its outcome is there once its run is done, its
\* budget holds, and when the store took its request the history has it, its
\* run knows, and it was not told otherwise.
Safe(a) ==
    /\ outcome[a] \in IF status[a] = "done" THEN Outcomes ELSE {NoOutcome}
    /\ Load(cont[a]) <= 3 * Retries + (IF incarnation[a] = 0 THEN 0 ELSE 2)
    /\ outcome[a].tag = "Ok" => Certifies(durable, invocation[a], outcome[a].value)
    /\ a \in applied =>
         /\ Contains(durable.commits, invocation[a])
         /\ status[a] = "waiting" => Wary(cont[a])
         /\ outcome[a].tag \notin {"Refused", "NotApplied"}

\* A lost reply answers a request that is no longer outstanding: one of an
\* earlier epoch, an earlier one of this epoch, or one of a run that ended.
Outdated(l) ==
    /\ l.actor \in Actors
    /\ l.binding.ordinal \in Nat
    /\ \E i \in Nat :
         /\ l.binding.epoch = <<l.actor, i>>
         /\ i <= incarnation[l.actor]
         /\ i = incarnation[l.actor] /\ status[l.actor] = "waiting" =>
              l.binding.ordinal < cont[l.actor].ordinal

IInv ==
    /\ Types
    /\ Fold(durable)
    /\ \A a \in Actors : Safe(a)
    /\ \A l \in late : Outdated(l)

-----------------------------------------------------------------------------
(* The commit program. *)

\* The answers the store gives to a request of the given phase.
Answers(phase) ==
    [tag: {"NotApplied"}, fault: Faults]
      \cup (IF phase = "Commit" THEN Outcomes ELSE [tag: {"Ok"}, value: Seq(Entries)])

\* A step ends the run with an outcome, or asks with one more ordinal and no
\* more load.
GoodStep(c, s) ==
    \/ s.tag = "Done" /\ s.outcome \in Outcomes
    \/ /\ s.tag = "Request" /\ s.cont \in Continuations
       /\ s.cont.ordinal = c.ordinal + 1
       /\ Load(s.cont) <= Load(c)

\* A step that neither denies a publication nor forgets that it may be there.
Discreet(s) ==
    /\ s.tag = "Done" => s.outcome.tag \notin {"Refused", "NotApplied"}
    /\ s.tag = "Request" => Wary(s.cont)

\* The first request of a run weighs its whole budget.
LEMMA StartTypes ==
    ASSUME NEW inv \in InvocationType
    PROVE  /\ Start(inv) \in Continuations /\ Load(Start(inv)) = 3 * Retries
           /\ Recover(inv) \in Continuations /\ Load(Recover(inv)) = 3 * Retries + 2
           /\ Wary(Recover(inv))
BY ProgramAssumption DEF InvocationType, Start, Recover, Continuations, Phases, Load, Weight,
     Wary, Faults, NoFault

\* AskPhase, with a continuation of the phase before it.
LEMMA AskPhaseStep ==
    ASSUME NEW c \in Continuations, NEW phase \in Phases
    PROVE  LET s == AskPhase(c, phase)
           IN  \/ /\ s.tag = "Done"
                  /\ s.outcome \in Outcomes
                  /\ s.outcome.tag \in {"Refused", "Unknown"}
                  /\ s.outcome.tag = "Refused" => c.unknown = NoFault
               \/ /\ s.tag = "Request"
                  /\ s.cont \in Continuations
                  /\ s.cont.phase = phase
                  /\ s.cont.ordinal = c.ordinal + 1
                  /\ s.cont.retries = c.retries
                  /\ s.cont.mode = c.mode
                  /\ s.cont.unknown = c.unknown
<1>1. CASE c.ordinal = MaxOrdinal
  BY <1>1 DEF AskPhase, Done, Refused, Unknown, Outcomes, Continuations, Codes, Faults, NoFault
<1>2. CASE c.ordinal # MaxOrdinal
  <2> DEFINE next == [c EXCEPT !.phase = phase, !.ordinal = @ + 1]
  <2>1. AskPhase(c, phase).tag = "Request" /\ AskPhase(c, phase).cont = next
    BY <1>2 DEF AskPhase, Request
  <2>2. c.ordinal + 1 \in 0 .. MaxOrdinal
    BY <1>2, ProgramAssumption DEF Continuations
  <2>3. next \in Continuations
    BY <2>2 DEF Continuations
  <2>4. /\ next.phase = phase /\ next.ordinal = c.ordinal + 1 /\ next.retries = c.retries
        /\ next.mode = c.mode /\ next.unknown = c.unknown
    BY DEF Continuations
  <2> QED
    BY <2>1, <2>3, <2>4
<1> QED
  BY <1>1, <1>2

\* Spending a retry.
LEMMA SpendTypes ==
    ASSUME NEW c \in Continuations, c.retries # 0
    PROVE  /\ Spend(c) \in Continuations
           /\ Spend(c).retries = c.retries - 1
           /\ Spend(c).phase = c.phase /\ Spend(c).ordinal = c.ordinal
           /\ Spend(c).mode = c.mode /\ Spend(c).unknown = c.unknown
BY ProgramAssumption DEF Spend, Continuations

\* A retry of a phase with no answer: the first uncertainty is kept.
LEMMA RetryPhaseStep ==
    ASSUME NEW c \in Continuations, NEW phase \in Phases, NEW fault \in Faults,
           c.phase = phase, phase # "Commit"
    PROVE  LET s == RetryPhase(c, phase, fault)
           IN  /\ GoodStep(c, s)
               /\ s.tag = "Done" => s.outcome.tag # "Ok"
               /\ c.unknown # NoFault => Discreet(s)
<1>1. CASE c.retries = 0
  <2> DEFINE told == IF c.unknown = NoFault THEN fault ELSE c.unknown
  <2>1. told \in Faults
    BY DEF Continuations
  <2>2. RetryPhase(c, phase, fault) = [tag |-> "Done", outcome |-> [tag |-> "Unknown", fault |-> told]]
    BY <1>1 DEF RetryPhase, Unresolved, Done, Unknown
  <2> QED
    BY <2>1, <2>2 DEF GoodStep, Discreet, Outcomes
<1>2. CASE c.retries # 0
  <2> DEFINE s == AskPhase(Spend(c), phase)
  <2>1. RetryPhase(c, phase, fault) = s
    BY <1>2 DEF RetryPhase
  <2>2. c.ordinal \in Nat /\ c.retries \in Nat
    BY ProgramAssumption DEF Continuations
  <2> HIDE DEF s
  <2>3. /\ s.tag = "Done" => s.outcome \in Outcomes /\ s.outcome.tag \in {"Refused", "Unknown"}
        /\ s.tag = "Done" /\ c.unknown # NoFault => s.outcome.tag = "Unknown"
        /\ s.tag \in {"Done", "Request"}
    BY <1>2, SpendTypes, AskPhaseStep DEF s
  <2>4. ASSUME s.tag = "Request"
        PROVE  /\ s.cont \in Continuations /\ s.cont.phase = phase
               /\ s.cont.ordinal = c.ordinal + 1 /\ s.cont.retries = c.retries - 1
               /\ s.cont.unknown = c.unknown
    BY <1>2, <2>4, SpendTypes, AskPhaseStep DEF s
  <2>5. s.tag = "Request" => Load(s.cont) <= Load(c)
    BY <2>2, <2>4 DEF Load, Weight
  <2> QED
    BY <2>1, <2>3, <2>4, <2>5 DEF GoodStep, Discreet, Wary
<1> QED
  BY <1>1, <1>2

\* The answer to a commit request.
LEMMA CommittedStep ==
    ASSUME NEW c \in Continuations, c.phase = "Commit", NEW o \in Outcomes
    PROVE  LET s == Committed(c, o)
           IN  /\ GoodStep(c, s)
               /\ s.tag = "Done" /\ s.outcome.tag = "Ok" => s.outcome = o
               /\ o.tag = "Unknown" => Discreet(s)
               /\ Wary(c) /\ o.tag # "Refused" => Discreet(s)
<1> DEFINE s == Committed(c, o)
<1>0. c.ordinal \in Nat /\ c.retries \in Nat /\ o.tag \in {"Ok", "Refused", "NotApplied", "Unknown"}
  BY ProgramAssumption DEF Continuations, Outcomes
<1>1. CASE o.tag \in {"Ok", "Refused"}
  <2>1. s.tag = "Done" /\ s.outcome = o
    BY <1>1 DEF Committed, Done
  <2> QED
    BY <1>1, <2>1 DEF GoodStep, Discreet
<1>2. CASE o.tag = "NotApplied" /\ c.retries > 0
  <2>1. s = AskPhase([Spend(c) EXCEPT !.mode = c.mode], "Commit")
    BY <1>2 DEF Committed, AskCommit
  <2>2. [Spend(c) EXCEPT !.mode = c.mode] = Spend(c)
    BY DEF Spend, Continuations
  <2>3. s = AskPhase(Spend(c), "Commit")
    BY <2>1, <2>2
  <2> HIDE DEF s
  <2>4. /\ s.tag = "Done" => s.outcome \in Outcomes /\ s.outcome.tag \in {"Refused", "Unknown"}
        /\ s.tag = "Done" /\ c.unknown # NoFault => s.outcome.tag = "Unknown"
        /\ s.tag \in {"Done", "Request"}
    BY <1>0, <1>2, <2>3, SpendTypes, AskPhaseStep DEF Phases
  <2>5. ASSUME s.tag = "Request"
        PROVE  /\ s.cont \in Continuations /\ s.cont.phase = "Commit" /\ s.cont.mode = c.mode
               /\ s.cont.ordinal = c.ordinal + 1 /\ s.cont.retries = c.retries - 1
               /\ s.cont.unknown = c.unknown
    BY <1>0, <1>2, <2>3, <2>5, SpendTypes, AskPhaseStep DEF Phases
  <2>6. s.tag = "Request" => Load(s.cont) <= Load(c)
    BY <1>0, <2>5 DEF Load, Weight
  <2> QED
    BY <1>2, <2>4, <2>5, <2>6 DEF GoodStep, Discreet, Wary, s
<1>3. CASE o.tag = "NotApplied" /\ ~(c.retries > 0)
  <2>1. s = Done(IF c.unknown = NoFault THEN o ELSE Unknown(c.unknown))
    BY <1>3 DEF Committed
  <2> QED
    BY <1>3, <2>1 DEF GoodStep, Discreet, Wary, Done, Unknown, Outcomes, Continuations
<1>4. CASE o.tag = "Unknown" /\ c.retries = 0
  <2>1. s = Done(Unknown(IF c.unknown = NoFault THEN o.fault ELSE c.unknown))
    BY <1>4 DEF Committed, Unresolved
  <2>2. o.fault \in Faults
    BY <1>4 DEF Outcomes
  <2> QED
    BY <1>4, <2>1, <2>2 DEF GoodStep, Discreet, Done, Unknown, Outcomes, Continuations
<1>5. CASE o.tag = "Unknown" /\ c.retries # 0
  <2> DEFINE told == IF c.unknown = NoFault THEN o.fault ELSE c.unknown
             spent == [Spend(c) EXCEPT !.unknown = told]
  <2>1. told \in Faults /\ told # NoFault
    BY <1>5 DEF Outcomes, Continuations, Faults, NoFault
  <2>2. Spend(c).unknown = c.unknown
    BY <1>5, SpendTypes
  <2>3. s = AskPhase(spent, "Reopen")
    BY <1>5, <2>2 DEF Committed
  <2> HIDE DEF s, told
  <2>4. /\ spent \in Continuations /\ spent.unknown = told
        /\ spent.ordinal = c.ordinal /\ spent.retries = c.retries - 1
    BY <1>5, <2>1, SpendTypes DEF Continuations
  <2> HIDE DEF spent
  <2>5. /\ s.tag = "Done" => s.outcome \in Outcomes /\ s.outcome.tag = "Unknown"
        /\ s.tag \in {"Done", "Request"}
    BY <2>1, <2>3, <2>4, AskPhaseStep DEF Phases
  <2>6. ASSUME s.tag = "Request"
        PROVE  /\ s.cont \in Continuations /\ s.cont.phase = "Reopen"
               /\ s.cont.ordinal = c.ordinal + 1 /\ s.cont.retries = c.retries - 1
               /\ s.cont.unknown = told
    BY <2>3, <2>4, <2>6, AskPhaseStep DEF Phases
  <2>7. s.tag = "Request" => Load(s.cont) <= Load(c)
    BY <1>0, <2>6 DEF Load, Weight
  <2> QED
    BY <1>5, <2>1, <2>5, <2>6, <2>7 DEF GoodStep, Discreet, Wary, s
<1> QED
  BY <1>0, <1>1, <1>2, <1>3, <1>4, <1>5

\* The answer to a reopen.
LEMMA ReopenedStep ==
    ASSUME NEW c \in Continuations, c.phase = "Reopen", NEW o \in Answers("Reopen")
    PROVE  LET s == Reopened(c, o)
           IN  /\ GoodStep(c, s)
               /\ s.tag = "Done" => s.outcome.tag # "Ok"
               /\ c.unknown # NoFault => Discreet(s)
<1> DEFINE s == Reopened(c, o)
<1>0. c.ordinal \in Nat /\ c.retries \in Nat
  BY ProgramAssumption DEF Continuations
<1>1. CASE o.tag = "Ok"
  <2>1. s = AskPhase(c, "History")
    BY <1>1 DEF Reopened
  <2> HIDE DEF s
  <2>2. /\ s.tag = "Done" => s.outcome \in Outcomes /\ s.outcome.tag \in {"Refused", "Unknown"}
        /\ s.tag = "Done" /\ c.unknown # NoFault => s.outcome.tag = "Unknown"
        /\ s.tag \in {"Done", "Request"}
    BY <2>1, AskPhaseStep DEF Phases
  <2>3. ASSUME s.tag = "Request"
        PROVE  /\ s.cont \in Continuations /\ s.cont.phase = "History"
               /\ s.cont.ordinal = c.ordinal + 1 /\ s.cont.retries = c.retries
               /\ s.cont.unknown = c.unknown
    BY <2>1, <2>3, AskPhaseStep DEF Phases
  <2>4. s.tag = "Request" => Load(s.cont) <= Load(c)
    BY <1>0, <2>3 DEF Load, Weight
  <2> QED
    BY <2>2, <2>3, <2>4 DEF GoodStep, Discreet, Wary, s
<1>2. CASE o.tag # "Ok"
  <2>1. o.tag = "NotApplied" /\ o.fault \in Faults
    BY <1>2 DEF Answers
  <2>2. s = RetryPhase(c, "Reopen", o.fault)
    BY <2>1 DEF Reopened
  <2> QED
    BY <2>1, <2>2, RetryPhaseStep DEF Phases
<1> QED
  BY <1>1, <1>2

\* The answer to a history: the retry drops its guard when the history holds
\* the request.
LEMMA HistoryReadStep ==
    ASSUME NEW c \in Continuations, c.phase = "History", NEW o \in Answers("History"),
           NEW inv \in InvocationType
    PROVE  LET s == HistoryRead(c, inv, o)
           IN  /\ GoodStep(c, s)
               /\ s.tag = "Done" => s.outcome.tag # "Ok"
               /\ c.unknown # NoFault /\ (o.tag = "Ok" => Contains(o.value, inv)) => Discreet(s)
<1> DEFINE s == HistoryRead(c, inv, o)
<1>0. c.ordinal \in Nat /\ c.retries \in Nat
  BY ProgramAssumption DEF Continuations
<1>1. CASE o.tag = "Ok"
  <2> DEFINE mode == IF Contains(o.value, inv) THEN Unversioned ELSE inv.mode
             guarded == [c EXCEPT !.mode = mode]
  <2>1. s = AskPhase(guarded, "Commit")
    BY <1>1 DEF HistoryRead, AskCommit
  <2>2. mode \in Modes
    BY DEF Modes, ModeKinds, Unversioned, InvocationType
  <2> HIDE DEF s, mode
  <2>3. /\ guarded \in Continuations /\ guarded.mode = mode /\ guarded.unknown = c.unknown
        /\ guarded.ordinal = c.ordinal /\ guarded.retries = c.retries
    BY <2>2 DEF Continuations
  <2> HIDE DEF guarded
  <2>4. /\ s.tag = "Done" => s.outcome \in Outcomes /\ s.outcome.tag \in {"Refused", "Unknown"}
        /\ s.tag = "Done" /\ c.unknown # NoFault => s.outcome.tag = "Unknown"
        /\ s.tag \in {"Done", "Request"}
    BY <2>1, <2>3, AskPhaseStep DEF Phases
  <2>5. ASSUME s.tag = "Request"
        PROVE  /\ s.cont \in Continuations /\ s.cont.phase = "Commit" /\ s.cont.mode = mode
               /\ s.cont.ordinal = c.ordinal + 1 /\ s.cont.retries = c.retries
               /\ s.cont.unknown = c.unknown
    BY <2>1, <2>3, <2>5, AskPhaseStep DEF Phases
  <2>6. s.tag = "Request" => Load(s.cont) <= Load(c)
    BY <1>0, <2>5 DEF Load, Weight
  <2>7. Contains(o.value, inv) => mode = Unversioned
    BY DEF mode
  <2> QED
    BY <1>1, <2>4, <2>5, <2>6, <2>7 DEF GoodStep, Discreet, Wary, s
<1>2. CASE o.tag # "Ok"
  <2>1. o.tag = "NotApplied" /\ o.fault \in Faults
    BY <1>2 DEF Answers
  <2>2. s = RetryPhase(c, "History", o.fault)
    BY <2>1 DEF HistoryRead
  <2> QED
    BY <2>1, <2>2, RetryPhaseStep DEF Phases
<1> QED
  BY <1>1, <1>2

\* What a program makes of an answer.  Its only "committed" is the store's.
\* It stays discreet about a request the history may hold: when a commit's
\* answer was lost, and afterwards unless the store itself refuses the commit
\* or shows a history without the request.
LEMMA ResumeStep ==
    ASSUME NEW c \in Continuations, NEW inv \in InvocationType, NEW o \in Answers(c.phase)
    PROVE  LET s == Resume(c, inv, o)
           IN  /\ GoodStep(c, s)
               /\ s.tag = "Done" /\ s.outcome.tag = "Ok" => c.phase = "Commit" /\ s.outcome = o
               /\ c.phase = "Commit" /\ o.tag = "Unknown" => Discreet(s)
               /\ /\ Wary(c)
                  /\ c.phase = "Commit" => o.tag # "Refused"
                  /\ c.phase = "History" /\ o.tag = "Ok" => Contains(o.value, inv)
                  => Discreet(s)
<1>1. CASE c.phase = "Commit"
  <2>1. o \in Outcomes
    BY <1>1 DEF Answers, Outcomes
  <2>2. Resume(c, inv, o) = Committed(c, o)
    BY <1>1 DEF Resume
  <2> QED
    BY <1>1, <2>1, <2>2, CommittedStep
<1>2. CASE c.phase = "Reopen"
  <2>1. Resume(c, inv, o) = Reopened(c, o)
    BY <1>2 DEF Resume
  <2> QED
    BY <1>2, <2>1, ReopenedStep DEF Wary
<1>3. CASE c.phase = "History"
  <2>1. Resume(c, inv, o) = HistoryRead(c, inv, o)
    BY <1>3 DEF Resume
  <2> QED
    BY <1>3, <2>1, HistoryReadStep DEF Wary
<1>4. c.phase \in Phases
  BY DEF Continuations
<1> QED
  BY <1>1, <1>2, <1>3, <1>4 DEF Phases

-----------------------------------------------------------------------------
(* The store. *)

\* A store's parts, one by one.
LEMMA StoreParts ==
    ASSUME NEW d \in Stores
    PROVE  /\ d.state \in 0 .. MaxCount /\ d.chain \in Seq(Publications)
           /\ d.commits \in Seq(Entries) /\ d.receipts \in Seq(Seq(Publications))
           /\ d.replays \in Seq(Keys) /\ d.outbox \in Seq(Records)
           /\ Version(d) \in Nat /\ Version(d) = Len(d.commits)
BY DEF Stores, Version

\* A sequence with one more element.
LEMMA Appended ==
    ASSUME NEW S, NEW s \in Seq(S), NEW x \in S, NEW n \in Nat, Len(s) = n
    PROVE  /\ Append(s, x) \in Seq(S) /\ Len(Append(s, x)) = n + 1
           /\ Append(s, x)[n + 1] = x
           /\ \A i \in 1 .. n : Append(s, x)[i] = s[i]
BY AppendProperties

\* An outbox with two more records.
LEMMA Joined ==
    ASSUME NEW s \in Seq(Records), NEW t \in Seq(Records), Len(t) = 2
    PROVE  /\ Len(s \o t) = Len(s) + 2
           /\ \A k \in 1 .. Len(s) : (s \o t)[k] = s[k]
           /\ (s \o t)[Len(s) + 1] = t[1] /\ (s \o t)[Len(s) + 2] = t[2]
<1>1. /\ Len(s \o t) = Len(s) + Len(t)
      /\ \A k \in 1 .. Len(s) + Len(t) : (s \o t)[k] = IF k <= Len(s) THEN s[k] ELSE t[k - Len(s)]
  BY ConcatProperties, Zenon
<1> DEFINE m == Len(s)
<1>2. m \in Nat
  OBVIOUS
<1> HIDE DEF m
<1>3. /\ Len(s \o t) = m + 2
      /\ \A k \in 1 .. m + 2 : (s \o t)[k] = IF k <= m THEN s[k] ELSE t[k - m]
  BY <1>1, Zenon DEF m
<1>4. m + 1 \in 1 .. m + 2 /\ ~(m + 1 <= m) /\ (m + 1) - m = 1
  BY <1>2
<1>5. m + 2 \in 1 .. m + 2 /\ ~(m + 2 <= m) /\ (m + 2) - m = 2
  BY <1>2
<1>6. \A k \in 1 .. m : k \in 1 .. m + 2 /\ k <= m
  BY <1>2
<1>7. /\ Len(s \o t) = m + 2
      /\ \A k \in 1 .. m : (s \o t)[k] = s[k]
      /\ (s \o t)[m + 1] = t[1] /\ (s \o t)[m + 2] = t[2]
  BY <1>3, <1>4, <1>5, <1>6
<1> QED
  BY <1>7, Zenon DEF m

\* The publication is for this state of the store, and there is room for it.
Fits(d, key, pub) ==
    /\ ~HasKey(d, key)
    /\ pub.prestate = d.state
    /\ d.state + pub.body <= MaxCount

\* A later store holds every commit of an earlier one, where it was.
Extends(e, d) ==
    /\ Version(d) <= Version(e)
    /\ \A i \in 1 .. Version(d) :
         e.commits[i] = d.commits[i] /\ e.receipts[i] = d.receipts[i]

\* A publication on top of the state it was computed for, under a fresh key,
\* adds one commit, receipt, key and chain link and two deliveries, and keeps
\* the store the fold of its history.
LEMMA AppliedFold ==
    ASSUME NEW d \in Stores, Fold(d), NEW key \in Keys, NEW pub \in Publications,
           Fits(d, key, pub)
    PROVE  LET e == Applied(d, key, pub)
           IN  /\ e \in Stores /\ Version(e) = Version(d) + 1
               /\ Fold(e) /\ Extends(e, d)
               /\ e.commits[Version(e)].key = key /\ e.commits[Version(e)].publication = pub
               /\ e.receipts[Version(e)] = e.chain
<1> DEFINE n == Version(d)
           e == Applied(d, key, pub)
           entry == [key |-> key, version |-> n + 1, publication |-> pub]
           sent == Deliveries(n + 1, e.chain, e.state)
<1>a0. d.state + pub.body <= MaxCount /\ pub.prestate = d.state /\ ~HasKey(d, key)
  BY DEF Fits
<1>a1. /\ e.state = d.state + pub.body /\ e.chain = Append(d.chain, pub)
      /\ e.commits = Append(d.commits, entry) /\ e.receipts = Append(d.receipts, e.chain)
      /\ e.replays = Append(d.replays, key) /\ e.outbox = d.outbox \o sent
      /\ e = [state |-> e.state, chain |-> e.chain, commits |-> e.commits,
              receipts |-> e.receipts, replays |-> e.replays, outbox |-> e.outbox]
  BY DEF Applied
<1> HIDE DEF e, sent
<1>a2. pub.body \in Nat
  BY DEF Publications
<1>a3. e.state \in 0 .. MaxCount /\ e.state \in Nat
  BY <1>a0, <1>a1, <1>a2, StoreParts, MaxCountAssumption
<1>a4. entry \in Entries
  BY StoreParts DEF Entries
<1> HIDE DEF entry
<1>a5. e.chain \in Seq(Publications)
  BY <1>a1, StoreParts, AppendProperties
<1>a6. e.commits \in Seq(Entries) /\ Len(e.commits) = n + 1
  BY <1>a1, <1>a4, StoreParts, AppendProperties
<1>a7. e.receipts \in Seq(Seq(Publications)) /\ e.replays \in Seq(Keys)
  BY <1>a1, <1>a5, StoreParts, AppendProperties
<1>a8. sent \in Seq(Records)
  <2> DEFINE r(i) == [id |-> DeliveryId(e.chain, i - 1), version |-> n + 1,
                      ordinal |-> i - 1, payload |-> e.state, acked |-> FALSE]
  <2>1. \A i \in 1 .. 2 : r(i) \in Records
    BY <1>a3, <1>a5, StoreParts DEF Records, DeliveryIds, DeliveryId
  <2>2. sent = [i \in 1 .. 2 |-> r(i)]
    BY DEF Deliveries, sent
  <2> HIDE DEF r
  <2>3. [i \in 1 .. 2 |-> r(i)] \in Seq(Records)
    BY <2>1, IsASeq
  <2> QED
    BY <2>2, <2>3
<1>a9. e.outbox \in Seq(Records)
  BY <1>a1, <1>a8, StoreParts, ConcatProperties
<1>a10. e \in Stores
  BY <1>a1, <1>a3, <1>a5, <1>a6, <1>a7, <1>a9 DEF Stores
<1>1. /\ e \in Stores /\ Version(e) = n + 1 /\ n \in Nat
      /\ Len(d.commits) = n /\ Len(d.receipts) = n /\ Len(d.replays) = n
      /\ Len(d.outbox) = 2 * n /\ Len(e.commits) = n + 1
  BY <1>a6, <1>a10, StoreParts DEF Fold, Version
<1>b. /\ d.commits \in Seq(Entries) /\ d.receipts \in Seq(Seq(Publications))
      /\ d.replays \in Seq(Keys) /\ d.outbox \in Seq(Records) /\ d.chain \in Seq(Publications)
  BY StoreParts
<1> HIDE DEF n
<1>2. /\ e.commits[n + 1] = entry /\ \A i \in 1 .. n : e.commits[i] = d.commits[i]
      /\ entry.key = key /\ entry.version = n + 1 /\ entry.publication = pub
  <2>1. entry.key = key /\ entry.version = n + 1 /\ entry.publication = pub
    BY DEF entry
  <2> QED
    BY <1>1, <1>a1, <1>a4, <1>b, <2>1, Appended
<1>4. /\ Len(e.receipts) = n + 1 /\ e.receipts[n + 1] = e.chain
      /\ \A i \in 1 .. n : e.receipts[i] = d.receipts[i]
  BY <1>1, <1>a1, <1>a5, <1>b, Appended
<1>5. /\ Len(e.replays) = n + 1 /\ e.replays[n + 1] = key
      /\ \A i \in 1 .. n : e.replays[i] = d.replays[i]
  BY <1>1, <1>a1, <1>b, Appended
<1>6. e.chain = [j \in 1 .. n + 1 |-> e.commits[j].publication]
  <2> DEFINE whole == [j \in 1 .. n + 1 |-> e.commits[j].publication]
             old == [j \in 1 .. n |-> d.commits[j].publication]
  <2>1. d.chain = old /\ e.chain = Append(d.chain, pub)
    BY <1>a1 DEF Fold, n
  <2>2. \A j \in 1 .. n + 1 : e.commits[j] \in Entries
    BY <1>1, StoreParts, ElementOfSeq
  <2>3. \A j \in 1 .. n + 1 : e.commits[j].publication \in Publications
    BY <2>2 DEF Entries
  <2>4. whole \in Seq(Publications) /\ Len(whole) = n + 1
    BY <1>1, <2>3, IsASeq
  <2>5. Len(d.chain) = n /\ \A j \in 1 .. n : d.chain[j] = d.commits[j].publication
    BY <1>1, <2>1
  <2> HIDE DEF old
  <2>6. e.chain \in Seq(Publications) /\ Len(e.chain) = n + 1 /\ e.chain[n + 1] = pub
    BY <1>1, <1>b, <2>1, <2>5, Appended
  <2>7. \A j \in 1 .. n : e.chain[j] = d.chain[j]
    BY <1>1, <1>b, <2>1, <2>5, Appended
  <2>8. \A j \in 1 .. n + 1 : whole[j] = e.commits[j].publication
    OBVIOUS
  <2>9. \A j \in 1 .. n + 1 : e.chain[j] = whole[j]
    <3> TAKE j \in 1 .. n + 1
    <3>1. CASE j = n + 1
      BY <1>2, <2>6, <2>8, <3>1
    <3>2. CASE j # n + 1
      <4>1. j \in 1 .. n
        BY <1>1, <3>2
      <4> QED
        BY <1>2, <2>5, <2>7, <2>8, <4>1
    <3> QED
      BY <3>1, <3>2
  <2> HIDE DEF whole
  <2>10. e.chain = whole
    BY <2>4, <2>6, <2>9, SeqEqual
  <2> QED
    BY <2>10 DEF whole
<1>7. /\ StateAfter(e, n + 1) = e.state
      /\ \A i \in 0 .. n : StateAfter(e, i) = StateAfter(d, i)
      /\ StateAfter(d, n) = d.state
  <2>1. e.state = d.state + pub.body
    BY <1>a1
  <2>2. StateAfter(d, n) = d.state /\ pub.prestate = d.state
    BY <1>a0 DEF Fold, n
  <2>3. StateAfter(e, n + 1) = pub.prestate + pub.body
    BY <1>1, <1>2 DEF StateAfter
  <2>4. \A i \in 0 .. n : StateAfter(e, i) = StateAfter(d, i)
    BY <1>1, <1>2 DEF StateAfter
  <2> QED
    BY <2>1, <2>2, <2>3, <2>4
<1>8. /\ Len(e.outbox) = 2 * (n + 1)
      /\ \A k \in 1 .. 2 * n : e.outbox[k] = d.outbox[k]
      /\ \A o \in 0 .. 1 : e.outbox[2 * (n + 1) - 1 + o].id = DeliveryId(e.chain, o)
                             /\ e.outbox[2 * (n + 1) - 1 + o].payload = e.state
  <2>1. sent \in Seq(Records) /\ e.outbox = d.outbox \o sent
    BY <1>a1, <1>a8
  <2>2. /\ Len(sent) = 2
        /\ \A o \in 0 .. 1 : sent[o + 1].id = DeliveryId(e.chain, o) /\ sent[o + 1].payload = e.state
    BY DEF Deliveries, sent
  <2> DEFINE m == 2 * n
  <2>3. m \in Nat /\ Len(d.outbox) = m
    BY <1>1
  <2> HIDE DEF m
  <2>5. /\ Len(e.outbox) = m + 2
        /\ \A k \in 1 .. m : e.outbox[k] = d.outbox[k]
        /\ e.outbox[m + 1] = sent[1] /\ e.outbox[m + 2] = sent[2]
    <3>1. d.outbox \in Seq(Records) /\ Len(sent) = 2 /\ sent \in Seq(Records)
      BY <1>b, <2>1, <2>2
    <3>2. /\ Len(d.outbox \o sent) = Len(d.outbox) + 2
          /\ \A k \in 1 .. Len(d.outbox) : (d.outbox \o sent)[k] = d.outbox[k]
          /\ (d.outbox \o sent)[Len(d.outbox) + 1] = sent[1]
          /\ (d.outbox \o sent)[Len(d.outbox) + 2] = sent[2]
      BY <3>1, Joined, Zenon
    <3> QED
      BY <2>1, <2>3, <3>2, Zenon
  <2>6. Len(e.outbox) = 2 * (n + 1) /\ \A k \in 1 .. 2 * n : e.outbox[k] = d.outbox[k]
    BY <1>1, <2>5 DEF m
  <2>7. ASSUME NEW o \in 0 .. 1
        PROVE  e.outbox[2 * (n + 1) - 1 + o] = sent[o + 1]
    <3>1. CASE o = 0
      <4>1. 2 * (n + 1) - 1 + o = m + 1 /\ o + 1 = 1
        BY <1>1, <3>1 DEF m
      <4> QED
        BY <2>5, <4>1
    <3>2. CASE o = 1
      <4>1. 2 * (n + 1) - 1 + o = m + 2 /\ o + 1 = 2
        BY <1>1, <3>2 DEF m
      <4> QED
        BY <2>5, <4>1
    <3> QED
      BY <3>1, <3>2
  <2> QED
    BY <2>2, <2>6, <2>7
<1>9. \A i \in 1 .. n : d.replays[i] # key
  BY <1>1, <1>a0 DEF HasKey
<1>10. ASSUME NEW i \in 1 .. n
       PROVE  CommitIsFold(e, i)
  <2>1. CommitIsFold(d, i) /\ i \in Nat /\ i - 1 \in 0 .. n /\ i \in 0 .. n /\ i \in 1 .. n + 1
    BY <1>1 DEF Fold, n
  <2>2. /\ e.commits[i].version = i
        /\ e.commits[i].publication.prestate = StateAfter(e, i - 1)
        /\ e.replays[i] = e.commits[i].key
    BY <1>2, <1>5, <1>7, <2>1 DEF CommitIsFold
  <2>3. e.receipts[i] = [j \in 1 .. i |-> e.commits[j].publication]
    <3>1. d.receipts[i] = [j \in 1 .. i |-> d.commits[j].publication]
      BY <2>1 DEF CommitIsFold
    <3>2. \A j \in 1 .. i : e.commits[j] = d.commits[j]
      BY <1>1, <1>2
    <3>3. [j \in 1 .. i |-> e.commits[j].publication] = [j \in 1 .. i |-> d.commits[j].publication]
      BY <3>2
    <3> QED
      BY <1>4, <3>1, <3>3
  <2>4. \A j \in 1 .. Version(e) : e.replays[i] = e.replays[j] => i = j
    <3> SUFFICES ASSUME NEW j \in 1 .. n + 1, e.replays[i] = e.replays[j]
                 PROVE  i = j
      BY <1>1
    <3>1. CASE j = n + 1
      BY <1>5, <1>9, <3>1
    <3>2. CASE j # n + 1
      <4>1. j \in 1 .. n
        BY <1>1, <3>2
      <4> QED
        BY <1>5, <2>1, <4>1 DEF CommitIsFold, n
    <3> QED
      BY <3>1, <3>2
  <2>5. \A o \in 0 .. 1 : /\ e.outbox[2 * i - 1 + o].id = DeliveryId(e.receipts[i], o)
                          /\ e.outbox[2 * i - 1 + o].payload = StateAfter(e, i)
    <3> TAKE o \in 0 .. 1
    <3>1. 2 * i - 1 + o \in 1 .. 2 * n
      BY <1>1
    <3>2. /\ d.outbox[2 * i - 1 + o].id = DeliveryId(d.receipts[i], o)
          /\ d.outbox[2 * i - 1 + o].payload = StateAfter(d, i)
      BY <2>1 DEF CommitIsFold
    <3>3. e.outbox[2 * i - 1 + o] = d.outbox[2 * i - 1 + o]
      BY <1>8, <3>1
    <3> QED
      BY <1>4, <1>7, <2>1, <3>2, <3>3
  <2> QED
    BY <2>2, <2>3, <2>4, <2>5 DEF CommitIsFold
<1>11. ASSUME NEW k, k = n + 1
       PROVE  CommitIsFold(e, k)
  <2>1. /\ e.commits[k].version = k
        /\ e.commits[k].publication.prestate = StateAfter(e, k - 1)
        /\ e.replays[k] = e.commits[k].key
    <3>1. k - 1 = n /\ n \in 0 .. n
      BY <1>1, <1>11
    <3> QED
      BY <1>2, <1>5, <1>7, <1>11, <1>a0, <3>1
  <2>2. e.receipts[k] = [j \in 1 .. k |-> e.commits[j].publication]
    BY <1>4, <1>6, <1>11
  <2>3. \A j \in 1 .. Version(e) : e.replays[k] = e.replays[j] => k = j
    <3> SUFFICES ASSUME NEW j \in 1 .. n + 1, e.replays[k] = e.replays[j], j # k
                 PROVE  FALSE
      BY <1>1, <1>11
    <3>1. j \in 1 .. n
      BY <1>1, <1>11
    <3> QED
      BY <1>5, <1>9, <1>11, <3>1
  <2>4. \A o \in 0 .. 1 : /\ e.outbox[2 * k - 1 + o].id = DeliveryId(e.receipts[k], o)
                          /\ e.outbox[2 * k - 1 + o].payload = StateAfter(e, k)
    BY <1>4, <1>7, <1>8, <1>11
  <2> QED
    BY <2>1, <2>2, <2>3, <2>4 DEF CommitIsFold
<1>12. Fold(e)
  <2>1. \A i \in 1 .. Version(e) : CommitIsFold(e, i)
    <3> SUFFICES ASSUME NEW i \in 1 .. n + 1
                 PROVE  CommitIsFold(e, i)
      BY <1>1
    <3>1. i = n + 1 \/ i \in 1 .. n
      BY <1>1
    <3> QED
      BY <1>10, <1>11, <3>1
  <2> QED
    BY <1>1, <1>4, <1>5, <1>6, <1>7, <1>8, <2>1 DEF Fold
<1>13. Extends(e, d)
  BY <1>1, <1>2, <1>4 DEF Extends, n
<1> QED
  BY <1>1, <1>2, <1>4, <1>12, <1>13 DEF n, e

\* A key of a store is at one position, and its receipt is the original one.
LEMMA PositionOf ==
    ASSUME NEW d \in Stores, Fold(d), NEW key \in Keys, HasKey(d, key)
    PROVE  LET p == Position(d, key)
           IN  /\ p \in 1 .. Version(d) /\ d.commits[p].key = key /\ d.commits[p].version = p
               /\ \A i \in 1 .. Version(d) : d.commits[i].key = key => i = p
               /\ OriginalReceipt(d, key) = Receipt(p, d.receipts[p], "IdempotentReplay")
               /\ OriginalReceipt(d, key) \in Receipts
<1> DEFINE p == Position(d, key)
<1>1. Len(d.replays) = Version(d) /\ Version(d) \in Nat /\ Len(d.receipts) = Version(d)
  BY StoreParts DEF Fold
<1>2. p \in 1 .. Len(d.replays) /\ d.replays[p] = key
  BY DEF HasKey, Position
<1>3. OriginalReceipt(d, key) = Receipt(d.commits[p].version, d.receipts[p], "IdempotentReplay")
  BY DEF OriginalReceipt
<1> HIDE DEF p
<1>4. \A i \in 1 .. Version(d) : CommitIsFold(d, i)
  BY DEF Fold
<1>5. /\ p \in 1 .. Version(d) /\ d.commits[p].key = key /\ d.commits[p].version = p
      /\ \A i \in 1 .. Version(d) : d.commits[i].key = key => i = p
  BY <1>1, <1>2, <1>4 DEF CommitIsFold
<1>6. d.receipts[p] \in Seq(Publications) /\ p \in Nat
  BY <1>1, <1>5, StoreParts, ElementOfSeq
<1>7. Receipt(p, d.receipts[p], "IdempotentReplay") \in Receipts
  BY <1>6 DEF Receipt, Receipts
<1> QED
  BY <1>3, <1>5, <1>7 DEF p

\* Every decision of the store on a commit.  It applies only what fits; it
\* certifies what it applied or finds; and a request that is in the history
\* is never applied again, and without a guard it is always found.
LEMMA Decision ==
    ASSUME NEW d \in Stores, Fold(d), NEW inv \in InvocationType, NEW mode \in Modes
    PROVE  LET r == Decide(d, inv.key, inv.publication, mode)
           IN  /\ \/ r.tag = "Refuse" /\ r.code \in Codes
                  \/ r.tag = "Replay" /\ r.receipt \in Receipts /\ Certifies(d, inv, r.receipt)
                  \/ /\ r.tag = "Apply" /\ r.after = Applied(d, inv.key, inv.publication)
                     /\ r.receipt \in Receipts /\ Certifies(r.after, inv, r.receipt)
                     /\ Fits(d, inv.key, inv.publication)
               /\ Contains(d.commits, inv) => r.tag # "Apply"
               /\ Contains(d.commits, inv) /\ mode = Unversioned => r.tag = "Replay"
<1> DEFINE key == inv.key
           pub == inv.publication
           r == Decide(d, key, pub, mode)
<1>0. key \in Keys /\ pub \in Publications
  BY DEF InvocationType
<1>1. ASSUME Contains(d.commits, inv)
      PROVE  HasKey(d, key) /\ d.commits[Position(d, key)].publication = pub
  <2>1. PICK i \in 1 .. Len(d.commits) : d.commits[i].key = key /\ d.commits[i].publication = pub
    BY <1>1 DEF Contains
  <2>2. i \in 1 .. Len(d.replays) /\ d.replays[i] = key
    BY <2>1, StoreParts DEF Fold, CommitIsFold
  <2>3. HasKey(d, key)
    BY <2>2 DEF HasKey
  <2>4. Position(d, key) = i
    BY <1>0, <2>1, <2>3, PositionOf, StoreParts
  <2> QED
    BY <2>1, <2>3, <2>4
<1>2. CASE ~VersionMatches(d, mode)
  <2>1. r = Refuse("Concurrent")
    BY <1>2 DEF Decide
  <2>2. mode # Unversioned
    BY <1>2 DEF VersionMatches, Unversioned
  <2> QED
    BY <2>1, <2>2 DEF Refuse, Codes
<1>3. CASE VersionMatches(d, mode) /\ HasKey(d, key)
  <2>1. CASE d.commits[Position(d, key)].publication = pub
    <3>1. r = [tag |-> "Replay", receipt |-> OriginalReceipt(d, key)]
      BY <1>3, <2>1 DEF Decide, Replay
    <3>2. Certifies(d, inv, OriginalReceipt(d, key)) /\ OriginalReceipt(d, key) \in Receipts
      BY <1>0, <1>3, <2>1, PositionOf DEF Certifies, Receipt
    <3> QED
      BY <3>1, <3>2
  <2>2. CASE d.commits[Position(d, key)].publication # pub
    <3>1. r = Refuse("Replay")
      BY <1>3, <2>2 DEF Decide
    <3> QED
      BY <1>1, <2>2, <3>1 DEF Refuse, Codes
  <2> QED
    BY <2>1, <2>2
<1>4. CASE VersionMatches(d, mode) /\ ~HasKey(d, key)
  <2>0. ~Contains(d.commits, inv)
    BY <1>1, <1>4
  <2>1. CASE r.tag = "Refuse"
    <3>1. r.code \in Codes
      BY <1>4, <2>1 DEF Decide, Refuse, Apply, Codes
    <3> QED
      BY <2>0, <2>1, <3>1
  <2>2. CASE r.tag # "Refuse"
    <3> DEFINE e == Applied(d, key, pub)
    <3>1. /\ pub.prestate = d.state /\ ~(d.state + pub.body > MaxCount)
          /\ r = [tag |-> "Apply", after |-> e, receipt |-> Receipt(Version(e), e.chain, "Committed")]
      BY <1>4, <2>2 DEF Decide, Refuse, Apply
    <3>2. pub.body \in Nat /\ d.state \in Nat
      BY <1>0, StoreParts DEF Publications
    <3>3. Fits(d, key, pub)
      BY <1>4, <3>1, <3>2, MaxCountAssumption DEF Fits
    <3>4. /\ e \in Stores /\ Version(e) = Version(d) + 1
          /\ e.commits[Version(e)].key = key /\ e.commits[Version(e)].publication = pub
          /\ e.receipts[Version(e)] = e.chain
      BY <1>0, <3>3, AppliedFold
    <3> HIDE DEF e
    <3>5. Receipt(Version(e), e.chain, "Committed") \in Receipts
      BY <3>4, StoreParts DEF Receipt, Receipts
    <3>6. Certifies(e, inv, Receipt(Version(e), e.chain, "Committed"))
      BY <3>4, StoreParts DEF Receipt, Certifies
    <3> QED
      BY <2>0, <3>1, <3>3, <3>5, <3>6 DEF e
  <2> QED
    BY <2>1, <2>2
<1> QED
  BY <1>2, <1>3, <1>4

\* A commit and its receipt stay where they are in every later store.
LEMMA ExtendsKeeps ==
    ASSUME NEW d \in Stores, NEW e \in Stores, Extends(e, d), NEW inv
    PROVE  /\ Contains(d.commits, inv) => Contains(e.commits, inv)
           /\ \A receipt : Certifies(d, inv, receipt) => Certifies(e, inv, receipt)
<1>1. Version(d) = Len(d.commits) /\ Version(e) = Len(e.commits)
      /\ Version(d) \in Nat /\ Version(e) \in Nat /\ Version(d) <= Version(e)
  BY StoreParts DEF Extends
<1>2. \A i \in 1 .. Version(d) : i \in 1 .. Version(e)
                                   /\ e.commits[i] = d.commits[i] /\ e.receipts[i] = d.receipts[i]
  BY <1>1 DEF Extends
<1> QED
  BY <1>1, <1>2 DEF Contains, Certifies

-----------------------------------------------------------------------------
(* The invariant. *)

\* No value is both an outcome and the absence of one.
LEMMA OutcomeTags ==
    /\ NoOutcome.tag = "None"
    /\ \A o \in Outcomes : o.tag \in {"Ok", "Refused", "NotApplied", "Unknown"}
    /\ \A o \in Outcomes : o.tag = "Ok" => o.value \in Receipts
BY DEF NoOutcome, Outcomes

\* The genesis store is the fold of no commits.
LEMMA GenesisFold ==
    Genesis \in Stores /\ Fold(Genesis)
<1>1. Genesis \in Stores
  BY MaxCountAssumption DEF Genesis, Stores
<1>2. Version(Genesis) = 0 /\ Genesis.state = 0 /\ Genesis.chain = << >>
      /\ Len(Genesis.receipts) = 0 /\ Len(Genesis.replays) = 0 /\ Len(Genesis.outbox) = 0
  BY DEF Genesis, Version
<1>3. \A i \in 1 .. 0 : FALSE
  OBVIOUS
<1>4. << >> = [j \in 1 .. 0 |-> Genesis.commits[j].publication]
  BY <1>3
<1> QED
  BY <1>1, <1>2, <1>3, <1>4 DEF Fold, StateAfter

\* The callers start with an empty store and their whole budget.
LEMMA InitInvariant ==
    Init => IInv
<1> SUFFICES ASSUME Init
             PROVE  IInv
  OBVIOUS
<1>1. \A a \in Actors : invocation[a] \in InvocationType
  BY InvocationsAssumption DEF Init
<1>2. \A a \in Actors : cont[a] \in Continuations /\ Load(cont[a]) = 3 * Retries
  BY <1>1, StartTypes DEF Init
<1>3. Types
  BY <1>2, GenesisFold, RestartsAssumption DEF Init, Types
<1>4. \A a \in Actors : Safe(a)
  <2> SUFFICES ASSUME NEW a \in Actors
               PROVE  Safe(a)
    OBVIOUS
  <2>1. outcome[a] = NoOutcome /\ status[a] = "waiting" /\ a \notin applied /\ incarnation[a] = 0
    BY DEF Init
  <2>2. Load(cont[a]) <= 3 * Retries + (IF incarnation[a] = 0 THEN 0 ELSE 2)
    BY <1>2, <2>1, ProgramAssumption
  <2> QED
    BY <2>1, <2>2, OutcomeTags DEF Safe
<1> QED
  BY <1>3, <1>4, GenesisFold DEF IInv, Init

\* A step that changes nothing.
LEMMA StutterInvariant ==
    IInv /\ UNCHANGED vars => IInv'
BY DEF IInv, vars, Types, Safe, Outdated

\* What the invariant says of one caller.
LEMMA ActorTypes ==
    ASSUME IInv, NEW a \in Actors
    PROVE  /\ invocation[a] \in InvocationType /\ cont[a] \in Continuations
           /\ cont[a].ordinal \in Nat /\ cont[a].phase \in Phases /\ cont[a].mode \in Modes
           /\ incarnation[a] \in Nat /\ Safe(a)
<1>1. invocation[a] \in InvocationType
  BY InvocationsAssumption DEF IInv, Types
<1>2. cont[a] \in Continuations /\ incarnation[a] \in Nat /\ Safe(a)
  BY RestartsAssumption DEF IInv, Types
<1> QED
  BY <1>1, <1>2, ProgramAssumption DEF Continuations

\* A lost reply is never admitted: that is what makes it outdated.
LEMMA OutdatedRefused ==
    ASSUME IInv, NEW l \in late
    PROVE  l.actor \in Actors /\ ~Admits(l.actor, l.binding)
<1>1. Outdated(l)
  BY DEF IInv
<1>2. PICK i \in Nat :
        /\ l.binding.epoch = <<l.actor, i>>
        /\ i <= incarnation[l.actor]
        /\ i = incarnation[l.actor] /\ status[l.actor] = "waiting" =>
             l.binding.ordinal < cont[l.actor].ordinal
  BY <1>1 DEF Outdated
<1>3. l.actor \in Actors /\ l.binding.ordinal \in Nat
  BY <1>1 DEF Outdated
<1>4. cont[l.actor].ordinal \in Nat
  BY <1>3, ActorTypes
<1> SUFFICES ASSUME Admits(l.actor, l.binding)
             PROVE  FALSE
  BY <1>3
<1>5. /\ status[l.actor] = "waiting"
      /\ l.binding.epoch = <<l.actor, incarnation[l.actor]>>
      /\ l.binding.ordinal = cont[l.actor].ordinal
  BY DEF Admits, Bound, Binding, Epoch
<1> QED
  BY <1>2, <1>3, <1>4, <1>5

\* An admitted reply resumes the program.
Advances(a, s) ==
    \/ /\ s.tag = "Request"
       /\ cont' = [cont EXCEPT ![a] = s.cont]
       /\ UNCHANGED <<status, outcome>>
    \/ /\ s.tag # "Request"
       /\ status' = [status EXCEPT ![a] = "done"]
       /\ outcome' = [outcome EXCEPT ![a] = s.outcome]
       /\ UNCHANGED cont

\* The answer to the outstanding request is admitted.
LEMMA AnswerAdvances ==
    ASSUME NEW a, NEW o, status[a] = "waiting", Answer(a, o)
    PROVE  Advances(a, Resume(cont[a], invocation[a], o))
<1>1. Admits(a, Binding(a))
  BY DEF Admits, Bound
<1> QED
  BY <1>1 DEF Answer, Reply, Advances

\* The store of a step is this one or a later one, and the caller's request
\* is in it when the step applied it.
StoreMoves(a) ==
    /\ durable' \in Stores /\ Fold(durable') /\ Extends(durable', durable)
    /\ applied' \subseteq applied \cup {a} /\ applied \subseteq applied'
    /\ a \in applied' => Contains(durable'.commits, invocation[a])
    /\ UNCHANGED <<invocation, incarnation>>

\* Only the binding of the outstanding request joins the lost replies.
LateGrows(a) ==
    \A l \in late' : l \in late \/ (l.actor = a /\ l.binding = Binding(a))

\* The other callers do not notice a step of one caller.
LEMMA OthersSafe ==
    ASSUME IInv, NEW a \in Actors, NEW b \in Actors, a # b, StoreMoves(a),
           cont'[b] = cont[b], status'[b] = status[b], outcome'[b] = outcome[b]
    PROVE  Safe(b)'
<1>1. Safe(b) /\ durable \in Stores
  BY DEF IInv, Types
<1>2. b \in applied' <=> b \in applied
  BY DEF StoreMoves
<1>3. invocation'[b] = invocation[b] /\ incarnation'[b] = incarnation[b]
  BY DEF StoreMoves
<1>4. /\ Contains(durable.commits, invocation[b]) => Contains(durable'.commits, invocation[b])
      /\ \A r : Certifies(durable, invocation[b], r) => Certifies(durable', invocation[b], r)
  BY <1>1, ExtendsKeeps DEF StoreMoves
<1> QED
  BY <1>1, <1>2, <1>3, <1>4 DEF Safe

\* A caller whose program is resumed by an answer: it keeps the invariant when
\* its "committed" is certified, and when it stays discreet about a request
\* the store has taken.
LEMMA AdvanceInvariant ==
    ASSUME IInv, NEW a \in Actors, status[a] = "waiting",
           NEW s, GoodStep(cont[a], s), Advances(a, s),
           StoreMoves(a), LateGrows(a),
           a \in applied' => Discreet(s),
           s.tag = "Done" /\ s.outcome.tag = "Ok" =>
             Certifies(durable', invocation[a], s.outcome.value)
    PROVE  IInv'
<1>1. Types /\ Safe(a)
  BY DEF IInv
<1>2. cont[a] \in Continuations /\ cont[a].ordinal \in Nat /\ incarnation[a] \in Nat
  BY ActorTypes
<1>3. /\ s.tag = "Done" => s.outcome \in Outcomes
      /\ s.tag = "Request" => /\ s.cont \in Continuations /\ s.cont.ordinal = cont[a].ordinal + 1
                              /\ Load(s.cont) <= Load(cont[a])
      /\ s.tag \in {"Done", "Request"}
  BY DEF GoodStep
<1>4. /\ s.tag = "Request" => /\ cont' = [cont EXCEPT ![a] = s.cont]
                              /\ status' = status /\ outcome' = outcome
      /\ s.tag = "Done" => /\ status' = [status EXCEPT ![a] = "done"]
                           /\ outcome' = [outcome EXCEPT ![a] = s.outcome] /\ cont' = cont
  BY DEF Advances
<1>5. invocation' = invocation /\ incarnation' = incarnation /\ applied' \subseteq Actors
      /\ durable' \in Stores /\ Fold(durable')
  BY <1>1 DEF StoreMoves, Types
<1>6. Types'
  BY <1>1, <1>3, <1>4, <1>5 DEF Types
<1>7. ASSUME NEW b \in Actors
      PROVE  Safe(b)'
  <2>1. CASE b # a
    <3>1. cont'[b] = cont[b] /\ status'[b] = status[b] /\ outcome'[b] = outcome[b]
      BY <1>1, <1>3, <1>4, <2>1 DEF Types
    <3> QED
      BY <2>1, <3>1, OthersSafe
  <2>2. CASE s.tag = "Request"
    <3>1. cont'[a] = s.cont /\ status'[a] = "waiting" /\ outcome'[a] = outcome[a]
      BY <1>1, <1>4, <2>2 DEF Types
    <3>2. outcome[a] = NoOutcome
      BY <1>1 DEF Safe
    <3>3. s.cont \in Continuations /\ Load(s.cont) <= Load(cont[a])
      BY <1>3, <2>2
    <3>4. Load(s.cont) \in Nat /\ Load(cont[a]) \in Nat
      BY <1>2, <3>3, ProgramAssumption DEF Load, Weight, Continuations
    <3> DEFINE bound == 3 * Retries + (IF incarnation[a] = 0 THEN 0 ELSE 2)
    <3>5. bound \in Nat /\ Load(cont[a]) <= bound
      BY <1>1, <1>2, ProgramAssumption DEF Safe
    <3> HIDE DEF bound
    <3>6. Load(s.cont) <= bound
      BY <3>3, <3>4, <3>5
    <3>7. a \in applied' => Contains(durable'.commits, invocation[a]) /\ Wary(s.cont)
      BY <2>2 DEF StoreMoves, Discreet
    <3>8. Safe(a)'
      BY <1>5, <3>1, <3>2, <3>6, <3>7, OutcomeTags DEF Safe, bound
    <3> QED
      BY <2>1, <3>8
  <2>3. CASE s.tag = "Done"
    <3>1. cont'[a] = cont[a] /\ status'[a] = "done" /\ outcome'[a] = s.outcome
      BY <1>1, <1>4, <2>3 DEF Types
    <3>2. a \in applied' => /\ Contains(durable'.commits, invocation[a])
                            /\ s.outcome.tag \notin {"Refused", "NotApplied"}
      BY <2>3 DEF StoreMoves, Discreet
    <3>3. s.outcome.tag = "Ok" => Certifies(durable', invocation[a], s.outcome.value)
      BY <2>3
    <3>4. Load(cont[a]) <= 3 * Retries + (IF incarnation[a] = 0 THEN 0 ELSE 2)
      BY <1>1 DEF Safe
    <3>5. Safe(a)'
      BY <1>3, <1>5, <2>3, <3>1, <3>2, <3>3, <3>4 DEF Safe
    <3> QED
      BY <2>1, <3>5
  <2> QED
    BY <1>3, <2>2, <2>3
<1>8. ASSUME NEW l \in late'
      PROVE  Outdated(l)'
  <2>0. /\ status'[a] = "waiting" => cont'[a].ordinal = cont[a].ordinal + 1
        /\ \A b \in Actors : b # a => cont'[b] = cont[b] /\ status'[b] = status[b]
    BY <1>1, <1>3, <1>4 DEF Types
  <2>1. CASE l \in late
    <3>1. Outdated(l) /\ l.actor \in Actors /\ l.binding.ordinal \in Nat
      BY <2>1 DEF IInv, Outdated
    <3>2. PICK i \in Nat :
            /\ l.binding.epoch = <<l.actor, i>> /\ i <= incarnation[l.actor]
            /\ i = incarnation[l.actor] /\ status[l.actor] = "waiting" =>
                 l.binding.ordinal < cont[l.actor].ordinal
      BY <3>1 DEF Outdated
    <3>3. i = incarnation[l.actor] /\ status'[l.actor] = "waiting" =>
            l.binding.ordinal < cont'[l.actor].ordinal
      <4>1. CASE l.actor = a
        BY <1>2, <2>0, <3>1, <3>2, <4>1
      <4>2. CASE l.actor # a
        BY <2>0, <3>1, <3>2, <4>2
      <4> QED
        BY <4>1, <4>2
    <3> QED
      BY <1>5, <3>1, <3>2, <3>3 DEF Outdated
  <2>2. CASE l.actor = a /\ l.binding = Binding(a)
    <3>1. l.binding.epoch = <<a, incarnation[a]>> /\ l.binding.ordinal = cont[a].ordinal
      BY <2>2 DEF Binding, Epoch
    <3>2. incarnation[a] <= incarnation[a]
          /\ (status'[a] = "waiting" => cont[a].ordinal < cont'[a].ordinal)
      BY <1>2, <2>0
    <3> QED
      BY <1>2, <1>5, <2>2, <3>1, <3>2 DEF Outdated
  <2> QED
    BY <2>1, <2>2 DEF LateGrows
<1> QED
  BY <1>5, <1>6, <1>7, <1>8 DEF IInv

\* A caller that crashes, before or after a write.
LEMMA CrashInvariant ==
    ASSUME IInv, NEW a \in Actors, status[a] = "waiting", Crash(a), StoreMoves(a), late' = late
    PROVE  IInv'
<1>1. Types /\ Safe(a)
  BY DEF IInv
<1>2. /\ status' = [status EXCEPT ![a] = "crashed"] /\ cont' = cont /\ outcome' = outcome
      /\ invocation' = invocation /\ incarnation' = incarnation /\ applied' \subseteq Actors
      /\ durable' \in Stores /\ Fold(durable')
  BY <1>1 DEF Crash, StoreMoves, Types
<1>3. Types'
  BY <1>1, <1>2 DEF Types
<1>4. ASSUME NEW b \in Actors
      PROVE  Safe(b)'
  <2>1. CASE b # a
    BY <1>1, <1>2, <2>1, OthersSafe DEF Types
  <2>2. CASE b = a
    <3>1. status'[a] = "crashed" /\ outcome[a] = NoOutcome
      BY <1>1, <1>2 DEF Types, Safe
    <3>2. a \in applied' => Contains(durable'.commits, invocation[a])
      BY DEF StoreMoves
    <3> QED
      BY <1>1, <1>2, <2>2, <3>1, <3>2, OutcomeTags DEF Safe
  <2> QED
    BY <2>1, <2>2
<1>5. ASSUME NEW l \in late'
      PROVE  Outdated(l)'
  <2>1. Outdated(l)
    BY <1>5 DEF IInv
  <2>2. \A b \in Actors : status'[b] = "waiting" => status[b] = "waiting"
    BY <1>1, <1>2 DEF Types
  <2> QED
    BY <1>2, <2>1, <2>2 DEF Outdated
<1> QED
  BY <1>2, <1>3, <1>4, <1>5 DEF IInv

\* A restarted run is uncertain from its first step, in a new epoch.
LEMMA RestartInvariant ==
    ASSUME IInv, NEW a \in Actors, Restart(a)
    PROVE  IInv'
<1>1. Types /\ Safe(a) /\ incarnation[a] \in Nat /\ invocation[a] \in InvocationType
  BY ActorTypes DEF IInv
<1>2. /\ status[a] = "crashed" /\ incarnation[a] < Restarts
      /\ incarnation' = [incarnation EXCEPT ![a] = incarnation[a] + 1]
      /\ cont' = [cont EXCEPT ![a] = Recover(invocation[a])]
      /\ status' = [status EXCEPT ![a] = "waiting"]
      /\ durable' = durable /\ invocation' = invocation /\ outcome' = outcome
      /\ late' = late /\ applied' = applied
  BY DEF Restart
<1>3. /\ Recover(invocation[a]) \in Continuations
      /\ Load(Recover(invocation[a])) = 3 * Retries + 2 /\ Wary(Recover(invocation[a]))
  BY <1>1, StartTypes
<1>4. incarnation[a] + 1 \in 0 .. Restarts /\ incarnation[a] + 1 # 0
  BY <1>1, <1>2, RestartsAssumption
<1>5. Types'
  BY <1>1, <1>2, <1>3, <1>4 DEF Types
<1>6. ASSUME NEW b \in Actors
      PROVE  Safe(b)'
  <2>1. CASE b # a
    <3>1. cont'[b] = cont[b] /\ status'[b] = status[b] /\ incarnation'[b] = incarnation[b]
      BY <1>1, <1>2, <2>1 DEF Types
    <3> QED
      BY <1>2, <3>1 DEF IInv, Safe
  <2>2. CASE b = a
    <3>1. /\ cont'[a] = Recover(invocation[a]) /\ status'[a] = "waiting"
          /\ incarnation'[a] = incarnation[a] + 1 /\ outcome[a] = NoOutcome
      BY <1>1, <1>2 DEF Types, Safe
    <3>2. Load(cont'[a]) <= 3 * Retries + (IF incarnation'[a] = 0 THEN 0 ELSE 2)
      BY <1>3, <1>4, <3>1, ProgramAssumption
    <3> QED
      BY <1>1, <1>2, <1>3, <2>2, <3>1, <3>2, OutcomeTags DEF Safe
  <2> QED
    BY <2>1, <2>2
<1>7. ASSUME NEW l \in late'
      PROVE  Outdated(l)'
  <2>1. Outdated(l) /\ l.actor \in Actors /\ l.binding.ordinal \in Nat
    BY <1>2, <1>7 DEF IInv, Outdated
  <2>2. PICK i \in Nat :
          /\ l.binding.epoch = <<l.actor, i>> /\ i <= incarnation[l.actor]
          /\ i = incarnation[l.actor] /\ status[l.actor] = "waiting" =>
               l.binding.ordinal < cont[l.actor].ordinal
    BY <2>1 DEF Outdated
  <2>3. CASE l.actor = a
    <3>1. incarnation'[a] = incarnation[a] + 1
      BY <1>1, <1>2 DEF Types
    <3>2. i <= incarnation'[a] /\ i # incarnation'[a]
      BY <1>1, <2>2, <2>3, <3>1
    <3> QED
      BY <2>1, <2>2, <2>3, <3>2 DEF Outdated
  <2>4. CASE l.actor # a
    <3>1. /\ cont'[l.actor] = cont[l.actor] /\ status'[l.actor] = status[l.actor]
          /\ incarnation'[l.actor] = incarnation[l.actor]
      BY <1>1, <1>2, <2>1, <2>4 DEF Types
    <3> QED
      BY <2>1, <2>2, <3>1 DEF Outdated
  <2> QED
    BY <2>3, <2>4
<1> QED
  BY <1>2, <1>5, <1>6, <1>7 DEF IInv

-----------------------------------------------------------------------------
(* The steps. *)

\* The store takes the caller's request.
Publishes(a) ==
    /\ Fits(durable, invocation[a].key, invocation[a].publication)
    /\ durable' = Applied(durable, invocation[a].key, invocation[a].publication)
    /\ applied' = applied \cup {a}
    /\ a \notin applied

\* An answer resumes the program: its "committed" is certified, and it stays
\* discreet about a request the store has taken.
Answered(a, s) ==
    /\ GoodStep(cont[a], s) /\ Advances(a, s) /\ LateGrows(a)
    /\ a \in applied' => Discreet(s)
    /\ s.tag = "Done" /\ s.outcome.tag = "Ok" =>
         Certifies(durable', invocation[a], s.outcome.value)

\* One request of a waiting caller: it is published or the store is left as it
\* was, and the caller is answered or crashes.
Serves(a) ==
    /\ status[a] = "waiting"
    /\ Publishes(a) \/ (durable' = durable /\ applied' = applied)
    /\ (\E s : Answered(a, s)) \/ (Crash(a) /\ late' = late)
    /\ UNCHANGED <<invocation, incarnation>>

\* A published request is in the new store.
LEMMA PublishedStore ==
    ASSUME IInv, NEW a \in Actors, Publishes(a)
    PROVE  /\ durable' \in Stores /\ Fold(durable') /\ Extends(durable', durable)
           /\ Version(durable') = Version(durable) + 1
           /\ durable'.commits[Version(durable')].key = invocation[a].key
           /\ durable'.commits[Version(durable')].publication = invocation[a].publication
           /\ Contains(durable'.commits, invocation[a])
<1> DEFINE d == durable
           e == durable'
           key == invocation[a].key
           pub == invocation[a].publication
<1>1. key \in Keys /\ pub \in Publications
  BY ActorTypes DEF InvocationType
<1>2. d \in Stores /\ Fold(d) /\ Fits(d, key, pub) /\ e = Applied(d, key, pub)
  BY DEF IInv, Types, Publishes
<1> HIDE DEF d, e, key, pub
<1>3. /\ e \in Stores /\ Fold(e) /\ Extends(e, d) /\ Version(e) = Version(d) + 1
      /\ e.commits[Version(e)].key = key /\ e.commits[Version(e)].publication = pub
  BY <1>1, <1>2, AppliedFold
<1>4. Version(e) \in 1 .. Len(e.commits)
  BY <1>2, <1>3, StoreParts
<1>5. \E i \in 1 .. Len(e.commits) : e.commits[i].key = key /\ e.commits[i].publication = pub
  BY <1>3, <1>4
<1> QED
  BY <1>3, <1>5 DEF Contains, d, e, key, pub

\* Either way the store moves on.
LEMMA ServedStore ==
    ASSUME IInv, NEW a \in Actors, UNCHANGED <<invocation, incarnation>>,
           Publishes(a) \/ (durable' = durable /\ applied' = applied)
    PROVE  StoreMoves(a)
<1>1. CASE Publishes(a)
  BY <1>1, PublishedStore DEF StoreMoves, Publishes
<1>2. CASE durable' = durable /\ applied' = applied
  <2>1. durable \in Stores /\ Fold(durable) /\ Safe(a)
    BY DEF IInv, Types
  <2>2. Extends(durable, durable)
    BY <2>1, StoreParts DEF Extends
  <2> QED
    BY <1>2, <2>1, <2>2 DEF StoreMoves, Safe
<1> QED
  BY <1>1, <1>2

\* A request served keeps the invariant.
LEMMA ServesInvariant ==
    ASSUME IInv, NEW a \in Actors, Serves(a)
    PROVE  IInv'
<1>1. StoreMoves(a)
  BY ServedStore DEF Serves
<1>2. CASE \E s : Answered(a, s)
  BY <1>1, <1>2, AdvanceInvariant DEF Serves, Answered
<1>3. CASE Crash(a) /\ late' = late
  BY <1>1, <1>3, CrashInvariant DEF Serves
<1> QED
  BY <1>2, <1>3 DEF Serves

\* An answer that the store gives without a write.
LEMMA AnswerServes ==
    ASSUME IInv, NEW a \in Actors, status[a] = "waiting",
           NEW o \in Answers(cont[a].phase), Answer(a, o),
           durable' = durable, late' = late, applied' = applied,
           UNCHANGED <<invocation, incarnation>>,
           cont[a].phase = "Commit" /\ o.tag = "Ok" => Certifies(durable, invocation[a], o.value),
           a \in applied /\ cont[a].phase = "Commit" => o.tag # "Refused",
           cont[a].phase = "History" /\ o.tag = "Ok" => o.value = durable.commits
    PROVE  Serves(a)
<1> DEFINE s == Resume(cont[a], invocation[a], o)
<1>1. cont[a] \in Continuations /\ invocation[a] \in InvocationType /\ Safe(a)
  BY ActorTypes
<1>2. Advances(a, s)
  BY AnswerAdvances
<1>3. /\ GoodStep(cont[a], s)
      /\ s.tag = "Done" /\ s.outcome.tag = "Ok" => cont[a].phase = "Commit" /\ s.outcome = o
      /\ /\ Wary(cont[a])
         /\ cont[a].phase = "Commit" => o.tag # "Refused"
         /\ cont[a].phase = "History" /\ o.tag = "Ok" => Contains(o.value, invocation[a])
         => Discreet(s)
  BY <1>1, ResumeStep
<1> HIDE DEF s
<1>4. a \in applied' => Discreet(s)
  BY <1>1, <1>3 DEF Safe
<1>5. LateGrows(a)
  BY DEF LateGrows
<1>6. Answered(a, s)
  BY <1>2, <1>3, <1>4, <1>5 DEF Answered
<1> QED
  BY <1>6 DEF Serves

\* Simulation::read.
LEMMA ReadServes ==
    ASSUME IInv, NEW a \in Actors, status[a] = "waiting",
           NEW o \in Answers(cont[a].phase), Read(a, o),
           UNCHANGED <<invocation, incarnation>>,
           cont[a].phase = "Commit" /\ o.tag = "Ok" => Certifies(durable, invocation[a], o.value),
           a \in applied /\ cont[a].phase = "Commit" => o.tag # "Refused",
           cont[a].phase = "History" /\ o.tag = "Ok" => o.value = durable.commits
    PROVE  Serves(a)
<1>0. durable' = durable /\ late' = late /\ applied' = applied
  BY DEF Read
<1>1. CASE Answer(a, o)
  BY <1>0, <1>1, AnswerServes
<1>2. CASE \E fault \in Faults : Answer(a, NotApplied(fault))
  <2>1. PICK fault \in Faults : Answer(a, NotApplied(fault))
    BY <1>2
  <2>2. NotApplied(fault) \in Answers(cont[a].phase) /\ NotApplied(fault).tag = "NotApplied"
    BY DEF NotApplied, Answers
  <2> QED
    BY <1>0, <2>1, <2>2, AnswerServes
<1>3. CASE Crash(a)
  BY <1>0, <1>3 DEF Serves
<1> QED
  BY <1>1, <1>2, <1>3 DEF Read

\* Simulation::write, of a request that fits.
LEMMA WriteServes ==
    ASSUME IInv, NEW a \in Actors, status[a] = "waiting", cont[a].phase = "Commit",
           Fits(durable, invocation[a].key, invocation[a].publication), a \notin applied,
           NEW after, after = Applied(durable, invocation[a].key, invocation[a].publication),
           NEW receipt \in Receipts, Certifies(after, invocation[a], receipt),
           Write(a, after, Ok(receipt)), UNCHANGED <<invocation, incarnation>>
    PROVE  Serves(a)
<1>0. cont[a] \in Continuations /\ invocation[a] \in InvocationType
  BY ActorTypes
<1>a. Ok(receipt) \in Answers("Commit") /\ Ok(receipt).tag = "Ok" /\ Ok(receipt).value = receipt
  BY DEF Ok, Answers, Outcomes
<1>b. Unknown("Io") \in Answers("Commit") /\ Unknown("Io").tag = "Unknown"
  BY DEF Unknown, Answers, Outcomes, Faults
<1>c. WriteApplies(a, after) => Publishes(a) /\ durable' = after
  BY DEF WriteApplies, Publishes
<1>1. CASE WriteApplies(a, after) /\ Answer(a, Ok(receipt)) /\ UNCHANGED late
  <2> DEFINE s == Resume(cont[a], invocation[a], Ok(receipt))
  <2>1. Advances(a, s) /\ GoodStep(cont[a], s)
    BY <1>0, <1>1, <1>a, AnswerAdvances, ResumeStep
  <2>2. s.tag = "Done" /\ s.outcome = Ok(receipt)
    BY <1>a DEF Resume, Committed, Done
  <2> HIDE DEF s
  <2>3. Discreet(s) /\ s.outcome.value = receipt
    BY <1>a, <2>2 DEF Discreet
  <2>4. Answered(a, s)
    BY <1>1, <1>c, <2>1, <2>3 DEF Answered, LateGrows
  <2> QED
    BY <1>1, <1>c, <2>4 DEF Serves
<1>2. CASE WriteFails /\ (\E fault \in Faults : Answer(a, NotApplied(fault))) /\ UNCHANGED late
  <2>1. PICK fault \in Faults : Answer(a, NotApplied(fault))
    BY <1>2
  <2>2. NotApplied(fault) \in Answers(cont[a].phase) /\ NotApplied(fault).tag = "NotApplied"
    BY DEF NotApplied, Answers
  <2> QED
    BY <1>2, <2>1, <2>2, AnswerServes DEF WriteFails
<1>3. CASE WriteFails /\ Answer(a, Unknown("Io")) /\ UNCHANGED late
  BY <1>3, <1>b, AnswerServes DEF WriteFails
<1>4. CASE /\ WriteApplies(a, after)
           /\ Answer(a, Unknown("Io"))
           /\ late' = late \cup {[binding |-> Binding(a), actor |-> a, response |-> Ok(receipt)]}
  <2> DEFINE s == Resume(cont[a], invocation[a], Unknown("Io"))
  <2>1. /\ Advances(a, s) /\ GoodStep(cont[a], s) /\ Discreet(s)
        /\ ~(s.tag = "Done" /\ s.outcome.tag = "Ok")
    BY <1>0, <1>4, <1>b, AnswerAdvances, ResumeStep
  <2> HIDE DEF s
  <2>2. LateGrows(a)
    BY <1>4 DEF LateGrows
  <2>3. Answered(a, s)
    BY <2>1, <2>2 DEF Answered
  <2> QED
    BY <1>4, <1>c, <2>3 DEF Serves
<1>5. CASE WriteFails /\ Crash(a) /\ UNCHANGED late
  BY <1>5 DEF Serves, WriteFails
<1>6. CASE WriteApplies(a, after) /\ Crash(a) /\ UNCHANGED late
  BY <1>6, <1>c DEF Serves
<1> QED
  BY <1>1, <1>2, <1>3, <1>4, <1>5, <1>6 DEF Write

\* Every request of a waiting caller, in each phase of its program.
LEMMA StepServes ==
    ASSUME IInv, NEW a \in Actors, Step(a)
    PROVE  Serves(a)
<1>0. /\ invocation[a] \in InvocationType /\ cont[a].mode \in Modes
      /\ durable \in Stores /\ Fold(durable) /\ Safe(a)
  BY ActorTypes DEF IInv, Types
<1>1. Ok(durable.commits).tag = "Ok" /\ Ok(durable.commits).value = durable.commits
  BY DEF Ok
<1>2. \A phase \in {"Reopen", "History"} : Ok(durable.commits) \in Answers(phase)
  BY <1>0, StoreParts DEF Ok, Answers
<1>3. CASE ReopenStep(a)
  BY <1>1, <1>2, <1>3, ReadServes DEF ReopenStep
<1>4. CASE HistoryStep(a)
  BY <1>1, <1>2, <1>4, ReadServes DEF HistoryStep
<1>5. CASE CommitStep(a)
  <2> DEFINE r == Decide(durable, invocation[a].key, invocation[a].publication, cont[a].mode)
  <2>1. /\ \/ r.tag = "Refuse" /\ r.code \in Codes
           \/ r.tag = "Replay" /\ r.receipt \in Receipts
                /\ Certifies(durable, invocation[a], r.receipt)
           \/ /\ r.tag = "Apply"
              /\ r.after = Applied(durable, invocation[a].key, invocation[a].publication)
              /\ r.receipt \in Receipts /\ Certifies(r.after, invocation[a], r.receipt)
              /\ Fits(durable, invocation[a].key, invocation[a].publication)
        /\ Contains(durable.commits, invocation[a]) => r.tag # "Apply"
        /\ Contains(durable.commits, invocation[a]) /\ cont[a].mode = Unversioned =>
             r.tag = "Replay"
    BY <1>0, Decision
  <2>2. /\ status[a] = "waiting" /\ cont[a].phase = "Commit" /\ UNCHANGED <<invocation, incarnation>>
        /\ r.tag = "Refuse" => Read(a, Refused(r.code))
        /\ r.tag = "Replay" => Read(a, Ok(r.receipt))
        /\ r.tag = "Apply" => Write(a, r.after, Ok(r.receipt))
    BY <1>5, <2>1 DEF CommitStep
  <2> HIDE DEF r
  <2>3. a \in applied => r.tag = "Replay"
    BY <1>0, <2>1, <2>2 DEF Safe, Wary
  <2>4. CASE r.tag = "Refuse"
    <3>1. /\ Refused(r.code) \in Answers(cont[a].phase) /\ Refused(r.code).tag = "Refused"
      BY <2>1, <2>2, <2>4 DEF Refused, Answers, Outcomes
    <3>2. a \notin applied
      BY <2>3, <2>4
    <3> QED
      BY <2>2, <2>4, <3>1, <3>2, ReadServes
  <2>5. CASE r.tag = "Replay"
    <3>1. /\ Ok(r.receipt) \in Answers(cont[a].phase)
          /\ Ok(r.receipt).tag = "Ok" /\ Ok(r.receipt).value = r.receipt
      BY <2>1, <2>2, <2>5 DEF Ok, Answers, Outcomes
    <3>2. Certifies(durable, invocation[a], r.receipt)
      BY <2>1, <2>5
    <3> QED
      BY <2>2, <2>5, <3>1, <3>2, ReadServes
  <2>6. CASE r.tag = "Apply"
    <3>1. a \notin applied
      BY <2>3, <2>6
    <3> QED
      BY <2>1, <2>2, <2>6, <3>1, WriteServes
  <2> QED
    BY <2>1, <2>4, <2>5, <2>6
<1> QED
  BY <1>3, <1>4, <1>5 DEF Step

\* A lost reply that arrives changes nothing.
LEMMA OfferLateStutters ==
    ASSUME IInv, NEW a \in Actors, OfferLate(a)
    PROVE  UNCHANGED vars
<1>1. PICK l \in late : l.actor = a /\ Reply(a, l.binding, l.response)
  BY DEF OfferLate
<1>2. ~Admits(a, l.binding)
  BY <1>1, OutdatedRefused
<1>3. UNCHANGED <<cont, status, outcome>>
  BY <1>1, <1>2 DEF Reply
<1> QED
  BY <1>3 DEF OfferLate, vars

\* Every step of the callers, the store and the scheduler.
LEMMA NextInvariant ==
    IInv /\ [Next]_vars => IInv'
<1> SUFFICES ASSUME IInv, [Next]_vars
             PROVE  IInv'
  OBVIOUS
<1>1. ASSUME NEW a \in Actors, Step(a)
      PROVE  IInv'
  BY <1>1, StepServes, ServesInvariant
<1>2. ASSUME NEW a \in Actors, Restart(a)
      PROVE  IInv'
  BY <1>2, RestartInvariant
<1>3. ASSUME NEW a \in Actors, OfferLate(a)
      PROVE  IInv'
  BY <1>3, OfferLateStutters, StutterInvariant
<1>4. CASE Finished \/ UNCHANGED vars
  BY <1>4, StutterInvariant DEF Finished
<1> QED
  BY <1>1, <1>2, <1>3, <1>4 DEF Next

\* The invariant holds in every behaviour.
LEMMA Invariant ==
    Spec => []IInv
BY InitInvariant, NextInvariant, PTL DEF Spec

-----------------------------------------------------------------------------
(* The properties. *)

\* Each property, from the invariant.
LEMMA InvariantImplies ==
    IInv => /\ TypeOK /\ StoreIsFold /\ ReceiptIsOriginal /\ RefusedMeansAbsent
            /\ PublishedRunIsUncertain /\ LateRefused /\ RequestBudget
<1> SUFFICES ASSUME IInv
             PROVE  /\ TypeOK /\ StoreIsFold /\ ReceiptIsOriginal /\ RefusedMeansAbsent
                    /\ PublishedRunIsUncertain /\ LateRefused /\ RequestBudget
  OBVIOUS
<1>1. Types /\ Fold(durable) /\ \A a \in Actors : Safe(a)
  BY DEF IInv
<1>2. TypeOK
  <2>1. durable.commits \in Seq(Entries) /\ durable.receipts \in Seq(Seq(Publications))
        /\ durable.state \in 0 .. MaxCount
    BY <1>1, StoreParts DEF Types
  <2> QED
    BY <1>1, <2>1 DEF TypeOK, Types, Safe
<1>3. StoreIsFold
  <2> DEFINE d == durable
             n == Version(d)
  <2>1. n \in Nat
    BY <1>1, StoreParts DEF Types
  <2>2. \A i \in 1 .. n : CommitIsFold(d, i)
    BY <1>1 DEF Fold
  <2>3. ASSUME n > 0
        PROVE  d.chain = d.receipts[n]
    <3>1. n \in 1 .. n
      BY <2>1, <2>3
    <3>2. d.receipts[n] = [j \in 1 .. n |-> d.commits[j].publication]
      BY <2>2, <3>1 DEF CommitIsFold
    <3> QED
      BY <1>1, <3>2 DEF Fold
  <2>4. /\ d.state = StateAfter(d, n)
        /\ Len(d.receipts) = n /\ Len(d.replays) = n /\ Len(d.outbox) = 2 * n
    BY <1>1 DEF Fold
  <2> QED
    BY <2>2, <2>3, <2>4 DEF StoreIsFold, CommitIsFold
<1>4. ReceiptIsOriginal
  BY <1>1 DEF ReceiptIsOriginal, Safe, Certifies
<1>5. RefusedMeansAbsent
  BY <1>1 DEF RefusedMeansAbsent, Safe
<1>6. PublishedRunIsUncertain
  BY <1>1 DEF PublishedRunIsUncertain, Safe, Wary
<1>7. LateRefused
  BY OutdatedRefused DEF LateRefused
<1>8. RequestBudget
  <2> SUFFICES ASSUME NEW a \in Actors
               PROVE  cont[a].ordinal
                        + (CASE cont[a].phase = "Reopen" -> 2
                             [] cont[a].phase = "History" -> 1
                             [] cont[a].phase = "Commit" -> 0)
                      <= 3 * (Retries - cont[a].retries) + (IF incarnation[a] = 0 THEN 0 ELSE 2)
    BY DEF RequestBudget
  <2>1. /\ cont[a].ordinal \in Nat /\ cont[a].retries \in Nat /\ Retries \in Nat
        /\ cont[a].phase \in {"Commit", "Reopen", "History"}
    BY <1>1, ProgramAssumption DEF Types, Continuations, Phases
  <2>2. (CASE cont[a].phase = "Reopen" -> 2
           [] cont[a].phase = "History" -> 1
           [] cont[a].phase = "Commit" -> 0) = Weight(cont[a].phase)
    BY <2>1 DEF Weight
  <2>3. Weight(cont[a].phase) \in Nat
    BY DEF Weight
  <2>4. cont[a].ordinal + Weight(cont[a].phase) + 3 * cont[a].retries
          <= 3 * Retries + (IF incarnation[a] = 0 THEN 0 ELSE 2)
    BY <1>1 DEF Safe, Load
  <2> QED
    BY <2>1, <2>2, <2>3, <2>4
<1> QED
  BY <1>2, <1>3, <1>4, <1>5, <1>6, <1>7, <1>8

\* The values the drivers, the store and the callers hold keep their types.
THEOREM TypeCorrect ==
    Spec => []TypeOK
BY Invariant, InvariantImplies, PTL

\* Whatever crashes, is lost or is retried, and however many callers commit at
\* once, the store is the fold of its history.
THEOREM StoreFolds ==
    Spec => []StoreIsFold
BY Invariant, InvariantImplies, PTL

\* A caller that is told "committed" holds the receipt of its own commit.
THEOREM ReceiptsAreOriginal ==
    Spec => []ReceiptIsOriginal
BY Invariant, InvariantImplies, PTL

\* A run that ended Refused or NotApplied published nothing.
THEOREM RefusalsAreTrue ==
    Spec => []RefusedMeansAbsent
BY Invariant, InvariantImplies, PTL

\* A waiting run whose request was published knows that it may have been.
THEOREM PublishedRunsKnow ==
    Spec => []PublishedRunIsUncertain
BY Invariant, InvariantImplies, PTL

\* A reply that was lost never resumes a program.
THEOREM LateRepliesRefused ==
    Spec => []LateRefused
BY Invariant, InvariantImplies, PTL

\* The retry budget bounds the requests of a whole run.
THEOREM BudgetHolds ==
    Spec => []RequestBudget
BY Invariant, InvariantImplies, PTL

-----------------------------------------------------------------------------
(* The promise. *)

\* The published log, and the verdict of each caller.
Log == [i \in 1 .. Len(durable.commits) |->
          [key |-> durable.commits[i].key, publication |-> durable.commits[i].publication]]
Asked == [a \in Actors |-> [key |-> invocation[a].key, publication |-> invocation[a].publication]]
Told == [a \in Actors |-> Verdict(outcome[a])]

\* Nothing is published or promised at first.
LEMMA PromiseInit ==
    Init => Promise!Init
<1> SUFFICES ASSUME Init
             PROVE  Promise!Init
  OBVIOUS
<1>1. Asked \in [Actors -> {[key |-> inv.key, publication |-> inv.publication] : inv \in Invocations}]
  BY DEF Init, Asked
<1>2. Len(durable.commits) = 0 /\ applied = {}
  BY DEF Init, Genesis
<1>3. Log = << >>
  BY <1>2 DEF Log
<1>4. Told = [a \in Actors |-> "none"]
  BY DEF Init, Told, Verdict, NoOutcome
<1> QED
  BY <1>1, <1>2, <1>3, <1>4 DEF Promise!Init, Asked, Log, Told

\* Steps that leave the store, the requests and the outcomes alone.
LEMMA PromiseStutters ==
    ASSUME durable' = durable, invocation' = invocation, outcome' = outcome, applied' = applied
    PROVE  UNCHANGED Promise!vars
BY DEF Promise!vars

\* The verdict of a caller whose run ended.
LEMMA ToldVerdict ==
    ASSUME NEW a \in Actors, NEW o, outcome \in [Actors -> Outcomes \cup {NoOutcome}],
           outcome' = [outcome EXCEPT ![a] = o]
    PROVE  Told' = [Told EXCEPT ![a] = Verdict(o)]
BY DEF Told

\* The log of a store: its length, its entries and the state it leaves.
LEMMA LogFacts ==
    ASSUME IInv
    PROVE  /\ Len(Log) = Version(durable) /\ Version(durable) \in Nat
           /\ \A i \in 1 .. Version(durable) :
                Log[i] = [key |-> durable.commits[i].key,
                          publication |-> durable.commits[i].publication]
           /\ Promise!Head0(Log) = durable.state
<1> DEFINE n == Version(durable)
<1>1. durable \in Stores /\ Fold(durable) /\ n \in Nat /\ Len(durable.commits) = n
  BY StoreParts DEF IInv, Types
<1>2. /\ Len(Log) = n
      /\ \A i \in 1 .. n : Log[i] = [key |-> durable.commits[i].key,
                                     publication |-> durable.commits[i].publication]
  BY <1>1 DEF Log
<1>3. durable.state = StateAfter(durable, n)
  BY <1>1 DEF Fold
<1> HIDE DEF n
<1>4. CASE n = 0
  <2>1. Log = << >>
    BY <1>1, <1>4 DEF Log
  <2> QED
    BY <1>1, <1>2, <1>3, <1>4, <2>1 DEF StateAfter, Promise!Head0, n
<1>5. CASE n # 0
  <2>1. Log # << >> /\ n \in 1 .. n
    BY <1>1, <1>2, <1>5
  <2>2. /\ Log[n].publication.prestate = durable.commits[n].publication.prestate
        /\ Log[n].publication.body = durable.commits[n].publication.body
    BY <1>2, <2>1
  <2>3. Promise!Head0(Log) = Log[n].publication.prestate + Log[n].publication.body
    BY <1>2, <2>1 DEF Promise!Head0
  <2> QED
    BY <1>1, <1>2, <1>3, <1>5, <2>2, <2>3 DEF StateAfter, n
<1> QED
  BY <1>4, <1>5

\* A request that fits may be published, and its publication appends it.
LEMMA PublishedLog ==
    ASSUME IInv, NEW a \in Actors, Publishes(a)
    PROVE  /\ Log' = Append(Log, Asked[a])
           /\ \A i \in 1 .. Len(Log) : Log[i].key # Asked[a].key
           /\ Asked[a].publication.prestate = Promise!Head0(Log)
<1> DEFINE n == Version(durable)
           key == invocation[a].key
           pub == invocation[a].publication
           item(d, i) == [key |-> d.commits[i].key, publication |-> d.commits[i].publication]
<1>0. Asked[a] = [key |-> key, publication |-> pub]
  BY DEF Asked
<1>1. /\ Len(Log) = n /\ n \in Nat /\ \A i \in 1 .. n : Log[i] = item(durable, i)
      /\ Promise!Head0(Log) = durable.state
  BY LogFacts
<1>2. ~HasKey(durable, key) /\ pub.prestate = durable.state
  BY DEF Publishes, Fits
<1>3. /\ durable' \in Stores /\ Extends(durable', durable) /\ Version(durable') = n + 1
      /\ durable'.commits[n + 1].key = key /\ durable'.commits[n + 1].publication = pub
  BY PublishedStore
<1>4. Len(durable'.commits) = n + 1 /\ \A i \in 1 .. n : durable'.commits[i] = durable.commits[i]
  BY <1>3 DEF Extends, Version
<1>5. Log' = [i \in 1 .. n + 1 |-> item(durable', i)]
  BY <1>4 DEF Log
<1>6. \A i \in 1 .. n + 1 : item(durable', i) = IF i = n + 1 THEN Asked[a] ELSE item(durable, i)
  <2> TAKE i \in 1 .. n + 1
  <2>1. CASE i = n + 1
    BY <1>0, <1>3, <2>1
  <2>2. CASE i # n + 1
    <3>1. i \in 1 .. n
      BY <1>1, <2>2
    <3> QED
      BY <1>4, <2>2, <3>1
  <2> QED
    BY <2>1, <2>2
<1>7. \A i \in 1 .. n : durable.commits[i].key # key
  <2>1. \A i \in 1 .. n : i \in 1 .. Len(durable.replays) /\ durable.replays[i] = durable.commits[i].key
    BY DEF IInv, Fold, CommitIsFold
  <2> QED
    BY <1>2, <2>1 DEF HasKey
<1>8. \A i \in 1 .. Len(Log) : Log[i].key # Asked[a].key
  <2>1. \A i \in 1 .. n : Log[i].key = durable.commits[i].key
    BY <1>1
  <2>2. Asked[a].key = key
    BY <1>0
  <2> QED
    BY <1>1, <1>7, <2>1, <2>2
<1>9. Log' = Append(Log, Asked[a])
  <2> HIDE DEF n, item
  <2>1. Log = [i \in 1 .. n |-> item(durable, i)]
    BY <1>1 DEF Log, n, item, Version
  <2> DEFINE old == [i \in 1 .. n |-> item(durable, i)]
  <2>2. Append(old, Asked[a]) = [i \in 1 .. n + 1 |-> IF i = n + 1 THEN Asked[a] ELSE item(durable, i)]
    BY <1>1
  <2>3. Log' = [i \in 1 .. n + 1 |-> IF i = n + 1 THEN Asked[a] ELSE item(durable, i)]
    BY <1>5, <1>6
  <2> QED
    BY <2>1, <2>2, <2>3
<1>10. Asked[a].publication.prestate = Promise!Head0(Log)
  BY <1>0, <1>1, <1>2
<1> QED
  BY <1>8, <1>9, <1>10

\* One request served is one step of the promise, or none.
LEMMA ServesPromise ==
    ASSUME IInv, NEW a \in Actors, Serves(a)
    PROVE  [Promise!Next]_(Promise!vars)
<1>0. /\ status[a] = "waiting" /\ invocation' = invocation
      /\ outcome \in [Actors -> Outcomes \cup {NoOutcome}] /\ outcome[a] = NoOutcome
  <2>1. Types /\ Safe(a)
    BY DEF IInv
  <2> QED
    BY <2>1 DEF Serves, Types, Safe
<1>1. Told[a] = "none" /\ Asked' = Asked
  BY <1>0 DEF Told, Verdict, NoOutcome, Asked
<1> DEFINE Says ==
             \/ Told' = Told /\ outcome' = outcome
             \/ \E s : /\ Answered(a, s) /\ s.tag = "Done" /\ s.outcome \in Outcomes
                       /\ Told' = [Told EXCEPT ![a] = Verdict(s.outcome)]
<1>2. Says
  <2>1. CASE Crash(a)
    BY <2>1 DEF Crash, Told
  <2>2. ASSUME NEW s, Answered(a, s)
        PROVE  Says
    <3>1. GoodStep(cont[a], s) /\ Advances(a, s)
      BY <2>2 DEF Answered
    <3>2. CASE s.tag = "Request"
      BY <3>1, <3>2 DEF Advances, Told
    <3>3. CASE s.tag = "Done"
      <4>1. s.outcome \in Outcomes /\ outcome' = [outcome EXCEPT ![a] = s.outcome]
        BY <3>1, <3>3 DEF GoodStep, Advances
      <4>2. Told' = [Told EXCEPT ![a] = Verdict(s.outcome)]
        BY <1>0, <4>1, ToldVerdict
      <4> QED
        BY <2>2, <3>3, <4>1, <4>2
    <3> QED
      BY <3>1, <3>2, <3>3 DEF GoodStep
  <2> QED
    BY <2>1, <2>2 DEF Serves
<1>3. CASE Publishes(a)
  <2>1. /\ Log' = Append(Log, Asked[a])
        /\ \A i \in 1 .. Len(Log) : Log[i].key # Asked[a].key
        /\ Asked[a].publication.prestate = Promise!Head0(Log)
    BY <1>3, PublishedLog
  <2>2. a \notin applied /\ applied' = applied \cup {a}
    BY <1>3 DEF Publishes
  <2>3. Told' \in {Told, [Told EXCEPT ![a] = "committed"], [Told EXCEPT ![a] = "unknown"]}
    <3>1. ASSUME NEW s, Answered(a, s), s.tag = "Done", s.outcome \in Outcomes
          PROVE  Verdict(s.outcome) \in {"committed", "unknown"}
      <4>1. s.outcome.tag \notin {"Refused", "NotApplied"}
        BY <2>2, <3>1 DEF Answered, Discreet
      <4> QED
        BY <3>1, <4>1, OutcomeTags DEF Verdict
    <3> QED
      BY <1>2, <3>1
  <2>4. Promise!Publish(a)
    BY <1>1, <2>1, <2>2, <2>3 DEF Promise!Publish, Promise!CanPublish, Log, Asked, Told
  <2> QED
    BY <2>4 DEF Promise!Next
<1>4. CASE durable' = durable /\ applied' = applied
  <2>1. Log' = Log
    BY <1>4 DEF Log
  <2>2. CASE outcome' = outcome
    BY <1>0, <1>4, <2>2, PromiseStutters
  <2>3. ASSUME NEW s, Answered(a, s), s.tag = "Done", s.outcome \in Outcomes,
               Told' = [Told EXCEPT ![a] = Verdict(s.outcome)]
        PROVE  Promise!Next
    <3>1. CASE s.outcome.tag = "Ok"
      <4>1. Verdict(s.outcome) = "committed"
        BY <3>1 DEF Verdict
      <4>2. Certifies(durable, invocation[a], s.outcome.value)
        BY <1>4, <2>3, <3>1 DEF Answered
      <4> DEFINE v == s.outcome.value.version
      <4>3. /\ v \in 1 .. Version(durable) /\ durable.commits[v].key = invocation[a].key
            /\ durable.commits[v].publication = invocation[a].publication
        BY <4>2 DEF Certifies
      <4> HIDE DEF v
      <4>4. v \in 1 .. Len(Log) /\ Log[v] = Asked[a]
        BY <4>3, LogFacts DEF Asked
      <4>5. Promise!SayCommitted(a)
        BY <1>1, <1>4, <2>1, <2>3, <4>1, <4>4 DEF Promise!SayCommitted, Log, Asked, Told
      <4> QED
        BY <4>5 DEF Promise!Next
    <3>2. CASE s.outcome.tag \in {"Refused", "NotApplied"}
      <4>1. Verdict(s.outcome) = "absent"
        BY <3>2 DEF Verdict
      <4>2. a \notin applied
        BY <1>4, <2>3, <3>2 DEF Answered, Discreet
      <4>3. Promise!SayAbsent(a)
        BY <1>1, <1>4, <2>1, <2>3, <4>1, <4>2 DEF Promise!SayAbsent, Log, Asked, Told
      <4> QED
        BY <4>3 DEF Promise!Next
    <3>3. CASE s.outcome.tag = "Unknown"
      <4>1. Verdict(s.outcome) = "unknown"
        BY <3>3 DEF Verdict
      <4>2. Promise!SayUnknown(a)
        BY <1>1, <1>4, <2>1, <2>3, <4>1 DEF Promise!SayUnknown, Log, Asked, Told
      <4> QED
        BY <4>2 DEF Promise!Next
    <3> QED
      BY <2>3, <3>1, <3>2, <3>3, OutcomeTags
  <2> QED
    BY <1>2, <2>2, <2>3
<1> QED
  BY <1>3, <1>4 DEF Serves

\* Every step of the system is a step of the promise, or none.
LEMMA PromiseStep ==
    IInv /\ [Next]_vars => [Promise!Next]_(Promise!vars)
<1> SUFFICES ASSUME IInv, [Next]_vars
             PROVE  [Promise!Next]_(Promise!vars)
  OBVIOUS
<1>1. ASSUME NEW a \in Actors, Step(a)
      PROVE  [Promise!Next]_(Promise!vars)
  BY <1>1, StepServes, ServesPromise
<1>2. ASSUME NEW a \in Actors, Restart(a)
      PROVE  [Promise!Next]_(Promise!vars)
  BY <1>2, PromiseStutters DEF Restart
<1>3. ASSUME NEW a \in Actors, OfferLate(a)
      PROVE  [Promise!Next]_(Promise!vars)
  BY <1>3, OfferLateStutters, PromiseStutters DEF vars
<1>4. CASE Finished \/ UNCHANGED vars
  BY <1>4, PromiseStutters DEF Finished, vars
<1> QED
  BY <1>1, <1>2, <1>3, <1>4 DEF Next

\* The callers, the drivers and the faulty store keep the promise: a request
\* is published at most once, "committed" is only said of one that is, and
\* "absent" is only said of one that is not and never will be.
THEOREM PromiseKept ==
    Spec => KeepsPromise
<1>1. Spec => []IInv
  BY Invariant
<1>2. Init => Promise!Init
  BY PromiseInit
<1>3. IInv /\ [Next]_vars => [Promise!Next]_(Promise!vars)
  BY PromiseStep
<1> QED
  BY <1>1, <1>2, <1>3, PTL DEF Spec, KeepsPromise, Promise!Spec

=============================================================================
