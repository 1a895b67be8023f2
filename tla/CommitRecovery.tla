--------------------------- MODULE CommitRecovery ---------------------------
(***************************************************************************)
(* Commit programs of several callers on one simulated store: the commit   *)
(* scenario of zeno-fcis-shell, effects/explore.rs, over the terminal of   *)
(* effects/simulation.rs and the driver of effects/driver.rs.              *)
(*                                                                         *)
(* Each actor runs the program once for the request its caller retains.  A *)
(* step is one request answered by the store: the store may answer, fail   *)
(* before the operation, lose its reply after it, or crash the process on  *)
(* either side of the write.  A crashed actor is restarted with `recover'. *)
(* A lost reply stays around and may arrive at any later point; only the   *)
(* driver's binding check keeps it from resuming the program twice.        *)
(*                                                                         *)
(* The cached version of each handle is left out: the simulation writes it *)
(* and nothing reads it (the V2 shell's cached head is SqliteShell's).     *)
(***************************************************************************)
EXTENDS CommitProgram, ShellStore

CONSTANTS
    Actors,        \* the callers, one run each
    Invocations,   \* the requests a caller may retain
    Restarts       \* how often a crashed run is restarted

InvocationType ==
    [handle: Nat, key: Keys, publication: Publications, mode: Modes]

ASSUME InvocationsAssumption == Invocations \subseteq InvocationType
ASSUME RestartsAssumption == Restarts \in Nat

VARIABLES
    durable,       \* D: the store
    invocation,    \* the request each caller retains
    cont,          \* each actor's continuation
    status,        \* "waiting" for an answer, "done", or "crashed"
    outcome,       \* the outcome of each run that is done
    incarnation,   \* restarts so far; with the actor it is the epoch
    late,          \* answers whose reply was lost, with their binding
    applied        \* history variable: actors whose request the store applied

vars == <<durable, invocation, cont, status, outcome, incarnation, late, applied>>

Init ==
    /\ durable = Genesis
    /\ invocation \in [Actors -> Invocations]
    /\ cont = [a \in Actors |-> Start(invocation[a])]
    /\ status = [a \in Actors |-> "waiting"]
    /\ outcome = [a \in Actors |-> NoOutcome]
    /\ incarnation = [a \in Actors |-> 0]
    /\ late = {}
    /\ applied = {}

-----------------------------------------------------------------------------
(* The driver: what binds a reply to the request that asked for it. *)

Epoch(a) == <<a, incarnation[a]>>

\* Only a commit request has a subject, its publication's.
Subject(a) ==
    IF cont[a].phase = "Commit" THEN <<invocation[a].publication>> ELSE << >>

Binding(a) ==
    [epoch |-> Epoch(a), ordinal |-> cont[a].ordinal, port |-> cont[a].phase,
     handle |-> invocation[a].handle, subject |-> Subject(a)]

Admits(a, b) == Bound(status[a] = "waiting", Binding(a), b)

\* Driver::reply and the program's resume, once per admitted reply.
Reply(a, b, o) ==
    LET step == Resume(cont[a], invocation[a], o)
    IN  IF ~Admits(a, b) THEN UNCHANGED <<cont, status, outcome>>
        ELSE IF step.tag = "Request"
        THEN /\ cont' = [cont EXCEPT ![a] = step.cont]
             /\ UNCHANGED <<status, outcome>>
        ELSE /\ status' = [status EXCEPT ![a] = "done"]
             /\ outcome' = [outcome EXCEPT ![a] = step.outcome]
             /\ UNCHANGED cont

Answer(a, o) == Reply(a, Binding(a), o)

-----------------------------------------------------------------------------
(* The simulated terminal. *)

Crash(a) ==
    /\ status' = [status EXCEPT ![a] = "crashed"]
    /\ UNCHANGED <<cont, outcome>>

\* Simulation::read: answer, fail before the operation, or crash.
Read(a, o) ==
    /\ \/ Answer(a, o)
       \/ \E fault \in Faults : Answer(a, NotApplied(fault))
       \/ Crash(a)
    /\ UNCHANGED <<durable, late, applied>>

WriteApplies(a, after) ==
    /\ durable' = after
    /\ applied' = applied \cup {a}

WriteFails == UNCHANGED <<durable, applied>>

\* Simulation::write: answer, fail before the write, an ambiguous reply on
\* either side of the write, or a crash on either side of it.
Write(a, after, o) ==
    \/ WriteApplies(a, after) /\ Answer(a, o) /\ UNCHANGED late
    \/ WriteFails /\ (\E fault \in Faults : Answer(a, NotApplied(fault))) /\ UNCHANGED late
    \/ WriteFails /\ Answer(a, Unknown("Io")) /\ UNCHANGED late
    \/ /\ WriteApplies(a, after)
       /\ Answer(a, Unknown("Io"))
       /\ late' = late \cup {[binding |-> Binding(a), actor |-> a, response |-> o]}
    \/ WriteFails /\ Crash(a) /\ UNCHANGED late
    \/ WriteApplies(a, after) /\ Crash(a) /\ UNCHANGED late

CommitStep(a) ==
    LET inv == invocation[a]
        decision == Decide(durable, inv.key, inv.publication, cont[a].mode)
    IN  /\ status[a] = "waiting"
        /\ cont[a].phase = "Commit"
        /\ CASE decision.tag = "Refuse" -> Read(a, Refused(decision.code))
             [] decision.tag = "Replay" -> Read(a, Ok(decision.receipt))
             [] decision.tag = "Apply" -> Write(a, decision.after, Ok(decision.receipt))
        /\ UNCHANGED <<invocation, incarnation>>

\* Reopen answers the checked head; the program looks only at its success.
ReopenStep(a) ==
    /\ status[a] = "waiting"
    /\ cont[a].phase = "Reopen"
    /\ Read(a, Ok(durable.commits))
    /\ UNCHANGED <<invocation, incarnation>>

HistoryStep(a) ==
    /\ status[a] = "waiting"
    /\ cont[a].phase = "History"
    /\ Read(a, Ok(durable.commits))
    /\ UNCHANGED <<invocation, incarnation>>

-----------------------------------------------------------------------------
(* The scheduler of the exploration. *)

\* A restarted commit recovers: its retained request, in a new epoch.
Restart(a) ==
    /\ status[a] = "crashed"
    /\ incarnation[a] < Restarts
    /\ incarnation' = [incarnation EXCEPT ![a] = @ + 1]
    /\ cont' = [cont EXCEPT ![a] = Recover(invocation[a])]
    /\ status' = [status EXCEPT ![a] = "waiting"]
    /\ UNCHANGED <<durable, invocation, outcome, late, applied>>

\* A lost reply arrives after all, at its owner's driver.
OfferLate(a) ==
    /\ \E l \in late : l.actor = a /\ Reply(a, l.binding, l.response)
    /\ UNCHANGED <<durable, invocation, incarnation, late, applied>>

Ended(a) == status[a] = "done" \/ (status[a] = "crashed" /\ incarnation[a] = Restarts)

\* Every run has ended.
Finished == (\A a \in Actors : Ended(a)) /\ UNCHANGED vars

Step(a) == CommitStep(a) \/ ReopenStep(a) \/ HistoryStep(a)

Next ==
    \/ \E a \in Actors : Step(a) \/ Restart(a) \/ OfferLate(a)
    \/ Finished

Spec == Init /\ [][Next]_vars

-----------------------------------------------------------------------------
(* Properties. *)

Receipts ==
    [version: Nat, chain: Seq(Publications), status: {"Committed", "IdempotentReplay"}]

Codes == {"Concurrent", "Replay", "Identity", "PreState", "Capacity", "Range"}

Outcomes ==
    [tag: {"Ok"}, value: Receipts] \cup [tag: {"Refused"}, code: Codes]
      \cup [tag: {"NotApplied", "Unknown"}, fault: Faults]

\* Type invariant: the values the drivers, the store and the callers hold.
TypeOK ==
    /\ durable.commits \in Seq(Entries)
    /\ durable.receipts \in Seq(Seq(Publications))
    /\ durable.state \in 0 .. MaxCount
    /\ invocation \in [Actors -> Invocations]
    /\ cont \in [Actors -> Continuations]
    /\ status \in [Actors -> {"waiting", "done", "crashed"}]
    /\ \A a \in Actors : outcome[a] \in IF status[a] = "done" THEN Outcomes ELSE {NoOutcome}
    /\ incarnation \in [Actors -> 0 .. Restarts]
    /\ applied \subseteq Actors

\* The counter after the first i commits, from their inputs alone.
StateAfter(d, i) ==
    IF i = 0 THEN 0 ELSE d.commits[i].publication.prestate + d.commits[i].publication.body

\* The store is the fold of its history: every commit was computed for the
\* state its predecessor left, state, chain, receipts, replay keys and outbox
\* all belong to the same commits, and no key was applied twice.  A crash or
\* a lost reply never leaves part of a commit behind.
StoreIsFold ==
    LET d == durable
        n == Version(d)
    IN  /\ \A i \in 1 .. n :
             /\ d.commits[i].version = i
             /\ d.commits[i].publication.prestate = StateAfter(d, i - 1)
             /\ d.receipts[i] = [j \in 1 .. i |-> d.commits[j].publication]
             /\ d.replays[i] = d.commits[i].key
             /\ \A j \in 1 .. n : d.replays[i] = d.replays[j] => i = j
             /\ \A o \in 0 .. 1 :
                  LET record == d.outbox[2 * i - 1 + o]
                  IN  record.id = DeliveryId(d.receipts[i], o) /\ record.payload = StateAfter(d, i)
        /\ d.state = StateAfter(d, n)
        /\ Len(d.receipts) = n /\ Len(d.replays) = n /\ Len(d.outbox) = 2 * n
        /\ n > 0 => d.chain = d.receipts[n]

\* A receipt is the original commit of the caller's own key and publication,
\* however often the request was retried, crashed or recovered.
ReceiptIsOriginal ==
    \A a \in Actors : outcome[a].tag = "Ok" =>
        LET v == outcome[a].value.version
        IN  /\ v \in 1 .. Version(durable)
            /\ durable.commits[v].key = invocation[a].key
            /\ durable.commits[v].publication = invocation[a].publication
            /\ outcome[a].value.chain = durable.receipts[v]

\* A run that ends Refused or NotApplied did not publish: neither its last
\* commit nor any earlier commit of the same run, one whose reply was lost
\* or that a crash cut off included.
RefusedMeansAbsent ==
    \A a \in Actors : outcome[a].tag \in {"Refused", "NotApplied"} => a \notin applied

\* While a run that published is still waiting, its driver's program knows:
\* it carries an uncertainty, and unless it is about to read the history, its
\* commit carries no version guard that could refuse the replay.
PublishedRunIsUncertain ==
    \A a \in Actors : a \in applied /\ status[a] = "waiting" =>
        /\ cont[a].unknown # NoFault
        /\ cont[a].phase = "Commit" => cont[a].mode = Unversioned

\* A reply that was lost and arrives late is refused at every later point:
\* no program is resumed by an answer to an earlier request or epoch.
LateRefused ==
    \A l \in late : ~Admits(l.actor, l.binding)

\* The retry budget bounds the whole run: three requests for each retry
\* spent, two more when the run starts by recovering.
RequestBudget ==
    \A a \in Actors :
        cont[a].ordinal
          + (CASE cont[a].phase = "Reopen" -> 2
               [] cont[a].phase = "History" -> 1
               [] cont[a].phase = "Commit" -> 0)
        <= 3 * (Retries - cont[a].retries) + (IF incarnation[a] = 0 THEN 0 ELSE 2)

Verdict(o) ==
    CASE o.tag = "None" -> "none"
      [] o.tag = "Ok" -> "committed"
      [] o.tag \in {"Refused", "NotApplied"} -> "absent"
      [] o.tag = "Unknown" -> "unknown"

\* The caller's promise, with the store's history as the published log.
Promise == INSTANCE PublishOnce WITH
    Callers   <- Actors,
    Requests  <- {[key |-> inv.key, publication |-> inv.publication] : inv \in Invocations},
    request   <- [a \in Actors |-> [key |-> invocation[a].key,
                                    publication |-> invocation[a].publication]],
    log       <- [i \in 1 .. Len(durable.commits) |->
                    [key |-> durable.commits[i].key,
                     publication |-> durable.commits[i].publication]],
    published <- applied,
    verdict   <- [a \in Actors |-> Verdict(outcome[a])]

\* Every behaviour of the callers, the drivers and the faulty store is one
\* of the promise: published at most once, and never after "absent" was said.
KeepsPromise == Promise!Spec
=============================================================================
