--------------------------- MODULE DurableIngress ---------------------------
(***************************************************************************)
(* The serial endpoint of zeno-fcis-ingress, durable.rs: it answers        *)
(* clients' commands from one store, through the commit program and the    *)
(* delivery program, and keeps the audited head and commits of the store   *)
(* in memory between requests.                                             *)
(*                                                                         *)
(* A step is one operation of the terminal.  An operation may answer, fail,*)
(* or be lost with its reply; the process may die between any two and a    *)
(* new one starts with an empty cache.  Clients repeat a command until it  *)
(* is answered, and may repeat an answered one.                            *)
(*                                                                         *)
(* The store's answers are those of the production terminal over the V2    *)
(* shell, at the grain of whole operations.  Another connection may write  *)
(* at any time, also between an operation's synchronize() and its BEGIN    *)
(* IMMEDIATE, where V2 refuses with Concurrent.  An exclusive terminal     *)
(* that has seen an outside write, or has reopened, refuses everything     *)
(* with History; a handle whose own commit took effect behind an error     *)
(* keeps its old anchor and refuses with Concurrent until it audits again. *)
(*                                                                         *)
(* A command's `key' is its replay key, which already holds the principal  *)
(* and the contract, and `body' its bytes.  A principal's context is the   *)
(* same at every request (execute), so the context of a replayed entry     *)
(* always belongs to it.  Authority's decision is the counter application  *)
(* of ShellStore; it always binds the publication it decided itself.       *)
(* Traces are left out.                                                    *)
(***************************************************************************)
EXTENDS CommitProgram, ShellStore

CONSTANTS
    Clients,       \* who sends commands
    Command,       \* the command of each client
    NoClient,      \* whom verified_snapshot serves
    OtherCommits,  \* [key, body] other connections may commit
    MaxOther,      \* how often they write
    MaxFailures    \* operations that fail, and processes that die, in all

Commands == [key: Keys, body: Nat, expected: Nat, bound: BOOLEAN]

ASSUME IngressAssumption ==
    /\ Command \in [Clients -> Commands]
    /\ NoClient \notin Clients
    /\ OtherCommits \subseteq [key: Keys, body: Nat]
    /\ MaxOther \in Nat /\ MaxFailures \in Nat

\* The endpoint commits with two retries, of at most three requests each;
\* ordinals are 64 bits wide and do not run out.
ASSUME OrdinalAssumption == 3 * Retries <= MaxOrdinal

VARIABLES
    durable,      \* the store behind the terminal
    exclusive,    \* the terminal is an exclusive one
    closed,       \* it is invalidated: an exclusive one only
    behind,       \* its anchor misses a commit of its own
    head,         \* << >> or <<the cached snapshot>>
    commits,      \* the cached entries
    phase,        \* "idle", or the operation the endpoint waits for
    client,       \* whose command it serves
    invocation,   \* the commit it asks for: key, publication, mode
    cont,         \* the commit program's continuation
    receipt,      \* the commit program's receipt
    replies,      \* the definite answers each client has got
    failures,     \* failures so far
    others,       \* writes of other connections so far
    applied,      \* history: clients whose command this endpoint applied
    disturbed     \* history: another connection has written since the head
                  \* was last verified

terminal == <<exclusive, closed, behind>>
cache == <<head, commits>>
request == <<client, invocation, cont, receipt>>
environment == <<failures, others>>
history == <<applied, disturbed>>
vars == <<durable, terminal, cache, phase, request, replies, environment, history>>

Snapshot(d) == [version |-> Version(d), chain |-> d.chain, state |-> d.state]

NoInvocation ==
    [key |-> NoClient, mode |-> Unversioned,
     publication |-> [prestate |-> 0, body |-> 0, genuine |-> FALSE, size |-> 0]]

NoReceipt == Receipt(0, << >>, "None")

Init ==
    /\ durable = Genesis
    /\ exclusive \in BOOLEAN /\ closed = FALSE /\ behind = FALSE
    /\ head = << >> /\ commits = {}
    /\ phase = "idle" /\ client = NoClient
    /\ invocation = NoInvocation /\ cont = Start(NoInvocation) /\ receipt = NoReceipt
    /\ replies = [c \in Clients |-> {}]
    /\ failures = 0 /\ others = 0
    /\ applied = {} /\ disturbed = FALSE

-----------------------------------------------------------------------------
(* Answers. *)

Packet(publication, r) == [tag |-> "Packet", publication |-> publication, receipt |-> r]
Refusal(code) == [tag |-> "Refusal", code |-> code]

\* The request is over; what it left behind is dropped.
Release ==
    /\ phase' = "idle" /\ client' = NoClient
    /\ invocation' = NoInvocation /\ cont' = Start(NoInvocation) /\ receipt' = NoReceipt

Tell(c, answer) ==
    /\ Release
    /\ replies' = [replies EXCEPT ![c] = @ \cup {answer}]

\* Refusal::Unavailable says nothing; the client may ask again.
Unavailable == Release /\ UNCHANGED replies

Goes == UNCHANGED failures
Fails == failures < MaxFailures /\ failures' = failures + 1
FailsOr(refuses) == Fails \/ (Goes /\ refuses)

Proceed(to) == phase' = to /\ UNCHANGED <<request, replies>>

-----------------------------------------------------------------------------
(* The terminal, and other connections to its file. *)

\* Operations on the handle's cached tip are refused.
Barred == closed \/ behind
BarredCode == IF closed THEN "History" ELSE "Concurrent"

\* A connection other than the handle has written: an exclusive terminal is
\* invalidated by it, another one audits anew before its next operation.
Overtaken == closed' = exclusive /\ behind' = FALSE /\ UNCHANGED exclusive

\* What a write of another connection may leave: an audit's checkpoint, which
\* is no part of d, or a commit.
OthersLeave(d) ==
    {d} \cup {Applied(d, o.key, [prestate |-> d.state, body |-> o.body,
                                genuine |-> TRUE, size |-> 1]) :
                o \in {o \in OtherCommits : ~HasKey(d, o.key) /\ d.state + o.body <= MaxCount}}

\* Another connection writes, when the handle has left d.
Interfere(d) ==
    /\ others < MaxOther
    /\ others' = others + 1
    /\ durable' \in OthersLeave(d)
    /\ Overtaken
    /\ disturbed' = TRUE

\* Nobody does during this operation.
Alone == UNCHANGED <<others, disturbed>>

-----------------------------------------------------------------------------
(* Accepting a request, load and verified_head. *)

\* execute_admitted's binding check; the cache decides where load starts.
Accept(c) ==
    /\ phase = "idle"
    /\ IF ~Command[c].bound THEN Tell(c, Refusal("Binding"))
       ELSE /\ client' = c
            /\ phase' = IF head = << >> THEN "history" ELSE "state"
            /\ UNCHANGED <<invocation, cont, receipt, replies>>
    /\ UNCHANGED <<durable, terminal, cache, environment, history>>

\* A client asks until it has a definite answer, and may ask once more.
Ask(c) == replies[c] = {} /\ Accept(c)
AskAgain(c) == replies[c] # {} /\ Accept(c)

\* verified_snapshot: the same load and check, for nobody's command.
Inspect ==
    /\ phase = "idle"
    /\ phase' = IF head = << >> THEN "history" ELSE "state"
    /\ UNCHANGED <<durable, terminal, cache, request, replies, environment, history>>

Entry(d, i) == d.commits[i]
EntriesTo(d, n) == {Entry(d, i) : i \in 1 .. n}

\* Versions count from one and no key comes twice.
WellFormed(d) ==
    \A i, j \in 1 .. Version(d) :
        Entry(d, i).version = i /\ (Entry(d, i).key = Entry(d, j).key => i = j)

\* ReadHistory audits on a read-only connection, whatever the handle's anchor.
Load ==
    /\ phase = "history"
    /\ \/ /\ Goes /\ ~closed
          /\ IF WellFormed(durable)
             THEN /\ commits' = EntriesTo(durable, Version(durable))
                  /\ head' = <<Snapshot(durable)>>
                  /\ Proceed("state")
             ELSE /\ IF client = NoClient THEN Unavailable ELSE Tell(client, Refusal("Binding"))
                  /\ UNCHANGED cache
       \/ FailsOr(closed) /\ Unavailable /\ UNCHANGED cache
    /\ UNCHANGED <<durable, terminal, others, history>>

Originals(key) == {e \in commits : e.key = key}

\* Mutant: the version of the original is not compared.
ReplaysAnyVersion(c, e) == e.publication.body = Command[c].body

\* The stored original is this command's: same bytes, same expected version.
Replays(c, e) ==
    /\ e.publication.body = Command[c].body
    /\ e.version = Command[c].expected + 1

Begin(c, publication, mode) ==
    LET i == [key |-> Command[c].key, publication |-> publication, mode |-> mode]
    IN  /\ invocation' = i
        /\ cont' = Start(i)
        /\ phase' = "commit"
        /\ UNCHANGED <<client, receipt, replies>>

\* The replay of an original, or a new decision on the verified head.
Plan(c) ==
    LET now == head[1]
        body == Command[c].body
    IN  IF Originals(Command[c].key) # {}
        THEN LET e == CHOOSE e \in Originals(Command[c].key) : TRUE
             IN  IF Replays(c, e) THEN Begin(c, e.publication, Unversioned)
                 ELSE Tell(c, Refusal("Replay"))
        ELSE IF now.version # Command[c].expected THEN Tell(c, Refusal("Conflict"))
        ELSE IF now.state + body > MaxCount THEN Tell(c, Refusal("Decision"))
        ELSE Begin(c, [prestate |-> now.state, body |-> body, genuine |-> TRUE, size |-> 1],
                   At(Command[c].expected))

\* The terminal's tip against the cached head.  A head that has moved, like
\* any failure, is refused and the cache is kept.
VerifyHead ==
    /\ phase = "state"
    /\ \/ /\ Goes /\ ~Barred
          /\ IF Snapshot(durable) # head[1] \/ client = NoClient THEN Unavailable
             ELSE Plan(client)
          /\ disturbed' = FALSE
          /\ UNCHANGED <<durable, terminal, others>>
       \/ /\ FailsOr(Barred) /\ Unavailable
          /\ UNCHANGED <<durable, terminal>> /\ Alone
       \/ Goes /\ Interfere(durable) /\ Unavailable
    /\ UNCHANGED <<cache, applied>>

-----------------------------------------------------------------------------
(* The commit run. *)

DropHead == head' = << >> /\ UNCHANGED commits

\* Mutant: a failed commit leaves the cached head in place.
CommitFailedKeepsHead(o) ==
    /\ UNCHANGED cache
    /\ IF o.tag = "Refused"
       THEN Tell(client, Refusal(IF o.code = "Replay" THEN "Replay" ELSE "Conflict"))
       ELSE Unavailable

\* The cache is dropped whatever the failure: only the audited history says
\* what an uncertain commit did.
CommitFailed(o) ==
    /\ DropHead
    /\ IF o.tag = "Refused"
       THEN Tell(client, Refusal(IF o.code = "Replay" THEN "Replay" ELSE "Conflict"))
       ELSE Unavailable

\* One reply of the terminal to the commit program.
Answer(o) ==
    LET step == Resume(cont, invocation, o)
    IN  IF step.tag = "Request"
        THEN cont' = step.cont /\ UNCHANGED <<cache, phase, client, invocation, receipt, replies>>
        ELSE IF step.outcome.tag = "Ok"
        THEN /\ receipt' = step.outcome.value
             /\ phase' = "confirm"
             /\ UNCHANGED <<cache, client, invocation, cont, replies>>
        ELSE CommitFailed(step.outcome)

\* Handled::Crash or Suspend ends the run without an outcome.
Lost == DropHead /\ Unavailable

\* The operation fails before its effect, or is lost.
NoEffect == Fails /\ (Lost \/ \E fault \in Faults : Answer(NotApplied(fault)))

\* Production::reopen.  A new connection audits, which saves a checkpoint: an
\* exclusive terminal sees a foreign write in it.  A reopen may fail after
\* its audit, and other connections may write after it.
CommitReopen ==
    /\ phase = "commit" /\ cont.phase = "Reopen"
    /\ \/ /\ Goes /\ Overtaken
          /\ Answer(IF exclusive THEN Refused("History") ELSE Ok(durable.commits))
          /\ UNCHANGED durable /\ Alone
       \/ /\ NoEffect /\ (Overtaken \/ UNCHANGED terminal)
          /\ UNCHANGED durable /\ Alone
       \/ Goes /\ Interfere(durable) /\ Answer(Refused("Concurrent"))
    /\ UNCHANGED applied

CommitHistory ==
    /\ phase = "commit" /\ cont.phase = "History"
    /\ \/ Goes /\ Answer(IF closed THEN Refused("History") ELSE Ok(durable.commits))
       \/ NoEffect
    /\ UNCHANGED <<durable, terminal, others, history>>

Apply1(after) == durable' = after /\ applied' = applied \cup {client}

Untouched == UNCHANGED <<durable, applied>>

\* The commit on the synchronized tip.  COMMIT may take effect and yet report
\* an error; then the handle's anchor stays where it was.
Publish(decision) ==
    \/ /\ CASE decision.tag = "Refuse" -> Answer(Refused(decision.code)) /\ Untouched
             [] decision.tag = "Replay" -> Answer(Ok(decision.receipt)) /\ Untouched
             [] decision.tag = "Apply" -> Answer(Ok(decision.receipt)) /\ Apply1(decision.after)
       /\ Goes /\ UNCHANGED terminal
    \/ /\ decision.tag = "Apply" /\ Apply1(decision.after) /\ Fails
       /\ \/ Answer(Unknown("Io")) /\ behind' = TRUE /\ UNCHANGED <<exclusive, closed>>
          \/ Lost /\ UNCHANGED terminal
    \/ Fails /\ Answer(Unknown("Io")) /\ Untouched /\ UNCHANGED terminal

\* A replay without a version guard is refused like any commit when another
\* connection writes before its transaction.
CommitWrite ==
    /\ phase = "commit" /\ cont.phase = "Commit"
    /\ \/ /\ ~Barred /\ Alone
          /\ Publish(Decide(durable, invocation.key, invocation.publication, cont.mode))
       \/ /\ NoEffect \/ (Goes /\ Barred /\ Answer(Refused(BarredCode)))
          /\ Untouched /\ UNCHANGED terminal /\ Alone
       \/ Goes /\ Interfere(durable) /\ Answer(Refused("Concurrent")) /\ UNCHANGED applied

-----------------------------------------------------------------------------
(* After the receipt. *)

\* Mutant: only the receipt's version is compared with the store.
IsSuccessorOfReceipt(actual) == actual.version >= receipt.version

\* The store moved by exactly this commit since the verified head.
IsSuccessor(actual) ==
    /\ actual.version = head[1].version + 1
    /\ actual.version = receipt.version
    /\ actual.chain = receipt.chain
    /\ actual.state = invocation.publication.prestate + invocation.publication.body

NewEntry ==
    [key |-> invocation.key, version |-> receipt.version, publication |-> invocation.publication]

\* An original was replayed without a version guard.
Replayed == invocation.mode = Unversioned

Confirm ==
    /\ phase = "confirm"
    /\ \/ /\ Goes /\ ~Barred
          /\ LET actual == Snapshot(durable)
             IN  CASE Replayed /\ actual = head[1] -> Proceed("deliver") /\ UNCHANGED cache
                   [] Replayed /\ actual # head[1] -> Unavailable /\ UNCHANGED cache
                   [] ~Replayed /\ IsSuccessor(actual) ->
                        /\ commits' = commits \cup {NewEntry}
                        /\ head' = <<actual>>
                        /\ Proceed("deliver")
                   [] ~Replayed /\ ~IsSuccessor(actual) -> DropHead /\ Unavailable
          /\ UNCHANGED <<durable, terminal>> /\ Alone
       \/ /\ FailsOr(Barred) /\ DropHead /\ Unavailable
          /\ UNCHANGED <<durable, terminal>> /\ Alone
       \/ Goes /\ Interfere(durable) /\ DropHead /\ Unavailable
    /\ UNCHANGED applied

Lane(d, ordinal) == {i \in 1 .. Len(d.outbox) : ~d.outbox[i].acked /\ d.outbox[i].ordinal = ordinal}

\* What a delivery run of start_per_destination may leave acknowledged: in
\* each destination the oldest pending records up to some point.  (A commit's
\* deliveries go to one destination each.)
DeliveredSets(d) ==
    {A \in SUBSET (Lane(d, 0) \cup Lane(d, 1)) :
        \A o \in 0 .. 1 : \A i \in A \cap Lane(d, o), j \in Lane(d, o) : j < i => j \in A}

Acknowledge(d, A) ==
    [d EXCEPT !.outbox = [i \in 1 .. Len(d.outbox) |->
                            [d.outbox[i] EXCEPT !.acked = @ \/ i \in A]]]

\* The delivery run, whose outcome is ignored, and the packet.  A failure, or
\* a write of another connection, may stop the run at any record.
Deliver ==
    /\ phase = "deliver"
    /\ \/ /\ Goes /\ UNCHANGED terminal /\ Alone
          /\ durable' = IF closed THEN durable
                        ELSE Acknowledge(durable, Lane(durable, 0) \cup Lane(durable, 1))
       \/ /\ ~closed /\ Fails /\ UNCHANGED terminal /\ Alone
          /\ \E A \in DeliveredSets(durable) : durable' = Acknowledge(durable, A)
       \/ /\ ~closed /\ Goes
          /\ \E A \in DeliveredSets(durable) : Interfere(Acknowledge(durable, A))
    /\ Tell(client, Packet(invocation.publication, receipt))
    /\ UNCHANGED <<cache, applied>>

-----------------------------------------------------------------------------
(* The process and the world around it. *)

\* The process dies and another one opens the store anew.
Die ==
    /\ Fails
    /\ head' = << >> /\ commits' = {}
    /\ Unavailable
    /\ closed' = FALSE /\ behind' = FALSE
    /\ UNCHANGED <<durable, exclusive, others, history>>

OtherWrite ==
    /\ Interfere(durable)
    /\ UNCHANGED <<cache, phase, request, replies, failures, applied>>

Serve ==
    \/ Load \/ VerifyHead
    \/ CommitReopen \/ CommitHistory \/ CommitWrite
    \/ Confirm \/ Deliver

Next ==
    \/ \E c \in Clients : Ask(c) \/ AskAgain(c)
    \/ Inspect
    \/ Serve
    \/ Die
    \/ OtherWrite

\* Operations return, and a client that keeps asking is not passed over for
\* ever; nothing is assumed of repeated commands and inspections.
Spec ==
    /\ Init /\ [][Next]_vars
    /\ WF_vars(Serve)
    /\ \A c \in Clients : SF_vars(Ask(c))
-----------------------------------------------------------------------------
(* Properties. *)

\* While a head is cached, head and entries are exactly the store's audited
\* history up to the head's version: a request is never judged by a list
\* that misses a commit the head counts.  Between requests the head is also
\* the store's, unless another connection has written: an uncertain
\* commit of the endpoint itself never leaves a stale head behind.
CacheIsAudited ==
    head # << >> =>
        LET n == head[1].version
        IN  /\ n <= Version(durable)
            /\ commits = EntriesTo(durable, n)
            /\ head[1].chain = SubSeq(durable.chain, 1, n)
            /\ others = 0 /\ phase = "idle" => head[1] = Snapshot(durable)

\* The packet answers the command with its commit in d.
TrueOf(c, answer, d) ==
    LET v == Command[c].expected + 1
    IN  /\ answer.receipt.version = v
        /\ v <= Version(d)
        /\ Entry(d, v).key = Command[c].key
        /\ Entry(d, v).publication = answer.publication
        /\ answer.publication.body = Command[c].body
        /\ answer.receipt.chain = SubSeq(d.chain, 1, v)

\* Every answer is true.  A packet is the one commit of the command's key
\* and bytes, on top of the version the command expected, however often it
\* was repeated.  A command this endpoint has applied, even in a request that
\* was answered Unavailable or died, is refused afterwards only as Conflict
\* and only if another connection has written since this request verified
\* the head: no fault, lost reply, reopen or restart alone does it.
AnswersHold ==
    [][\A c \in Clients : \A answer \in replies'[c] \ replies[c] :
          IF answer.tag = "Packet" THEN TrueOf(c, answer, durable')
          ELSE c \in applied' => answer.code = "Conflict" /\ disturbed']_vars

\* A client that repeats its command gets a definite answer once operations
\* stop failing, unless another connection has written: no uncertain commit
\* keeps the endpoint unavailable, but one whose handle can no longer be
\* used, as it is invalidated or its anchor is never audited again.
Served ==
    \A c \in Clients :
        <>(replies[c] # {} \/ others > 0) \/ <>[](closed \/ behind)
=============================================================================
