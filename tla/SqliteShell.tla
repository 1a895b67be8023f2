---------------------------- MODULE SqliteShell -----------------------------
(***************************************************************************)
(* Handles on one V2 SQLite store (zeno-fcis-shell-sqlite, v2.rs,          *)
(* v2/delivery.rs, v2/relay.rs) and the terminal that mounts each of them  *)
(* (effects/production.rs).                                                *)
(*                                                                         *)
(* A handle caches the head it last audited and SQLite's data_version.     *)
(* Every operation first synchronizes (audits if another connection wrote) *)
(* and then, after a gap in which others may write, opens an immediate     *)
(* transaction, compares the cache with the store again, and works.  A     *)
(* commit writes the state row, the commit row and the delivery rows one   *)
(* statement at a time; a process may crash between any two of them.       *)
(*                                                                         *)
(* SQLite itself is external: one connection at a time holds the write     *)
(* lock, uncommitted rows are private to it, a rollback or a crash drops   *)
(* them, and data_version changes for a connection exactly when another    *)
(* connection has committed a write.  `stale' says that it differs from    *)
(* the cached value.  Checkpoint rows are left out, nothing modelled here  *)
(* reads them, but saving one is a write that others notice.               *)
(***************************************************************************)
EXTENDS Ports, Sequences

CONSTANTS
    Keys,          \* replay keys
    Handles,       \* the terminals, one process each
    Calls,         \* the operations a caller may ask a terminal for
    Exclusive,     \* terminals opened with open_exclusive
    MaxSequence,   \* largest commit sequence (i64::MAX)
    None           \* no handle holds the write lock

\* What the chain hash of a commit is computed from.
Links == [key: Keys, publication: Publications]

DeliveryIds == [chain: Seq(Links), ordinal: 0 .. 1]

CallType ==
    [kind: {"Commit"}, key: Keys, publication: Publications, mode: Modes]
      \cup [kind: {"Read", "Checkpoint", "Audit", "Reopen"}]
      \cup [kind: {"Acknowledge"}, id: DeliveryIds]

ASSUME ShellAssumption ==
    /\ Calls \subseteq CallType
    /\ Exclusive \subseteq Handles
    /\ MaxSequence \in Nat
    /\ None \notin Handles

VARIABLES
    db,           \* the committed tables
    lock,         \* who holds the write lock
    work,         \* the tables as the lock's holder sees them
    view,         \* each connection's cached anchor, and whether it is stale
    call,         \* the operation under way in each terminal
    answer,       \* the answer to each terminal's last operation
    invalidated,  \* exclusive terminals that refuse everything
    wrote         \* history variable: the last operation changed db

vars == <<db, lock, work, view, call, answer, invalidated, wrote>>

-----------------------------------------------------------------------------
(* The tables. *)

EmptyTables ==
    [sequence |-> 0, state |-> 0, chain |-> << >>, commits |-> << >>, outbox |-> << >>]

\* read_anchor: the singleton state row.
Anchor(tables) ==
    [sequence |-> tables.sequence, state |-> tables.state, chain |-> tables.chain]

\* The chain is the hash of a certificate over the key and the publication.
Chained(anchor, op) ==
    Append(anchor.chain, [key |-> op.key, publication |-> op.publication])

Moved(anchor, op) ==
    [sequence |-> anchor.sequence + 1,
     state    |-> op.publication.prestate + op.publication.body,
     chain    |-> Chained(anchor, op)]

Rows(tables, key) == {i \in 1 .. Len(tables.commits) : tables.commits[i].key = key}

Found(tables, id) == {i \in 1 .. Len(tables.outbox) : tables.outbox[i].id = id}

-----------------------------------------------------------------------------
(* Connections: a terminal's own, and the one a reopen is establishing. *)

Conns == Handles \X {"held", "fresh"}

Closed == [open |-> FALSE, anchor |-> Anchor(EmptyTables), stale |-> FALSE]

Current(tables) == [open |-> TRUE, anchor |-> Anchor(tables), stale |-> FALSE]

\* The views once connection c has committed a write.
Noticed(views, c) ==
    [x \in Conns |-> IF x = c \/ ~views[x].open THEN views[x]
                     ELSE [views[x] EXCEPT !.stale = TRUE]]

Idle == [at |-> "idle"]

\* Answers that carry no receipt.
HeadRead == Ok([status |-> "Head"])
Acknowledged == Ok([status |-> "Acknowledged"])

\* An operation under way: the step it is at; an acknowledgement goes twice
\* through synchronize and BEGIN (pending_by_id, then acknowledge).
Under(op, at, round) == [at |-> at, op |-> op, round |-> round]

Conn(h) == IF call[h].op.kind = "Reopen" THEN <<h, "fresh">> ELSE <<h, "held">>

MyView(h) == view[Conn(h)]

Goto(h, at) == call' = [call EXCEPT ![h].at = at]

\* The operation ends; a connection a reopen did not adopt is dropped.
Finish(h, o, views) ==
    /\ call' = [call EXCEPT ![h] = Idle]
    /\ answer' = [answer EXCEPT ![h] = o]
    /\ view' = [views EXCEPT ![<<h, "fresh">>] = Closed]

Rollback(h) ==
    /\ lock' = IF lock = h THEN None ELSE lock
    /\ work' = IF lock = h THEN db ELSE work

Init ==
    /\ db = EmptyTables /\ work = EmptyTables /\ lock = None
    /\ view = [c \in Conns |-> IF c[2] = "held" THEN Current(EmptyTables) ELSE Closed]
    /\ call = [h \in Handles |-> Idle]
    /\ answer = [h \in Handles |-> NoOutcome]
    /\ invalidated = [h \in Handles |-> FALSE]
    /\ wrote = [h \in Handles |-> FALSE]

-----------------------------------------------------------------------------
(* Production::handle up to the V2 call. *)

\* external_change: only an exclusive terminal asks.
Changed(h) ==
    h \in Exclusive /\ view[<<h, "held">>].open /\ view[<<h, "held">>].stale

FirstStep(op) == IF op.kind \in {"Audit", "Reopen"} THEN "audit" ELSE "sync"

Begin(h, op) ==
    LET held == op.kind # "Reopen" /\ view[<<h, "held">>].open
        refusal == IF invalidated[h] \/ Changed(h) THEN "History"
                   ELSE IF op.kind = "Commit" /\ ~op.publication.genuine THEN "Identity"
                   ELSE "none"
    IN  /\ call[h] = Idle
        /\ invalidated' = [invalidated EXCEPT ![h] = @ \/ Changed(h)]
        /\ wrote' = [wrote EXCEPT ![h] = FALSE]
        /\ IF refusal # "none"
           THEN answer' = [answer EXCEPT ![h] = Refused(refusal)] /\ UNCHANGED call
           ELSE /\ call' = [call EXCEPT
                              ![h] = Under(op, IF held THEN FirstStep(op) ELSE "open", 1)]
                /\ answer' = [answer EXCEPT ![h] = NoOutcome]
        /\ UNCHANGED <<db, lock, work, view>>

-----------------------------------------------------------------------------
(* Opening, auditing, synchronizing. *)

\* V2SqliteShell::open audits the whole store in a transaction of its own.
OpenStep(h) ==
    /\ call[h].at = "open" /\ lock = None
    /\ view' = [view EXCEPT ![Conn(h)] = Current(db)]
    /\ Goto(h, FirstStep(call[h].op))
    /\ UNCHANGED <<db, lock, work, answer, invalidated, wrote>>

\* audit(): revalidate everything and save a checkpoint, one transaction.
Audited(h) == Noticed([view EXCEPT ![Conn(h)] = Current(db)], Conn(h))

AuditStep(h) ==
    /\ call[h].at = "audit" /\ lock = None
    /\ IF call[h].op.kind = "Audit" THEN Finish(h, HeadRead, Audited(h))
       ELSE view' = Audited(h) /\ Goto(h, "sync") /\ UNCHANGED answer
    /\ UNCHANGED <<db, lock, work, invalidated, wrote>>

\* synchronize(): audit if another connection wrote; exclusive handles refuse.
SyncStep(h) ==
    /\ call[h].at = "sync"
    /\ IF ~MyView(h).stale THEN Goto(h, "begin") /\ UNCHANGED <<view, answer>>
       ELSE IF h \in Exclusive THEN Finish(h, Refused("History"), view)
       ELSE lock = None /\ view' = Audited(h) /\ Goto(h, "begin") /\ UNCHANGED answer
    /\ UNCHANGED <<db, lock, work, invalidated, wrote>>

-----------------------------------------------------------------------------
(* After BEGIN IMMEDIATE. *)

\* Mutant: the transaction trusts the cache synchronize() left.
TipTrusted(h) == TRUE

\* check_cached_tip: nobody wrote since synchronize(), and the head is ours.
CachedTip(h) == ~MyView(h).stale /\ MyView(h).anchor = Anchor(db)

\* Mutant: the successor of the sequence is not checked.
CommitCheckUnbounded(anchor, op) ==
    IF op.mode.kind # "Unversioned" /\ op.mode.expected # anchor.sequence THEN "Concurrent"
    ELSE IF Rows(db, op.key) # {} THEN "Replay"
    ELSE IF op.publication.prestate # anchor.state THEN "PreState"
    ELSE "Apply"

\* Mutant: the replay key is not looked up, only the prestate is compared.
CommitCheckAnyKey(anchor, op) ==
    IF op.mode.kind # "Unversioned" /\ op.mode.expected # anchor.sequence THEN "Concurrent"
    ELSE IF op.publication.prestate # anchor.state THEN "PreState"
    ELSE IF anchor.sequence = MaxSequence THEN "Range"
    ELSE "Apply"

\* The order of V2's checks on a commit; "Apply" when it may write.
CommitCheck(anchor, op) ==
    IF op.mode.kind # "Unversioned" /\ op.mode.expected # anchor.sequence THEN "Concurrent"
    ELSE IF Rows(db, op.key) # {}
         THEN LET row == db.commits[CHOOSE i \in Rows(db, op.key) : TRUE]
              IN  IF row.publication.prestate # op.publication.prestate THEN "History"
                  ELSE IF row.publication # op.publication THEN "Replay"
                  ELSE "Replayed"
    ELSE IF op.publication.prestate # anchor.state THEN "PreState"
    ELSE IF op.mode.kind = "BoundedAt" /\ op.publication.size > op.mode.cap THEN "Capacity"
    ELSE IF anchor.sequence = MaxSequence THEN "Range"
    ELSE "Apply"

\* Mutant: a replay is answered with the receipt of the head.
HeadReceipt(key) == Receipt(db.sequence, db.chain, "IdempotentReplay")

StoredReceipt(key) ==
    LET row == db.commits[CHOOSE i \in Rows(db, key) : TRUE]
    IN  Receipt(row.version, row.chain, "IdempotentReplay")

Takes(h, at) == lock' = h /\ work' = db /\ Goto(h, at) /\ UNCHANGED <<view, answer>>

Says(h, o) == Finish(h, o, view) /\ UNCHANGED <<lock, work>>

BeginCommit(h, op) ==
    LET check == CommitCheck(MyView(h).anchor, op)
    IN  CASE check = "Apply" -> Takes(h, "state")
          [] check = "Replayed" -> Says(h, Ok(StoredReceipt(op.key)))
          [] OTHER -> Says(h, Refused(check))

\* Mutant: only the token's issue checks that the entry is still pending.
BeginAcknowledgeOnce(h, op) ==
    LET found == Found(db, op.id)
    IN  IF found = {} THEN Says(h, Refused("UnknownDelivery"))
        ELSE IF call[h].round = 1 /\ \E i \in found : db.outbox[i].acked
             THEN Says(h, Refused("AlreadyAcknowledged"))
        ELSE IF call[h].round = 1
             THEN /\ call' = [call EXCEPT ![h].at = "sync", ![h].round = 2]
                  /\ UNCHANGED <<lock, work, view, answer>>
        ELSE Takes(h, "mark")

\* pending_by_id in the first round, Delivered::acknowledge in the second.
BeginAcknowledge(h, op) ==
    LET found == Found(db, op.id)
    IN  IF found = {} THEN Says(h, Refused("UnknownDelivery"))
        ELSE IF \E i \in found : db.outbox[i].acked
             THEN Says(h, Refused("AlreadyAcknowledged"))
        ELSE IF call[h].round = 1
             THEN /\ call' = [call EXCEPT ![h].at = "sync", ![h].round = 2]
                  /\ UNCHANGED <<lock, work, view, answer>>
        ELSE Takes(h, "mark")

\* Read stands for snapshot, binding, next_pending and export_pending.
BeginStep(h) ==
    LET op == call[h].op
    IN  /\ call[h].at = "begin" /\ lock = None
        /\ CASE ~CachedTip(h) -> Says(h, Refused("Concurrent"))
             [] CachedTip(h) /\ op.kind = "Read" -> Says(h, HeadRead)
             [] CachedTip(h) /\ op.kind = "Checkpoint" ->
                    Finish(h, HeadRead, Noticed(view, Conn(h))) /\ UNCHANGED <<lock, work>>
             [] CachedTip(h) /\ op.kind = "Reopen" ->
                    Goto(h, "adopt") /\ UNCHANGED <<lock, work, view, answer>>
             [] CachedTip(h) /\ op.kind = "Commit" -> BeginCommit(h, op)
             [] CachedTip(h) /\ op.kind = "Acknowledge" -> BeginAcknowledge(h, op)
        /\ UNCHANGED <<db, invalidated, wrote>>

\* The end of Production::reopen: the old connection was kept as a monitor of
\* outside writes, the new one replaces it.
AdoptStep(h) ==
    /\ call[h].at = "adopt"
    /\ invalidated' = [invalidated EXCEPT ![h] = @ \/ Changed(h)]
    /\ IF Changed(h) THEN Finish(h, Refused("History"), view)
       ELSE Finish(h, HeadRead, [view EXCEPT ![<<h, "held">>] = MyView(h)])
    /\ UNCHANGED <<db, lock, work, wrote>>

-----------------------------------------------------------------------------
(* The statements of a writing transaction. *)

\* UPDATE v2_state, guarded by the cached anchor.
StateStep(h) ==
    LET anchor == MyView(h).anchor
        next == Moved(anchor, call[h].op)
    IN  /\ call[h].at = "state"
        /\ IF Anchor(work) = anchor
           THEN /\ work' = [work EXCEPT !.sequence = next.sequence, !.state = next.state,
                                        !.chain = next.chain]
                /\ Goto(h, "row") /\ UNCHANGED <<lock, view, answer>>
           ELSE Finish(h, Refused("Concurrent"), view) /\ Rollback(h)
        /\ UNCHANGED <<db, invalidated, wrote>>

\* INSERT INTO v2_commits.
RowStep(h) ==
    LET op == call[h].op
        next == Moved(MyView(h).anchor, op)
    IN  /\ call[h].at = "row"
        /\ work' = [work EXCEPT !.commits =
                      Append(@, [key |-> op.key, version |-> next.sequence,
                                 publication |-> op.publication, chain |-> next.chain])]
        /\ Goto(h, "deliver")
        /\ UNCHANGED <<db, lock, view, answer, invalidated, wrote>>

\* Mutant: the transaction commits after the first delivery row.
DeliverOne(h) ==
    LET next == Moved(MyView(h).anchor, call[h].op)
    IN  /\ call[h].at = "deliver"
        /\ work' = [work EXCEPT !.outbox =
                      Append(@, [id |-> DeliveryId(next.chain, 0), version |-> next.sequence,
                                 ordinal |-> 0, acked |-> FALSE])]
        /\ Goto(h, "commit")
        /\ UNCHANGED <<db, lock, view, answer, invalidated, wrote>>

\* INSERT INTO v2_deliveries, one row at a time.
DeliverStep(h) ==
    LET next == Moved(MyView(h).anchor, call[h].op)
        ordinal == IF call[h].at = "deliver" THEN 0 ELSE 1
    IN  /\ call[h].at \in {"deliver", "deliver next"}
        /\ work' = [work EXCEPT !.outbox =
                      Append(@, [id |-> DeliveryId(next.chain, ordinal),
                                 version |-> next.sequence, ordinal |-> ordinal,
                                 acked |-> FALSE])]
        /\ Goto(h, IF ordinal = 0 THEN "deliver next" ELSE "commit")
        /\ UNCHANGED <<db, lock, view, answer, invalidated, wrote>>

\* UPDATE v2_deliveries SET acknowledged=1.
MarkStep(h) ==
    /\ call[h].at = "mark"
    /\ work' = [work EXCEPT !.outbox =
                  [i \in 1 .. Len(@) |->
                      IF @[i].id = call[h].op.id THEN [@[i] EXCEPT !.acked = TRUE] ELSE @[i]]]
    /\ Goto(h, "commit")
    /\ UNCHANGED <<db, lock, view, answer, invalidated, wrote>>

\* COMMIT took effect: the tables change and every other connection notices.
Commits(h) ==
    /\ db' = work
    /\ wrote' = [wrote EXCEPT ![h] = work # db]

Success(h) ==
    IF call[h].op.kind = "Commit"
    THEN Ok(Receipt(work.sequence, work.chain, "Committed"))
    ELSE Acknowledged

\* The cached anchor moves with the commit that answers.
CommitStep(h) ==
    LET moved == [view EXCEPT ![Conn(h)].anchor = Anchor(work)]
    IN  /\ call[h].at = "commit"
        /\ Commits(h)
        /\ Finish(h, Success(h), Noticed(moved, Conn(h)))
        /\ lock' = None
        /\ UNCHANGED <<work, invalidated>>

-----------------------------------------------------------------------------
(* Failures. *)

Writes(op) == op.kind \in {"Commit", "Acknowledge"}

\* answer(): an I/O error of a write is ambiguous, of a read it is not.
IoAnswer(op) == IF Writes(op) THEN Unknown("Io") ELSE NotApplied("Io")

Waiting(h) == lock \notin {None, h} /\ call[h].at \in {"open", "audit", "sync", "begin"}

\* A statement fails, or the lock is not to be had: nothing stays written.
FailStep(h) ==
    /\ call[h].at \notin {"idle", "adopt"}
    /\ \/ (Waiting(h) \/ call[h].at = "commit") /\ Finish(h, NotApplied("Busy"), view)
       \/ Finish(h, NotApplied("Full"), view)
       \/ Finish(h, IoAnswer(call[h].op), view)
    /\ Rollback(h)
    /\ UNCHANGED <<db, invalidated, wrote>>

Crashed == [tag |-> "Crashed"]

\* The process dies at any step; its transaction is rolled back.
CrashStep(h) ==
    /\ call[h] # Idle
    /\ Finish(h, Crashed, [view EXCEPT ![<<h, "held">>] = Closed])
    /\ Rollback(h)
    /\ invalidated' = [invalidated EXCEPT ![h] = FALSE]
    /\ UNCHANGED <<db, wrote>>

\* COMMIT takes effect, but it reports an I/O error and the handle keeps its
\* old anchor, or the process dies before it can answer.
LostStep(h) ==
    /\ call[h].at = "commit"
    /\ Commits(h)
    /\ \/ Finish(h, Unknown("Io"), Noticed(view, Conn(h))) /\ UNCHANGED invalidated
       \/ /\ Finish(h, Crashed, [Noticed(view, Conn(h)) EXCEPT ![<<h, "held">>] = Closed])
          /\ invalidated' = [invalidated EXCEPT ![h] = FALSE]
    /\ lock' = None
    /\ UNCHANGED work

Step(h) ==
    \/ OpenStep(h) \/ AuditStep(h) \/ SyncStep(h) \/ BeginStep(h) \/ AdoptStep(h)
    \/ StateStep(h) \/ RowStep(h) \/ DeliverStep(h) \/ MarkStep(h) \/ CommitStep(h)
    \/ FailStep(h) \/ CrashStep(h) \/ LostStep(h)

Next == \E h \in Handles : Step(h) \/ \E op \in Calls : Begin(h, op)

Spec == Init /\ [][Next]_vars
-----------------------------------------------------------------------------
(* Properties. *)

Writing == {"state", "row", "deliver", "deliver next", "mark", "commit"}

Steps == {"open", "audit", "sync", "begin", "adopt"} \cup Writing

Anchors == [sequence: 0 .. MaxSequence, state: Nat, chain: Seq(Links)]

Tables ==
    [sequence: 0 .. MaxSequence, state: Nat, chain: Seq(Links),
     commits: Seq([key: Keys, version: Nat, publication: Publications, chain: Seq(Links)]),
     outbox:  Seq([id: DeliveryIds, version: Nat, ordinal: 0 .. 1, acked: BOOLEAN])]

Answers ==
    [tag: {"Ok"}, value: [version: Nat, chain: Seq(Links),
                          status: {"Committed", "IdempotentReplay"}]]
      \cup {HeadRead, Acknowledged}
      \cup [tag: {"Refused"},
            code: {"Concurrent", "History", "Replay", "PreState", "Capacity", "Range",
                   "Identity", "UnknownDelivery", "AlreadyAcknowledged"}]
      \cup [tag: {"NotApplied", "Unknown"}, fault: Faults]
      \cup {NoOutcome, Crashed}

\* Type invariant: the tables, the caches and the operations under way.
TypeOK ==
    /\ db \in Tables /\ work \in Tables
    /\ lock \in Handles \cup {None}
    /\ view \in [Conns -> [open: BOOLEAN, anchor: Anchors, stale: BOOLEAN]]
    /\ call \in [Handles -> {Idle} \cup [at: Steps, op: CallType, round: 1 .. 2]]
    /\ answer \in [Handles -> Answers]
    /\ invalidated \in [Handles -> BOOLEAN]
    /\ wrote \in [Handles -> BOOLEAN]

\* A terminal is past check_cached_tip and writing exactly while it holds the
\* write lock, its cache is then the store's head, and nobody else has written
\* since: the values it computed from the cache are never stale when written.
WriterAtHead ==
    \A h \in Handles :
        /\ call[h].at \in Writing <=> lock = h
        /\ lock = h => MyView(h).open /\ ~MyView(h).stale /\ MyView(h).anchor = Anchor(db)

\* The counter the first i commit rows leave.
StateAfter(i) ==
    IF i = 0 THEN 0 ELSE db.commits[i].publication.prestate + db.commits[i].publication.body

\* The committed tables belong to the same commits at every moment, whatever
\* statement a crash or an error interrupts: consecutive sequences, the state
\* row at the last commit, each commit computed for the one before it, and two
\* delivery rows for each with ids of that commit's chain.
TablesAgree ==
    LET n == Len(db.commits)
    IN  /\ db.sequence = n
        /\ db.state = StateAfter(n)
        /\ Len(db.outbox) = 2 * n
        /\ \A i \in 1 .. n :
             LET row == db.commits[i]
             IN  /\ row.version = i
                 /\ row.publication.prestate = StateAfter(i - 1)
                 /\ row.chain = [j \in 1 .. i |-> [key |-> db.commits[j].key,
                                                   publication |-> db.commits[j].publication]]
                 /\ Rows(db, row.key) = {i}
                 /\ \A o \in 0 .. 1 : /\ db.outbox[2 * i - 1 + o].id = DeliveryId(row.chain, o)
                                      /\ db.outbox[2 * i - 1 + o].version = i

\* An answer says what the operation did.  Refused and NotApplied left the
\* tables alone; Committed and an acknowledgement are of the operation that
\* changed them, so a delivery is acknowledged to one relay only; and a
\* receipt, replayed or not, is that of a row in the store.
AnswersTrue ==
    \A h \in Handles :
        LET o == answer[h]
        IN  /\ o.tag \in {"Refused", "NotApplied"} => ~wrote[h]
            /\ o = Acknowledged => wrote[h]
            /\ o.tag = "Ok" /\ o.value.status \in {"Committed", "IdempotentReplay"} =>
                 /\ (o.value.status = "Committed") <=> wrote[h]
                 /\ o.value.version \in 1 .. Len(db.commits)
                 /\ db.commits[o.value.version].chain = o.value.chain

Atomic == INSTANCE AtomicStore WITH
    Requests <- {[key |-> op.key, publication |-> op.publication] :
                    op \in {c \in Calls : c.kind = "Commit"}},
    log      <- [i \in 1 .. Len(db.commits) |-> [key |-> db.commits[i].key,
                                                 publication |-> db.commits[i].publication]],
    acked    <- {<<db.outbox[i].version, db.outbox[i].ordinal>> :
                    i \in {j \in 1 .. Len(db.outbox) : db.outbox[j].acked}}

\* Statements, caches and crashes of all handles together implement the
\* atomic store: only whole commits at the head and single acknowledgements.
WholeCommits == Atomic!Spec
=============================================================================
