---------------------------- MODULE SqliteProofs ----------------------------
(***************************************************************************)
(* For any number of terminals, keys and calls: the types of SqliteShell;  *)
(* that a terminal past check_cached_tip writes at the head; that the      *)
(* committed tables belong to the same commits whatever statement a crash  *)
(* interrupts, that the answers say what the operations did, and that all  *)
(* handles together implement the atomic store; and, for the commit        *)
(* program over these terminals (SqliteRecovery), what a caller that lost  *)
(* an answer learns of its own commit.                                     *)
(***************************************************************************)
EXTENDS SqliteRecovery, TLAPS, SequenceTheorems

Views == [open: BOOLEAN, anchor: Anchors, stale: BOOLEAN]

Busy == [at: Steps, op: CallType, round: 1 .. 2]

\* A terminal that works on a connection has opened it, adopts one only for a
\* reopen, writes only for an operation that writes, and applies a commit only
\* below the largest sequence.
SoundCall(h) ==
    /\ call[h] # Idle /\ call[h].at # "open" => MyView(h).open
    /\ call[h].at \notin {"idle", "open", "audit"} => call[h].op.kind # "Audit"
    /\ call[h].at \in {"state", "row", "deliver", "deliver next"} => call[h].op.kind = "Commit"
    /\ call[h].at = "adopt" => call[h].op.kind = "Reopen"
    /\ call[h].at = "mark" => call[h].op.kind = "Acknowledge"
    /\ call[h].at = "commit" => call[h].op.kind \in {"Commit", "Acknowledge"}
    /\ call[h].at = "state" => MyView(h).anchor.sequence < MaxSequence

AtHead(h) ==
    /\ call[h].at \in Writing <=> lock = h
    /\ lock = h => MyView(h).open /\ ~MyView(h).stale /\ MyView(h).anchor = Anchor(db)

\* The inductive invariant.
IInv == TypeOK /\ \A h \in Handles : SoundCall(h) /\ AtHead(h)

-----------------------------------------------------------------------------
(* What the helpers of the module return. *)

\* The call of a terminal is idle, or one of the operations at one of its steps.
LEMMA CallCases ==
    ASSUME TypeOK, NEW h \in Handles
    PROVE  /\ call[h] = Idle \/ call[h] \in Busy
           /\ Idle.at = "idle"
           /\ call[h] = Idle <=> call[h].at = "idle"
           /\ call[h] = Idle <=> call[h] \notin Busy
<1>1. call[h] = Idle \/ call[h] \in Busy
  BY DEF TypeOK, Busy
<1>2. Idle.at = "idle"
  BY DEF Idle
<1>3. "idle" \notin Steps
  BY DEF Steps, Writing
<1>4. call[h] \in Busy => call[h].at # "idle"
  BY <1>3 DEF Busy
<1> QED BY <1>1, <1>2, <1>4

\* An operation under way at one of its steps.
LEMMA UnderBusy ==
    ASSUME NEW op \in CallType, NEW at \in Steps, NEW round \in 1 .. 2
    PROVE  Under(op, at, round) \in Busy
BY DEF Under, Busy

\* A terminal's connections, and the views it has of the store.
LEMMA ConnTypes ==
    ASSUME TypeOK, NEW h \in Handles
    PROVE  /\ <<h, "held">> \in Conns /\ <<h, "fresh">> \in Conns
           /\ Conn(h) \in {<<h, "held">>, <<h, "fresh">>}
           /\ MyView(h) \in Views
           /\ view \in [Conns -> Views]
BY DEF TypeOK, Conns, Conn, MyView, Views

\* Another terminal's connections are not this one's.
LEMMA OtherConns ==
    ASSUME NEW h \in Handles
    PROVE  \A g \in Handles \ {h} : \A k \in {"held", "fresh"} :
             <<g, k>> \in Conns \ {Conn(h), <<h, "held">>}
BY DEF Conns, Conn

\* Other connections notice a write; nothing but their stale flag changes.
LEMMA NoticedViews ==
    ASSUME NEW views \in [Conns -> Views], NEW c \in Conns
    PROVE  /\ Noticed(views, c) \in [Conns -> Views]
           /\ Noticed(views, c)[c] = views[c]
           /\ \A x \in Conns : /\ Noticed(views, c)[x].open = views[x].open
                               /\ Noticed(views, c)[x].anchor = views[x].anchor
BY DEF Noticed, Views

\* The head of well-typed tables is a well-typed anchor.
LEMMA AnchorTypes ==
    ASSUME NEW tables \in Tables
    PROVE  /\ Anchor(tables) \in Anchors
           /\ Current(tables) \in Views
           /\ Current(tables).open /\ ~Current(tables).stale
           /\ Current(tables).anchor = Anchor(tables)
BY DEF Anchor, Tables, Anchors, Current, Views

\* The tables of an empty store, and a closed connection, are well-typed.
LEMMA EmptyTypes == EmptyTables \in Tables /\ Closed \in Views
<1>1. EmptyTables \in Tables
  BY ShellAssumption DEF EmptyTables, Tables
<1> QED BY <1>1, AnchorTypes DEF Closed, Views

\* The answers the module gives are well-typed.
LEMMA AnswerTypes ==
    /\ HeadRead \in Answers /\ Acknowledged \in Answers
    /\ NoOutcome \in Answers /\ Crashed \in Answers
    /\ \A code \in {"Concurrent", "History", "Replay", "PreState", "Capacity", "Range",
                   "Identity", "UnknownDelivery", "AlreadyAcknowledged"} :
          Refused(code) \in Answers
    /\ \A fault \in Faults : NotApplied(fault) \in Answers /\ Unknown(fault) \in Answers
    /\ \A version \in Nat, chain \in Seq(Links), how \in {"Committed", "IdempotentReplay"} :
          Ok(Receipt(version, chain, how)) \in Answers
<1>1. /\ HeadRead \in Answers /\ Acknowledged \in Answers
      /\ NoOutcome \in Answers /\ Crashed \in Answers
  BY DEF Answers
<1>2. \A code \in {"Concurrent", "History", "Replay", "PreState", "Capacity", "Range",
                   "Identity", "UnknownDelivery", "AlreadyAcknowledged"} :
          Refused(code) \in Answers
  BY DEF Answers, Refused
<1>3. \A fault \in Faults : NotApplied(fault) \in Answers /\ Unknown(fault) \in Answers
  BY DEF Answers, NotApplied, Unknown
<1>4. \A version \in Nat, chain \in Seq(Links), how \in {"Committed", "IdempotentReplay"} :
          Ok(Receipt(version, chain, how)) \in Answers
  BY DEF Answers, Ok, Receipt
<1> QED BY <1>1, <1>2, <1>3, <1>4

\* An operation moves to its next step; nothing else of it changes.
LEMMA GotoCall ==
    ASSUME TypeOK, NEW h \in Handles, call[h] \in Busy, NEW at \in Steps, Goto(h, at)
    PROVE  /\ call' \in [Handles -> {Idle} \cup Busy]
           /\ call'[h] \in Busy /\ call'[h].at = at /\ call'[h].op = call[h].op
           /\ Conn(h)' = Conn(h)
           /\ \A g \in Handles \ {h} : call'[g] = call[g]
<1>1. call \in [Handles -> {Idle} \cup Busy]
  BY DEF TypeOK, Busy
<1>2. call'[h] \in Busy /\ call'[h].at = at /\ call'[h].op = call[h].op
  BY <1>1 DEF Goto, Busy
<1>3. \A g \in Handles \ {h} : call'[g] = call[g]
  BY <1>1 DEF Goto
<1>4. call' \in [Handles -> {Idle} \cup Busy]
  BY <1>1, <1>2, <1>3 DEF Goto
<1> QED BY <1>2, <1>3, <1>4 DEF Conn

\* An operation ends; the terminal's fresh connection is closed.
LEMMA FinishCall ==
    ASSUME TypeOK, NEW h \in Handles, NEW o \in Answers, NEW views \in [Conns -> Views],
           Finish(h, o, views)
    PROVE  /\ call' \in [Handles -> {Idle} \cup Busy]
           /\ call'[h] = Idle
           /\ answer' \in [Handles -> Answers]
           /\ view' \in [Conns -> Views]
           /\ \A g \in Handles \ {h} : call'[g] = call[g]
           /\ \A g \in Handles \ {h} : \A k \in {"held", "fresh"} :
                view'[<<g, k>>] = views[<<g, k>>]
<1>1. call \in [Handles -> {Idle} \cup Busy]
  BY DEF TypeOK, Busy
<1>2. answer' \in [Handles -> Answers]
  BY DEF TypeOK, Finish
<1>3. view' \in [Conns -> Views]
  BY EmptyTypes DEF Finish
<1>4. \A g \in Handles \ {h} :
        \A k \in {"held", "fresh"} : view'[<<g, k>>] = views[<<g, k>>]
  BY DEF Finish, Conns
<1>5. /\ call' \in [Handles -> {Idle} \cup Busy]
      /\ call'[h] = Idle
      /\ \A g \in Handles \ {h} : call'[g] = call[g]
  BY <1>1 DEF Finish
<1> QED BY <1>2, <1>3, <1>4, <1>5

\* An idle terminal without the lock is sound.
LEMMA IdleSound ==
    ASSUME NEW h \in Handles, call'[h] = Idle, lock' # h
    PROVE  (SoundCall(h) /\ AtHead(h))'
BY DEF SoundCall, AtHead, Idle, Writing

\* A rollback gives up the terminal's own lock and transaction only.
LEMMA RollbackLock ==
    ASSUME TypeOK, NEW h \in Handles, Rollback(h)
    PROVE  /\ lock' # h /\ lock' \in Handles \cup {None} /\ work' \in Tables
           /\ \A g \in Handles \ {h} : lock' = g <=> lock = g
BY ShellAssumption DEF TypeOK, Rollback

\* What a step of terminal h leaves of the other terminals: their anchors and,
\* if one of them holds the lock, the tables and its views.
KeepsOthers(h, views) ==
    \A g \in Handles \ {h} :
        /\ lock' = g <=> lock = g
        /\ \A k \in {"held", "fresh"} :
             /\ views[<<g, k>>].open = view[<<g, k>>].open
             /\ views[<<g, k>>].anchor = view[<<g, k>>].anchor
             /\ lock = g => views[<<g, k>>] = view[<<g, k>>]
        /\ lock = g => db' = db

\* The other terminals keep the invariant.
LEMMA Others ==
    ASSUME IInv, NEW h \in Handles, KeepsOthers(h, view'),
           \A g \in Handles \ {h} : call'[g] = call[g]
    PROVE  \A g \in Handles \ {h} : (SoundCall(g) /\ AtHead(g))'
<1> TAKE g \in Handles \ {h}
<1> DEFINE k == IF call[g].op.kind = "Reopen" THEN "fresh" ELSE "held"
           c == <<g, k>>
<1>1. Conn(g) = c /\ Conn(g)' = c /\ k \in {"held", "fresh"}
  BY DEF Conn
<1>2. view'[c].open = view[c].open /\ view'[c].anchor = view[c].anchor
  BY <1>1 DEF KeepsOthers
<1>3. lock' = g <=> lock = g
  BY DEF KeepsOthers
<1>4. lock = g => view'[c] = view[c] /\ db' = db
  BY <1>1 DEF KeepsOthers
<1> HIDE DEF c, k
<1>5. SoundCall(g)'
  <2>1. SoundCall(g)
    BY DEF IInv
  <2> QED BY <1>1, <1>2, <2>1 DEF SoundCall, MyView, Idle
<1>6. AtHead(g)'
  <2>1. AtHead(g)
    BY DEF IInv
  <2> QED BY <1>1, <1>3, <1>4, <2>1 DEF AtHead, MyView, Anchor, Writing
<1> QED BY <1>5, <1>6

\* The types of what a step changes beside calls, answers and views.
StoreTypes ==
    /\ db' \in Tables /\ work' \in Tables /\ lock' \in Handles \cup {None}
    /\ invalidated' \in [Handles -> BOOLEAN] /\ wrote' \in [Handles -> BOOLEAN]

\* A step that ends an operation keeps the invariant.
LEMMA FinishIInv ==
    ASSUME IInv, NEW h \in Handles, NEW o \in Answers, NEW views \in [Conns -> Views],
           Finish(h, o, views), StoreTypes, lock' # h, KeepsOthers(h, views)
    PROVE  IInv'
<1>1. TypeOK
  BY DEF IInv
<1>2. TypeOK'
  BY <1>1, FinishCall DEF TypeOK, StoreTypes, Busy, Views
<1>3. (SoundCall(h) /\ AtHead(h))'
  BY <1>1, FinishCall, IdleSound
<1>4. KeepsOthers(h, view')
  <2>1. \A g \in Handles \ {h} : \A k \in {"held", "fresh"} : view'[<<g, k>>] = views[<<g, k>>]
    BY <1>1, FinishCall, Zenon
  <2> SUFFICES ASSUME NEW g \in Handles \ {h}
               PROVE  /\ lock' = g <=> lock = g
                      /\ \A k \in {"held", "fresh"} :
                           /\ view'[<<g, k>>].open = view[<<g, k>>].open
                           /\ view'[<<g, k>>].anchor = view[<<g, k>>].anchor
                           /\ lock = g => view'[<<g, k>>] = view[<<g, k>>]
                      /\ lock = g => db' = db
    BY DEF KeepsOthers
  <2>2. \A k \in {"held", "fresh"} : view'[<<g, k>>] = views[<<g, k>>]
    BY <2>1
  <2> QED BY <2>2 DEF KeepsOthers
<1>5. \A g \in Handles \ {h} : (SoundCall(g) /\ AtHead(g))'
  BY <1>1, <1>4, FinishCall, Others
<1> QED BY <1>2, <1>3, <1>5 DEF IInv

\* A step that moves an operation on keeps the invariant if the terminal
\* itself stays sound.
LEMMA GotoIInv ==
    ASSUME IInv, NEW h \in Handles, call[h] \in Busy, NEW at \in Steps, Goto(h, at),
           StoreTypes, answer' = answer, view' \in [Conns -> Views], KeepsOthers(h, view'),
           (SoundCall(h) /\ AtHead(h))'
    PROVE  IInv'
<1>1. TypeOK
  BY DEF IInv
<1>2. TypeOK'
  BY <1>1, GotoCall DEF TypeOK, StoreTypes, Busy, Views
<1>3. \A g \in Handles \ {h} : (SoundCall(g) /\ AtHead(g))'
  BY <1>1, GotoCall, Others
<1> QED BY <1>2, <1>3 DEF IInv

-----------------------------------------------------------------------------
(* One lemma per action. *)

\* A new store satisfies the invariant.
LEMMA InitIInv == Init => IInv
<1> SUFFICES ASSUME Init PROVE IInv
  OBVIOUS
<1>1. \A c \in Conns : view[c] \in Views
  BY EmptyTypes, AnchorTypes DEF Init
<1>2. NoOutcome \in Answers
  BY DEF Answers
<1>3. TypeOK
  BY <1>1, <1>2, EmptyTypes DEF Init, TypeOK, Views, Conns
<1>4. \A h \in Handles : SoundCall(h) /\ AtHead(h)
  BY ShellAssumption DEF Init, SoundCall, AtHead, Idle, Writing
<1> QED BY <1>3, <1>4 DEF IInv

\* Production::handle takes an operation, or refuses it at once.
LEMMA BeginIInv ==
    ASSUME IInv, NEW h \in Handles, NEW op \in CallType, Begin(h, op)
    PROVE  IInv'
<1> USE DEF IInv
<1>1. call[h] = Idle /\ lock # h
  BY CallCases DEF Begin, AtHead, Writing
<1>2. UNCHANGED <<db, lock, work, view>>
  BY DEF Begin
<1>3. \/ call' = call
      \/ /\ call' = [call EXCEPT ![h] = Under(op, "open", 1)]
      \/ /\ call' = [call EXCEPT ![h] = Under(op, FirstStep(op), 1)]
         /\ op.kind # "Reopen" /\ view[<<h, "held">>].open
  BY DEF Begin
<1>4. /\ FirstStep(op) \in Steps /\ FirstStep(op) \notin Writing
      /\ "open" \in Steps /\ "open" \notin Writing
      /\ FirstStep(op) \notin {"idle", "open", "adopt", "state", "row", "deliver",
                              "deliver next", "mark", "commit"}
      /\ FirstStep(op) = "audit" \/ op.kind # "Audit"
  BY DEF FirstStep, Steps, Writing
<1>5. Under(op, "open", 1) \in Busy /\ Under(op, FirstStep(op), 1) \in Busy
  <2>1. 1 \in 1 .. 2
    OBVIOUS
  <2> QED BY <1>4, <2>1, UnderBusy
<1>6. TypeOK'
  <2>1. call' \in [Handles -> {Idle} \cup Busy]
    BY <1>3, <1>5 DEF TypeOK, Busy
  <2>2. answer' \in [Handles -> Answers]
    BY DEF Begin, TypeOK, Answers, Refused
  <2>3. invalidated' \in [Handles -> BOOLEAN] /\ wrote' \in [Handles -> BOOLEAN]
    BY DEF Begin, TypeOK, Changed
  <2> QED BY <1>2, <2>1, <2>2, <2>3 DEF TypeOK, Busy
<1>7. SoundCall(h)' /\ AtHead(h)'
  <2>1. call \in [Handles -> {Idle} \cup Busy]
    BY DEF TypeOK, Busy
  <2>2. CASE call' = call
    BY <1>2, <2>2 DEF SoundCall, AtHead, MyView, Conn
  <2>3. CASE call' = [call EXCEPT ![h] = Under(op, "open", 1)]
    BY <1>1, <1>2, <1>4, <2>1, <2>3 DEF SoundCall, AtHead, Under, MyView, Conn
  <2>4. CASE /\ call' = [call EXCEPT ![h] = Under(op, FirstStep(op), 1)]
             /\ op.kind # "Reopen" /\ view[<<h, "held">>].open
    BY <1>1, <1>2, <1>4, <2>1, <2>4 DEF SoundCall, AtHead, Under, MyView, Conn
  <2> QED BY <1>3, <2>2, <2>3, <2>4
<1>8. \A g \in Handles \ {h} : (SoundCall(g) /\ AtHead(g))'
  <2>1. \A g \in Handles \ {h} : call'[g] = call[g]
    BY <1>3 DEF TypeOK
  <2>2. KeepsOthers(h, view')
    BY <1>2 DEF KeepsOthers
  <2> QED BY <2>1, <2>2, Others
<1> QED BY <1>6, <1>7, <1>8

\* Opening a connection audits the store and caches its head.
LEMMA OpenIInv ==
    ASSUME IInv, NEW h \in Handles, OpenStep(h)
    PROVE  IInv'
<1>1. TypeOK /\ call[h] \in Busy /\ lock # h
  BY CallCases DEF OpenStep, AtHead, Writing, IInv
<1>2. /\ FirstStep(call[h].op) \in Steps \ Writing /\ FirstStep(call[h].op) # "adopt"
      /\ FirstStep(call[h].op) = "audit" \/ call[h].op.kind # "Audit"
  BY DEF FirstStep, Steps, Writing
<1>3. /\ Goto(h, FirstStep(call[h].op))
      /\ UNCHANGED <<db, lock, work, answer, invalidated, wrote>>
  BY DEF OpenStep
<1>4. Conn(h) \in Conns /\ view \in [Conns -> Views] /\ Current(db) \in Views
  BY <1>1, ConnTypes, AnchorTypes DEF TypeOK
<1>5. view' = [view EXCEPT ![Conn(h)] = Current(db)]
  BY DEF OpenStep
<1>6. StoreTypes /\ view' \in [Conns -> Views]
  BY <1>1, <1>3, <1>4, <1>5 DEF StoreTypes, TypeOK
<1>7. KeepsOthers(h, view')
  BY <1>3, <1>4, <1>5, OtherConns DEF KeepsOthers
<1>8. (SoundCall(h) /\ AtHead(h))'
  <2>1. MyView(h)' = Current(db)
    BY <1>1, <1>2, <1>3, <1>4, <1>5, GotoCall DEF MyView
  <2>2. /\ call'[h].at \in Steps \ Writing /\ call'[h].at # "adopt" /\ lock' # h
        /\ call'[h].at = "audit" \/ call'[h].op.kind # "Audit"
    BY <1>1, <1>2, <1>3, GotoCall
  <2> QED BY <1>1, <2>1, <2>2, AnchorTypes DEF SoundCall, AtHead, Writing, TypeOK
<1> QED BY <1>1, <1>2, <1>3, <1>6, <1>7, <1>8, GotoIInv

\* An audit caches the head; saving its checkpoint makes the others stale.
LEMMA AuditedViews ==
    ASSUME TypeOK, NEW h \in Handles
    PROVE  /\ Audited(h) \in [Conns -> Views]
           /\ Audited(h)[Conn(h)] = Current(db)
           /\ \A c \in Conns \ {Conn(h)} : /\ Audited(h)[c].open = view[c].open
                                         /\ Audited(h)[c].anchor = view[c].anchor
<1> DEFINE views == [view EXCEPT ![Conn(h)] = Current(db)]
<1>1. Conn(h) \in Conns /\ view \in [Conns -> Views] /\ Current(db) \in Views
  BY ConnTypes, AnchorTypes DEF TypeOK
<1>2. /\ views \in [Conns -> Views] /\ views[Conn(h)] = Current(db)
      /\ \A c \in Conns \ {Conn(h)} : views[c] = view[c]
  BY <1>1
<1>3. Audited(h) = Noticed(views, Conn(h))
  BY DEF Audited
<1> HIDE DEF views
<1> QED BY <1>1, <1>2, <1>3, NoticedViews

\* Without a lock holder, an audit leaves the other terminals sound.
LEMMA AuditedOthers ==
    ASSUME TypeOK, NEW h \in Handles, lock = None, lock' = lock
    PROVE  KeepsOthers(h, Audited(h))
BY AuditedViews, OtherConns, ShellAssumption DEF KeepsOthers

\* audit() and the save of its checkpoint.
LEMMA AuditIInv ==
    ASSUME IInv, NEW h \in Handles, AuditStep(h)
    PROVE  IInv'
<1>1. TypeOK /\ call[h] \in Busy /\ lock = None
  BY CallCases DEF AuditStep, IInv
<1>2. StoreTypes /\ lock' = lock /\ lock' # h
  BY <1>1, ShellAssumption DEF AuditStep, StoreTypes, TypeOK
<1>3. Audited(h) \in [Conns -> Views] /\ KeepsOthers(h, Audited(h))
  BY <1>1, <1>2, AuditedViews, AuditedOthers
<1>4. CASE Finish(h, HeadRead, Audited(h))
  BY <1>2, <1>3, <1>4, AnswerTypes, FinishIInv
<1>5. CASE /\ call[h].op.kind # "Audit"
           /\ view' = Audited(h) /\ Goto(h, "sync") /\ UNCHANGED answer
  <2>1. "sync" \in Steps
    BY DEF Steps
  <2>2. MyView(h)' = Current(db) /\ call'[h].at = "sync" /\ call'[h].op.kind # "Audit"
    BY <1>1, <1>5, <2>1, GotoCall, AuditedViews DEF MyView
  <2>3. (SoundCall(h) /\ AtHead(h))'
    BY <1>1, <1>2, <2>2, AnchorTypes DEF SoundCall, AtHead, Writing, TypeOK
  <2> QED BY <1>1, <1>2, <1>3, <1>5, <2>1, <2>3, GotoIInv
<1> QED BY <1>4, <1>5 DEF AuditStep

\* synchronize(): no write since, a refusal, or an audit.
LEMMA SyncIInv ==
    ASSUME IInv, NEW h \in Handles, SyncStep(h)
    PROVE  IInv'
<1>1. /\ TypeOK /\ call[h] \in Busy /\ call[h].at = "sync" /\ lock # h /\ MyView(h).open
      /\ call[h].op.kind # "Audit"
  BY CallCases DEF SyncStep, IInv, AtHead, SoundCall, Writing
<1>2. StoreTypes /\ lock' = lock /\ lock' # h /\ db' = db
  BY <1>1 DEF SyncStep, StoreTypes, TypeOK
<1>3. view \in [Conns -> Views] /\ KeepsOthers(h, view) /\ "begin" \in Steps
  BY <1>1, <1>2, ConnTypes DEF KeepsOthers, Steps
<1>4. CASE Finish(h, Refused("History"), view)
  BY <1>2, <1>3, <1>4, AnswerTypes, FinishIInv
<1>5. CASE Goto(h, "begin") /\ UNCHANGED <<view, answer>>
  <2>1. MyView(h)' = MyView(h) /\ call'[h].at = "begin" /\ call'[h].op.kind # "Audit"
    BY <1>1, <1>3, <1>5, GotoCall DEF MyView
  <2>2. (SoundCall(h) /\ AtHead(h))'
    BY <1>1, <1>2, <2>1 DEF SoundCall, AtHead, Writing
  <2> QED BY <1>1, <1>2, <1>3, <1>5, <2>2, GotoIInv
<1>6. CASE lock = None /\ view' = Audited(h) /\ Goto(h, "begin") /\ UNCHANGED answer
  <2>1. MyView(h)' = Current(db) /\ call'[h].at = "begin" /\ call'[h].op.kind # "Audit"
    BY <1>1, <1>3, <1>6, GotoCall, AuditedViews DEF MyView
  <2>2. (SoundCall(h) /\ AtHead(h))'
    BY <1>1, <1>2, <2>1, AnchorTypes DEF SoundCall, AtHead, Writing, TypeOK
  <2>3. Audited(h) \in [Conns -> Views] /\ KeepsOthers(h, Audited(h))
    BY <1>1, <1>2, <1>6, AuditedViews, AuditedOthers
  <2> QED BY <1>1, <1>2, <1>3, <1>6, <2>2, <2>3, GotoIInv
<1> QED BY <1>4, <1>5, <1>6 DEF SyncStep

\* A transaction that writes nothing is answered at once.
LEMMA SaysIInv ==
    ASSUME IInv, NEW h \in Handles, NEW o \in Answers, lock = None, Says(h, o),
           UNCHANGED <<db, invalidated, wrote>>
    PROVE  IInv'
<1>1. TypeOK
  BY DEF IInv
<1>2. StoreTypes /\ lock' = lock /\ lock' # h /\ Finish(h, o, view)
  BY <1>1, ShellAssumption DEF Says, StoreTypes, TypeOK
<1>3. view \in [Conns -> Views] /\ KeepsOthers(h, view)
  BY <1>1, <1>2, ConnTypes DEF KeepsOthers
<1> QED BY <1>2, <1>3, FinishIInv

\* A transaction that may write takes the lock with its cache at the head.
LEMMA TakesIInv ==
    ASSUME IInv, NEW h \in Handles, call[h].at = "begin", lock = None, CachedTip(h),
           NEW at \in {"state", "mark"}, Takes(h, at), UNCHANGED <<db, invalidated, wrote>>,
           at = "state" => call[h].op.kind = "Commit" /\ MyView(h).anchor.sequence < MaxSequence,
           at = "mark" => call[h].op.kind = "Acknowledge"
    PROVE  IInv'
<1>1. TypeOK /\ call[h] \in Busy /\ MyView(h).open
  BY CallCases DEF IInv, SoundCall
<1>2. at \in Steps /\ Goto(h, at) /\ UNCHANGED <<view, answer>> /\ lock' = h
  BY DEF Takes, Steps, Writing
<1>3. StoreTypes
  BY <1>1, <1>2 DEF Takes, StoreTypes, TypeOK
<1>4. view' \in [Conns -> Views] /\ KeepsOthers(h, view')
  BY <1>1, <1>2, ConnTypes, ShellAssumption DEF KeepsOthers
<1>5. MyView(h)' = MyView(h) /\ call'[h].at = at /\ call'[h].op = call[h].op
  BY <1>1, <1>2, GotoCall DEF MyView
<1>6. (SoundCall(h) /\ AtHead(h))'
  BY <1>1, <1>2, <1>5 DEF SoundCall, AtHead, Writing, CachedTip, Anchor
<1> QED BY <1>1, <1>2, <1>3, <1>4, <1>6, GotoIInv

\* The receipt of a stored row is well-typed.
LEMMA StoredReceiptType ==
    ASSUME TypeOK, NEW key, Rows(db, key) # {}
    PROVE  Ok(StoredReceipt(key)) \in Answers
<1> DEFINE row == db.commits[CHOOSE i \in Rows(db, key) : TRUE]
<1>1. row.version \in Nat /\ row.chain \in Seq(Links)
  <2>1. (CHOOSE i \in Rows(db, key) : TRUE) \in Rows(db, key)
    OBVIOUS
  <2>2. \A i \in Rows(db, key) : i \in 1 .. Len(db.commits)
    BY DEF Rows
  <2> DEFINE R == [key: Keys, version: Nat, publication: Publications, chain: Seq(Links)]
  <2>3. db.commits \in Seq(R)
    BY DEF TypeOK, Tables
  <2> HIDE DEF R
  <2>4. row \in R
    BY <2>1, <2>2, <2>3
  <2> QED BY <2>4 DEF R
<1>2. StoredReceipt(key) = Receipt(row.version, row.chain, "IdempotentReplay")
  BY DEF StoredReceipt
<1> QED BY <1>1, <1>2, AnswerTypes

\* What the checks of a commit can say.
LEMMA CommitCheckCases ==
    ASSUME NEW anchor \in Anchors, NEW op
    PROVE  /\ CommitCheck(anchor, op) = "Apply" => anchor.sequence < MaxSequence
           /\ CommitCheck(anchor, op) = "Replayed" => Rows(db, op.key) # {}
           /\ CommitCheck(anchor, op) \notin {"Apply", "Replayed"} =>
                Refused(CommitCheck(anchor, op)) \in Answers
<1>1. anchor.sequence \in 0 .. MaxSequence /\ MaxSequence \in Nat
  BY ShellAssumption DEF Anchors
<1>2. CommitCheck(anchor, op) \in {"Concurrent", "History", "Replay", "PreState", "Capacity",
                                 "Range", "Apply", "Replayed"}
  BY DEF CommitCheck
<1>3. CommitCheck(anchor, op) = "Apply" => anchor.sequence < MaxSequence
  BY <1>1 DEF CommitCheck
<1>4. CommitCheck(anchor, op) = "Replayed" => Rows(db, op.key) # {}
  BY DEF CommitCheck
<1>5. CommitCheck(anchor, op) \notin {"Apply", "Replayed"} =>
        Refused(CommitCheck(anchor, op)) \in Answers
  BY <1>2, AnswerTypes
<1> QED BY <1>3, <1>4, <1>5

\* commit_controlled after BEGIN.
LEMMA BeginCommitIInv ==
    ASSUME IInv, NEW h \in Handles, call[h].at = "begin", lock = None, CachedTip(h),
           call[h].op.kind = "Commit", BeginCommit(h, call[h].op),
           UNCHANGED <<db, invalidated, wrote>>
    PROVE  IInv'
<1> DEFINE check == CommitCheck(MyView(h).anchor, call[h].op)
<1>1. TypeOK /\ MyView(h).anchor \in Anchors
  BY ConnTypes DEF IInv, Views
<1>2. CASE check = "Apply"
  <2>1. Takes(h, "state")
    BY <1>2 DEF BeginCommit
  <2> QED BY <1>1, <1>2, <2>1, CommitCheckCases, TakesIInv
<1>3. CASE check = "Replayed"
  <2>1. Says(h, Ok(StoredReceipt(call[h].op.key)))
    BY <1>3 DEF BeginCommit
  <2> QED BY <1>1, <1>3, <2>1, CommitCheckCases, StoredReceiptType, SaysIInv
<1>4. CASE check \notin {"Apply", "Replayed"}
  <2>1. Says(h, Refused(check))
    BY <1>4 DEF BeginCommit
  <2> QED BY <1>1, <1>4, <2>1, CommitCheckCases, SaysIInv
<1> QED BY <1>2, <1>3, <1>4

\* pending_by_id, then Delivered::acknowledge, after BEGIN.
LEMMA BeginAcknowledgeIInv ==
    ASSUME IInv, NEW h \in Handles, call[h].at = "begin", lock = None, CachedTip(h),
           call[h].op.kind = "Acknowledge", BeginAcknowledge(h, call[h].op),
           UNCHANGED <<db, invalidated, wrote>>
    PROVE  IInv'
<1>1. TypeOK /\ call[h] \in Busy /\ MyView(h).open /\ call \in [Handles -> {Idle} \cup Busy]
  BY CallCases DEF IInv, SoundCall, TypeOK, Busy
<1>2. CASE Says(h, Refused("UnknownDelivery")) \/ Says(h, Refused("AlreadyAcknowledged"))
  BY <1>2, AnswerTypes, SaysIInv
<1>3. CASE Takes(h, "mark")
  BY <1>3, TakesIInv
<1>4. CASE /\ call' = [call EXCEPT ![h].at = "sync", ![h].round = 2]
           /\ UNCHANGED <<lock, work, view, answer>>
  <2>1. "sync" \in Steps \ Writing
    BY DEF Steps, Writing
  <2>2. /\ call'[h] \in Busy /\ call'[h].at = "sync" /\ call'[h].op = call[h].op
        /\ call' \in [Handles -> {Idle} \cup Busy]
        /\ \A g \in Handles \ {h} : call'[g] = call[g]
    <3>1. call' = [call EXCEPT ![h] = [call[h] EXCEPT !.at = "sync", !.round = 2]]
      BY <1>1, <1>4
    <3>2. [call[h] EXCEPT !.at = "sync", !.round = 2] \in Busy
      <4>1. 2 \in 1 .. 2
        OBVIOUS
      <4> QED BY <1>1, <2>1, <4>1 DEF Busy
    <3>3. /\ [call[h] EXCEPT !.at = "sync", !.round = 2].at = "sync"
          /\ [call[h] EXCEPT !.at = "sync", !.round = 2].op = call[h].op
      BY <1>1 DEF Busy
    <3> QED BY <1>1, <3>1, <3>2, <3>3
  <2>3. TypeOK'
    BY <1>1, <1>4, <2>2 DEF TypeOK, Busy
  <2>4. MyView(h)' = MyView(h) /\ lock' # h
    BY <1>4, <2>2, ShellAssumption DEF MyView, Conn
  <2>5. (SoundCall(h) /\ AtHead(h))'
    BY <1>1, <2>1, <2>2, <2>4 DEF SoundCall, AtHead
  <2>6. KeepsOthers(h, view')
    BY <1>4 DEF KeepsOthers
  <2> QED BY <2>2, <2>3, <2>5, <2>6, Others DEF IInv
<1> QED BY <1>2, <1>3, <1>4 DEF BeginAcknowledge

\* Everything a terminal does in the first instant of its transaction.
LEMMA BeginStepIInv ==
    ASSUME IInv, NEW h \in Handles, BeginStep(h)
    PROVE  IInv'
<1>1. TypeOK /\ call[h] \in Busy /\ call[h].at = "begin" /\ lock = None /\ MyView(h).open
  BY CallCases DEF BeginStep, IInv, SoundCall
<1>2. UNCHANGED <<db, invalidated, wrote>>
  BY DEF BeginStep
<1>3. view \in [Conns -> Views] /\ Conn(h) \in Conns
  BY <1>1, ConnTypes
<1>4. CASE ~CachedTip(h)
  BY <1>1, <1>2, <1>4, AnswerTypes, SaysIInv DEF BeginStep
<1>5. CASE CachedTip(h) /\ call[h].op.kind = "Read"
  BY <1>1, <1>2, <1>5, AnswerTypes, SaysIInv DEF BeginStep
<1>6. CASE CachedTip(h) /\ call[h].op.kind = "Checkpoint"
  <2>1. Finish(h, HeadRead, Noticed(view, Conn(h))) /\ UNCHANGED <<lock, work>>
    BY <1>6 DEF BeginStep
  <2>2. Noticed(view, Conn(h)) \in [Conns -> Views] /\ KeepsOthers(h, Noticed(view, Conn(h)))
    BY <1>1, <1>3, <2>1, NoticedViews, OtherConns, ShellAssumption DEF KeepsOthers
  <2>3. StoreTypes /\ lock' # h
    BY <1>1, <1>2, <2>1, ShellAssumption DEF StoreTypes, TypeOK
  <2> QED BY <2>1, <2>2, <2>3, AnswerTypes, FinishIInv
<1>7. CASE CachedTip(h) /\ call[h].op.kind = "Reopen"
  <2>1. Goto(h, "adopt") /\ UNCHANGED <<lock, work, view, answer>>
    BY <1>7 DEF BeginStep
  <2>2. "adopt" \in Steps \ Writing
    BY DEF Steps, Writing
  <2>3. StoreTypes /\ lock' # h /\ KeepsOthers(h, view')
    BY <1>1, <1>2, <2>1, ShellAssumption DEF StoreTypes, TypeOK, KeepsOthers
  <2>4. MyView(h)' = MyView(h) /\ call'[h].at = "adopt" /\ call'[h].op.kind = "Reopen"
    BY <1>1, <1>7, <2>1, <2>2, GotoCall DEF MyView
  <2>5. (SoundCall(h) /\ AtHead(h))'
    BY <1>1, <2>2, <2>3, <2>4 DEF SoundCall, AtHead
  <2> QED BY <1>1, <1>3, <2>1, <2>2, <2>3, <2>5, GotoIInv
<1>8. CASE CachedTip(h) /\ call[h].op.kind = "Commit"
  BY <1>1, <1>2, <1>8, BeginCommitIInv DEF BeginStep
<1>9. CASE CachedTip(h) /\ call[h].op.kind = "Acknowledge"
  BY <1>1, <1>2, <1>9, BeginAcknowledgeIInv DEF BeginStep
<1>10. call[h].op.kind \in {"Commit", "Read", "Checkpoint", "Audit", "Reopen", "Acknowledge"}
  BY <1>1 DEF Busy, CallType
<1>11. call[h].op.kind # "Audit"
  BY <1>1 DEF IInv, SoundCall
<1> QED BY <1>4, <1>5, <1>6, <1>7, <1>8, <1>9, <1>10, <1>11

\* The new connection of a reopen replaces the old one, or is dropped.
LEMMA AdoptIInv ==
    ASSUME IInv, NEW h \in Handles, AdoptStep(h)
    PROVE  IInv'
<1>1. TypeOK /\ call[h] \in Busy /\ lock # h
  BY CallCases DEF AdoptStep, IInv, AtHead, Writing
<1>2. StoreTypes /\ lock' = lock /\ lock' # h /\ db' = db
  BY <1>1 DEF AdoptStep, StoreTypes, TypeOK, Changed
<1>3. view \in [Conns -> Views] /\ KeepsOthers(h, view)
  BY <1>1, <1>2, ConnTypes DEF KeepsOthers
<1>4. CASE Finish(h, Refused("History"), view)
  BY <1>2, <1>3, <1>4, AnswerTypes, FinishIInv
<1>5. CASE Finish(h, HeadRead, [view EXCEPT ![<<h, "held">>] = MyView(h)])
  <2> DEFINE views == [view EXCEPT ![<<h, "held">>] = MyView(h)]
  <2>1. views \in [Conns -> Views]
    BY <1>1, ConnTypes
  <2>2. KeepsOthers(h, views)
    BY <1>1, <1>2, ConnTypes, OtherConns DEF KeepsOthers
  <2> QED BY <1>2, <1>5, <2>1, <2>2, AnswerTypes, FinishIInv
<1> QED BY <1>4, <1>5 DEF AdoptStep

\* A step of a writing transaction changes only the holder's own tables.
LEMMA WorkIInv ==
    ASSUME IInv, NEW h \in Handles, call[h].at \in Writing, NEW at \in Writing \ {"state"},
           Goto(h, at), work' \in Tables,
           UNCHANGED <<db, lock, view, answer, invalidated, wrote>>,
           at \in {"row", "deliver", "deliver next"} => call[h].op.kind = "Commit",
           at = "mark" => call[h].op.kind = "Acknowledge",
           at = "commit" => call[h].op.kind \in {"Commit", "Acknowledge"}
    PROVE  IInv'
<1>1. TypeOK /\ call[h] \in Busy /\ lock = h /\ at \in Steps
  BY CallCases DEF IInv, AtHead, Writing, Steps
<1>2. MyView(h).open /\ ~MyView(h).stale /\ MyView(h).anchor = Anchor(db)
  BY <1>1 DEF IInv, AtHead
<1>3. StoreTypes /\ KeepsOthers(h, view') /\ view' \in [Conns -> Views]
  BY <1>1, ConnTypes DEF StoreTypes, TypeOK, KeepsOthers
<1>4. MyView(h)' = MyView(h) /\ call'[h].at = at /\ call'[h].op = call[h].op
  BY <1>1, GotoCall DEF MyView
<1>5. (SoundCall(h) /\ AtHead(h))'
  BY <1>1, <1>2, <1>4 DEF SoundCall, AtHead, Anchor, Writing
<1> QED BY <1>1, <1>3, <1>5, GotoIInv

\* A commit's key, publication and successor are well-typed.
LEMMA MovedTypes ==
    ASSUME NEW op \in CallType, op.kind = "Commit", NEW anchor \in Anchors
    PROVE  /\ op.key \in Keys /\ op.publication \in Publications
           /\ Moved(anchor, op).sequence = anchor.sequence + 1
           /\ Moved(anchor, op).sequence \in Nat
           /\ Moved(anchor, op).state \in Nat
           /\ Moved(anchor, op).chain \in Seq(Links)
<1>1. op.key \in Keys /\ op.publication \in Publications
  BY DEF CallType
<1>2. op.publication.prestate \in Nat /\ op.publication.body \in Nat
  BY <1>1 DEF Publications
<1>3. [key |-> op.key, publication |-> op.publication] \in Links
  BY <1>1 DEF Links
<1>4. anchor.chain \in Seq(Links) /\ anchor.sequence \in Nat
  BY ShellAssumption DEF Anchors
<1>5. Chained(anchor, op) \in Seq(Links)
  BY <1>3, <1>4 DEF Chained
<1> QED BY <1>1, <1>2, <1>4, <1>5 DEF Moved

\* A terminal that fails, or whose guarded UPDATE matches nothing, rolls back.
LEMMA RollbackIInv ==
    ASSUME IInv, NEW h \in Handles, NEW o \in Answers, Finish(h, o, view), Rollback(h),
           UNCHANGED <<db, invalidated, wrote>>
    PROVE  IInv'
<1>1. TypeOK
  BY DEF IInv
<1>2. StoreTypes /\ lock' # h
  BY <1>1, RollbackLock DEF StoreTypes, TypeOK
<1>3. view \in [Conns -> Views] /\ KeepsOthers(h, view)
  BY <1>1, ConnTypes, RollbackLock DEF KeepsOthers
<1> QED BY <1>2, <1>3, FinishIInv

\* UPDATE v2_state.
LEMMA StateIInv ==
    ASSUME IInv, NEW h \in Handles, StateStep(h)
    PROVE  IInv'
<1> DEFINE anchor == MyView(h).anchor
           next == Moved(anchor, call[h].op)
<1>1. /\ TypeOK /\ call[h] \in Busy /\ call[h].op \in CallType /\ call[h].op.kind = "Commit"
      /\ anchor \in Anchors /\ anchor.sequence < MaxSequence /\ work \in Tables
  BY CallCases, ConnTypes DEF StateStep, IInv, SoundCall, Busy, Views, TypeOK
<1>2. CASE /\ work' = [work EXCEPT !.sequence = next.sequence, !.state = next.state,
                                   !.chain = next.chain]
           /\ Goto(h, "row") /\ UNCHANGED <<lock, view, answer>>
  <2>1. next.sequence \in 0 .. MaxSequence /\ next.state \in Nat /\ next.chain \in Seq(Links)
    BY <1>1, MovedTypes, ShellAssumption DEF Anchors
  <2>2. work' \in Tables
    <3> HIDE DEF next
    <3> QED BY <1>1, <1>2, <2>1 DEF Tables
  <2>3. call[h].at \in Writing /\ "row" \in Writing \ {"state"}
    BY DEF StateStep, Writing
  <2>4. UNCHANGED <<db, invalidated, wrote>>
    BY DEF StateStep
  <2> QED BY <1>1, <1>2, <2>2, <2>3, <2>4, WorkIInv
<1>3. CASE Finish(h, Refused("Concurrent"), view) /\ Rollback(h)
  BY <1>3, AnswerTypes, RollbackIInv DEF StateStep
<1> QED BY <1>2, <1>3 DEF StateStep

\* INSERT INTO v2_commits.
LEMMA RowIInv ==
    ASSUME IInv, NEW h \in Handles, RowStep(h)
    PROVE  IInv'
<1> DEFINE op == call[h].op
           next == Moved(MyView(h).anchor, op)
           R == [key: Keys, version: Nat, publication: Publications, chain: Seq(Links)]
           row == [key |-> op.key, version |-> next.sequence,
                   publication |-> op.publication, chain |-> next.chain]
<1>1. /\ TypeOK /\ op \in CallType /\ op.kind = "Commit" /\ MyView(h).anchor \in Anchors
      /\ work \in Tables
  BY CallCases, ConnTypes DEF RowStep, IInv, SoundCall, Busy, Views, TypeOK
<1>2. row \in R
  <2>1. /\ op.key \in Keys /\ op.publication \in Publications
        /\ next.sequence \in Nat /\ next.chain \in Seq(Links)
    BY <1>1, MovedTypes
  <2> HIDE DEF op, next
  <2> QED BY <2>1
<1>3. work.commits \in Seq(R)
  BY <1>1 DEF Tables
<1>4. work' = [work EXCEPT !.commits = Append(@, row)]
  BY DEF RowStep
<1>5. work' \in Tables
  <2>1. Append(work.commits, row) \in Seq(R)
    <3> HIDE DEF R, row
    <3> QED BY <1>2, <1>3
  <2> HIDE DEF row
  <2> QED BY <1>1, <1>4, <2>1 DEF Tables
<1>6. call[h].at \in Writing /\ "deliver" \in Writing \ {"state"} /\ Goto(h, "deliver")
  BY DEF RowStep, Writing
<1>7. UNCHANGED <<db, lock, view, answer, invalidated, wrote>>
  BY DEF RowStep
<1> QED BY <1>1, <1>5, <1>6, <1>7, WorkIInv

\* INSERT INTO v2_deliveries.
LEMMA DeliverIInv ==
    ASSUME IInv, NEW h \in Handles, DeliverStep(h)
    PROVE  IInv'
<1> DEFINE next == Moved(MyView(h).anchor, call[h].op)
           ordinal == IF call[h].at = "deliver" THEN 0 ELSE 1
           R == [id: DeliveryIds, version: Nat, ordinal: 0 .. 1, acked: BOOLEAN]
           row == [id |-> DeliveryId(next.chain, ordinal), version |-> next.sequence,
                   ordinal |-> ordinal, acked |-> FALSE]
           at == IF ordinal = 0 THEN "deliver next" ELSE "commit"
<1>1. /\ TypeOK /\ call[h].op \in CallType /\ call[h].op.kind = "Commit"
      /\ MyView(h).anchor \in Anchors /\ work \in Tables
  BY CallCases, ConnTypes DEF DeliverStep, IInv, SoundCall, Busy, Views, TypeOK
<1>2. row \in R
  <2>1. next.sequence \in Nat /\ next.chain \in Seq(Links) /\ ordinal \in 0 .. 1
    BY <1>1, MovedTypes
  <2> HIDE DEF next, ordinal
  <2> QED BY <2>1 DEF DeliveryId, DeliveryIds
<1>3. work.outbox \in Seq(R)
  BY <1>1 DEF Tables
<1>4. work' = [work EXCEPT !.outbox = Append(@, row)] /\ Goto(h, at)
  BY DEF DeliverStep
<1>5. work' \in Tables
  <2>1. Append(work.outbox, row) \in Seq(R)
    <3> HIDE DEF R, row
    <3> QED BY <1>2, <1>3
  <2> HIDE DEF row
  <2> QED BY <1>1, <1>4, <2>1 DEF Tables
<1>6. call[h].at \in Writing /\ at \in {"deliver next", "commit"} /\ at \in Writing \ {"state"}
  BY DEF DeliverStep, Writing
<1>7. UNCHANGED <<db, lock, view, answer, invalidated, wrote>>
  BY DEF DeliverStep
<1> HIDE DEF at
<1> QED BY <1>1, <1>4, <1>5, <1>6, <1>7, WorkIInv

\* UPDATE v2_deliveries.
LEMMA MarkIInv ==
    ASSUME IInv, NEW h \in Handles, MarkStep(h)
    PROVE  IInv'
<1> DEFINE R == [id: DeliveryIds, version: Nat, ordinal: 0 .. 1, acked: BOOLEAN]
           marked == [i \in 1 .. Len(work.outbox) |->
                        IF work.outbox[i].id = call[h].op.id
                        THEN [work.outbox[i] EXCEPT !.acked = TRUE] ELSE work.outbox[i]]
<1>1. work \in Tables /\ call[h].op.kind = "Acknowledge"
  BY DEF MarkStep, IInv, SoundCall, TypeOK
<1>2. work.outbox \in Seq(R)
  BY <1>1 DEF Tables
<1>3. \A i \in 1 .. Len(work.outbox) : work.outbox[i] \in R
  <2> HIDE DEF R
  <2> QED BY <1>2
<1>4. \A i \in 1 .. Len(work.outbox) : marked[i] \in R
  BY <1>3
<1>5. marked \in Seq(R)
  <2>1. Len(work.outbox) \in Nat
    BY <1>2
  <2> HIDE DEF R
  <2>2. marked \in [1 .. Len(work.outbox) -> R]
    BY <1>4
  <2> QED BY <2>1, <2>2
<1>6. work' = [work EXCEPT !.outbox = marked]
  BY DEF MarkStep
<1>7. work' \in Tables
  <2> HIDE DEF marked
  <2> QED BY <1>1, <1>5, <1>6 DEF Tables
<1>8. call[h].at \in Writing /\ "commit" \in Writing \ {"state"} /\ Goto(h, "commit")
  BY DEF MarkStep, Writing
<1>9. UNCHANGED <<db, lock, view, answer, invalidated, wrote>>
  BY DEF MarkStep
<1> QED BY <1>1, <1>7, <1>8, <1>9, WorkIInv

\* A statement fails before COMMIT took effect.
LEMMA FailIInv ==
    ASSUME IInv, NEW h \in Handles, FailStep(h)
    PROVE  IInv'
<1>1. PICK o \in {NotApplied("Busy"), NotApplied("Full"), IoAnswer(call[h].op)} :
        Finish(h, o, view)
  BY DEF FailStep
<1>2. o \in Answers
  BY AnswerTypes DEF IoAnswer, Faults
<1> QED BY <1>1, <1>2, RollbackIInv DEF FailStep

\* The process dies before COMMIT took effect.
LEMMA CrashIInv ==
    ASSUME IInv, NEW h \in Handles, CrashStep(h)
    PROVE  IInv'
<1> DEFINE views == [view EXCEPT ![<<h, "held">>] = Closed]
<1>1. TypeOK
  BY DEF IInv
<1>2. Finish(h, Crashed, views) /\ Rollback(h) /\ db' = db
  BY DEF CrashStep
<1>3. views \in [Conns -> Views]
  BY <1>1, ConnTypes, EmptyTypes
<1>4. KeepsOthers(h, views)
  BY <1>1, <1>2, ConnTypes, OtherConns, RollbackLock DEF KeepsOthers
<1>5. StoreTypes /\ lock' # h
  BY <1>1, <1>2, RollbackLock DEF StoreTypes, TypeOK, CrashStep
<1> QED BY <1>2, <1>3, <1>4, <1>5, AnswerTypes, FinishIInv

\* COMMIT takes effect and is answered.
LEMMA CommitIInv ==
    ASSUME IInv, NEW h \in Handles, CommitStep(h)
    PROVE  IInv'
<1> DEFINE moved == [view EXCEPT ![Conn(h)].anchor = Anchor(work)]
<1>1. TypeOK /\ lock = h /\ work \in Tables
  BY DEF IInv, AtHead, CommitStep, Writing, TypeOK
<1>2. Conn(h) \in Conns /\ view \in [Conns -> Views] /\ Anchor(work) \in Anchors
  BY <1>1, ConnTypes, AnchorTypes
<1>3. /\ moved \in [Conns -> Views]
      /\ \A c \in Conns \ {Conn(h)} : moved[c] = view[c]
  BY <1>2 DEF Views
<1>4. Finish(h, Success(h), Noticed(moved, Conn(h))) /\ lock' = None
  BY DEF CommitStep
<1> HIDE DEF moved
<1>5. Success(h) \in Answers
  BY <1>1, AnswerTypes, ShellAssumption DEF Success, Tables
<1>6. Noticed(moved, Conn(h)) \in [Conns -> Views]
  BY <1>2, <1>3, NoticedViews
<1>7. KeepsOthers(h, Noticed(moved, Conn(h)))
  <2>1. \A c \in Conns \ {Conn(h)} : /\ Noticed(moved, Conn(h))[c].open = view[c].open
                                   /\ Noticed(moved, Conn(h))[c].anchor = view[c].anchor
    BY <1>2, <1>3, NoticedViews
  <2>2. \A g \in Handles \ {h} : lock # g /\ lock' # g
    BY <1>1, <1>4, ShellAssumption
  <2> QED BY <2>1, <2>2, OtherConns DEF KeepsOthers
<1>8. StoreTypes /\ lock' # h
  BY <1>1, <1>4, ShellAssumption DEF StoreTypes, TypeOK, CommitStep, Commits
<1> QED BY <1>4, <1>5, <1>6, <1>7, <1>8, FinishIInv

\* COMMIT takes effect and its answer is lost.
LEMMA LostIInv ==
    ASSUME IInv, NEW h \in Handles, LostStep(h)
    PROVE  IInv'
<1> DEFINE noticed == Noticed(view, Conn(h))
           closed == [noticed EXCEPT ![<<h, "held">>] = Closed]
<1>1. TypeOK /\ lock = h /\ lock' = None
  BY DEF IInv, AtHead, LostStep, Writing
<1>2. Conn(h) \in Conns /\ view \in [Conns -> Views] /\ <<h, "held">> \in Conns
  BY <1>1, ConnTypes
<1>3. StoreTypes /\ lock' # h
  BY <1>1, ShellAssumption DEF StoreTypes, TypeOK, LostStep, Commits
<1>4. noticed \in [Conns -> Views] /\ KeepsOthers(h, noticed)
  BY <1>1, <1>2, NoticedViews, OtherConns, ShellAssumption DEF KeepsOthers
<1>5. CASE Finish(h, Unknown("Io"), noticed)
  BY <1>3, <1>4, <1>5, AnswerTypes, FinishIInv DEF Faults
<1>6. CASE Finish(h, Crashed, closed)
  <2> HIDE DEF noticed
  <2>1. closed \in [Conns -> Views] /\ \A c \in Conns \ {<<h, "held">>} : closed[c] = noticed[c]
    BY <1>2, <1>4, EmptyTypes
  <2>2. KeepsOthers(h, closed)
    BY <1>4, <2>1, OtherConns DEF KeepsOthers
  <2> QED BY <1>3, <1>6, <2>1, <2>2, AnswerTypes, FinishIInv
<1> QED BY <1>5, <1>6 DEF LostStep

-----------------------------------------------------------------------------
(* The theorems. *)

\* Every step of a terminal at work keeps the invariant.
LEMMA StepIInv ==
    ASSUME IInv, NEW h \in Handles, Step(h)
    PROVE  IInv'
BY OpenIInv, AuditIInv, SyncIInv, BeginStepIInv, AdoptIInv, StateIInv, RowIInv, DeliverIInv,
   MarkIInv, CommitIInv, FailIInv, CrashIInv, LostIInv DEF Step

\* So does a step that changes no more than answers and invalidations.
LEMMA AsideIInv ==
    ASSUME IInv, UNCHANGED <<db, lock, work, view, call, wrote>>,
           answer' \in [Handles -> Answers], invalidated' \in [Handles -> BOOLEAN]
    PROVE  IInv'
<1>1. TypeOK'
  BY DEF IInv, TypeOK
<1>2. \A h \in Handles : SoundCall(h)' /\ AtHead(h)'
  BY DEF IInv, SoundCall, AtHead, MyView, Conn, Idle, Anchor, Writing
<1> QED BY <1>1, <1>2 DEF IInv

\* Every step of every terminal keeps the invariant.
LEMMA NextIInv == IInv /\ [Next]_vars => IInv'
<1> SUFFICES ASSUME IInv, [Next]_vars PROVE IInv'
  OBVIOUS
<1>1. CASE UNCHANGED vars
  BY <1>1, AsideIInv DEF vars, IInv, TypeOK
<1>2. ASSUME NEW h \in Handles, NEW op \in Calls, Begin(h, op) PROVE IInv'
  BY <1>2, BeginIInv, ShellAssumption
<1> QED BY <1>1, <1>2, StepIInv DEF Next

\* Every reachable state satisfies the invariant.
LEMMA SpecIInv == Spec => []IInv
BY InitIInv, NextIInv, PTL DEF Spec

\* Tables, caches, operations and answers keep their types.
THEOREM TypeCorrect == Spec => []TypeOK
<1>1. IInv => TypeOK
  BY DEF IInv
<1> QED BY <1>1, SpecIInv, PTL

\* However many terminals open, audit, read, commit, acknowledge, fail and
\* crash on one store, a terminal that is writing (between BEGIN IMMEDIATE and
\* COMMIT of commit_controlled or Delivered::acknowledge) is the one with the
\* write lock, and the anchor it computes from is the committed head.
THEOREM WritersWriteAtHead == Spec => []WriterAtHead
<1>1. IInv => WriterAtHead
  BY DEF IInv, WriterAtHead, AtHead
<1> QED BY <1>1, SpecIInv, PTL

-----------------------------------------------------------------------------
(* The tables. *)

\* What the first n commit rows chain to, and the counter they leave.
LinksOf(rows, n) == [j \in 1 .. n |-> [key |-> rows[j].key, publication |-> rows[j].publication]]

Left(rows, n) == IF n = 0 THEN 0 ELSE rows[n].publication.prestate + rows[n].publication.body

\* The i-th commit row is computed for the rows before it.
RowAgrees(rows, i) ==
    /\ rows[i].version = i
    /\ rows[i].publication.prestate = Left(rows, i - 1)
    /\ rows[i].chain = LinksOf(rows, i)

\* Its delivery row with ordinal o is at its place in the outbox.
EntryAgrees(rows, outbox, i, o) ==
    LET entry == outbox[2 * i - 1 + o]
    IN  entry.id = DeliveryId(rows[i].chain, o) /\ entry.version = i /\ entry.ordinal = o

\* The tables belong to the same commits.
Agree(t) ==
    LET n == Len(t.commits)
    IN  /\ t.sequence = n /\ t.state = Left(t.commits, n) /\ t.chain = LinksOf(t.commits, n)
        /\ Len(t.outbox) = 2 * n
        /\ \A i \in 1 .. n : RowAgrees(t.commits, i)
        /\ \A i, j \in 1 .. n : t.commits[i].key = t.commits[j].key => i = j
        /\ \A i \in 1 .. n : \A o \in 0 .. 1 : EntryAgrees(t.commits, t.outbox, i, o)

-----------------------------------------------------------------------------
(* The tables after each statement of a writing transaction. *)

NewRow(next, op) ==
    [key |-> op.key, version |-> next.sequence, publication |-> op.publication,
     chain |-> next.chain]

NewEntry(next, o) ==
    [id |-> DeliveryId(next.chain, o), version |-> next.sequence, ordinal |-> o, acked |-> FALSE]

Headed(t, op) ==
    LET next == Moved(Anchor(t), op)
    IN  [sequence |-> next.sequence, state |-> next.state, chain |-> next.chain,
         commits |-> t.commits, outbox |-> t.outbox]

Rowed(t, op) ==
    LET next == Moved(Anchor(t), op)
    IN  [sequence |-> next.sequence, state |-> next.state, chain |-> next.chain,
         commits |-> Append(t.commits, NewRow(next, op)), outbox |-> t.outbox]

Half(t, op) ==
    LET next == Moved(Anchor(t), op)
    IN  [sequence |-> next.sequence, state |-> next.state, chain |-> next.chain,
         commits |-> Append(t.commits, NewRow(next, op)),
         outbox |-> Append(t.outbox, NewEntry(next, 0))]

Whole(t, op) ==
    LET next == Moved(Anchor(t), op)
    IN  [sequence |-> next.sequence, state |-> next.state, chain |-> next.chain,
         commits |-> Append(t.commits, NewRow(next, op)),
         outbox |-> Append(Append(t.outbox, NewEntry(next, 0)), NewEntry(next, 1))]

Marked(t, id) ==
    [sequence |-> t.sequence, state |-> t.state, chain |-> t.chain, commits |-> t.commits,
     outbox |-> [i \in 1 .. Len(t.outbox) |->
                    IF t.outbox[i].id = id THEN [t.outbox[i] EXCEPT !.acked = TRUE]
                    ELSE t.outbox[i]]]

\* A commit that may be written: its key is new, and it was computed for the
\* head; an acknowledgement that may be: its delivery is there and pending.
Fresh(op) == Rows(db, op.key) = {} /\ op.publication.prestate = db.state

Pending(op) == Found(db, op.id) # {} /\ \A i \in Found(db, op.id) : ~db.outbox[i].acked

Complete(op) == IF op.kind = "Commit" THEN Whole(db, op) ELSE Marked(db, op.id)

\* The transaction of a writing terminal holds exactly the statements it has
\* executed, on the committed tables.
Staged(h) ==
    LET op == call[h].op
    IN  call[h].at \in Writing =>
          /\ op.kind = "Commit" => Fresh(op)
          /\ op.kind = "Acknowledge" => Pending(op)
          /\ call[h].at \in {"state", "mark"} => work = db
          /\ call[h].at = "row" => work = Headed(db, op)
          /\ call[h].at = "deliver" => work = Rowed(db, op)
          /\ call[h].at = "deliver next" => work = Half(db, op)
          /\ call[h].at = "commit" => work = Complete(op)

\* An operation under way has not written yet.
Quiet(h) == call[h] # Idle => ~wrote[h]

\* The answer o of an operation that wrote or did not, over the commit rows.
SaysTrue(o, written, rows) ==
    /\ o.tag \in {"Refused", "NotApplied"} => ~written
    /\ o = Acknowledged => written
    /\ o.tag = "Ok" /\ o.value.status \in {"Committed", "IdempotentReplay"} =>
         /\ (o.value.status = "Committed") <=> written
         /\ o.value.version \in 1 .. Len(rows)
         /\ rows[o.value.version].chain = o.value.chain

\* The inductive invariant.
TInv ==
    /\ IInv /\ Agree(db)
    /\ \A h \in Handles : Staged(h) /\ Quiet(h) /\ SaysTrue(answer[h], wrote[h], db.commits)

-----------------------------------------------------------------------------
(* A commit and an acknowledgement keep the tables in agreement. *)

CommitRows == [key: Keys, version: Nat, publication: Publications, chain: Seq(Links)]

Entries == [id: DeliveryIds, version: Nat, ordinal: 0 .. 1, acked: BOOLEAN]

\* A sequence with one more element.
LEMMA OneAppended ==
    ASSUME NEW S, NEW s \in Seq(S), NEW x \in S, NEW n \in Nat, Len(s) = n
    PROVE  /\ Append(s, x) \in Seq(S) /\ Len(Append(s, x)) = n + 1
           /\ Append(s, x)[n + 1] = x
           /\ \A i \in 1 .. n : Append(s, x)[i] = s[i]
BY AppendProperties

\* Over tables t with n commits and m delivery rows, e has one commit row more
\* and two pending delivery rows.
Adds(e, t, op, n, m) ==
    /\ e.sequence = n + 1 /\ e.state = op.publication.prestate + op.publication.body
    /\ e.chain = Append(t.chain, [key |-> op.key, publication |-> op.publication])
    /\ Len(e.commits) = n + 1
    /\ e.commits[n + 1] = [key |-> op.key, version |-> n + 1, publication |-> op.publication,
                           chain |-> e.chain]
    /\ \A i \in 1 .. n : e.commits[i] = t.commits[i]
    /\ Len(t.outbox) = m /\ Len(e.outbox) = m + 2
    /\ e.outbox[m + 1] = [id |-> DeliveryId(e.chain, 0), version |-> n + 1, ordinal |-> 0,
                          acked |-> FALSE]
    /\ e.outbox[m + 2] = [id |-> DeliveryId(e.chain, 1), version |-> n + 1, ordinal |-> 1,
                          acked |-> FALSE]
    /\ \A k \in 1 .. m : e.outbox[k] = t.outbox[k]

\* That is what a whole commit adds.
LEMMA WholeParts ==
    ASSUME NEW t \in Tables, Agree(t), NEW op \in CallType, op.kind = "Commit",
           NEW n \in Nat, Len(t.commits) = n, NEW m \in Nat, m = 2 * n,
           NEW e, e = Whole(t, op)
    PROVE  Adds(e, t, op, n, m)
<1> DEFINE next == Moved(Anchor(t), op)
           row == NewRow(next, op)
           one == NewEntry(next, 0)
           two == NewEntry(next, 1)
<1>1. /\ t.commits \in Seq(CommitRows) /\ t.outbox \in Seq(Entries) /\ Anchor(t) \in Anchors
      /\ Len(t.outbox) = m
  BY AnchorTypes DEF Tables, CommitRows, Entries, Agree
<1>2. /\ next.sequence = n + 1 /\ next.state = op.publication.prestate + op.publication.body
      /\ next.chain = Append(t.chain, [key |-> op.key, publication |-> op.publication])
  BY DEF Moved, Chained, Anchor, Agree
<1>3. /\ op.key \in Keys /\ op.publication \in Publications
      /\ next.sequence \in Nat /\ next.chain \in Seq(Links)
  BY <1>1, MovedTypes
<1>4. /\ e.sequence = next.sequence /\ e.state = next.state /\ e.chain = next.chain
      /\ e.commits = Append(t.commits, row)
      /\ e.outbox = Append(Append(t.outbox, one), two)
  BY DEF Whole
<1> HIDE DEF next
<1>5. row \in CommitRows /\ one \in Entries /\ two \in Entries
  BY <1>3 DEF CommitRows, Entries, NewRow, NewEntry, DeliveryId, DeliveryIds
<1>6. /\ row = [key |-> op.key, version |-> n + 1, publication |-> op.publication,
                chain |-> next.chain]
      /\ one = [id |-> DeliveryId(next.chain, 0), version |-> n + 1, ordinal |-> 0, acked |-> FALSE]
      /\ two = [id |-> DeliveryId(next.chain, 1), version |-> n + 1, ordinal |-> 1, acked |-> FALSE]
  BY <1>2 DEF NewRow, NewEntry
<1> HIDE DEF row, one, two
<1>7. /\ Len(Append(t.commits, row)) = n + 1 /\ Append(t.commits, row)[n + 1] = row
      /\ \A i \in 1 .. n : Append(t.commits, row)[i] = t.commits[i]
  BY <1>1, <1>5, OneAppended
<1> DEFINE half == Append(t.outbox, one)
<1>8. /\ half \in Seq(Entries) /\ Len(half) = m + 1 /\ half[m + 1] = one
      /\ \A i \in 1 .. m : half[i] = t.outbox[i]
  BY <1>1, <1>5, OneAppended
<1> HIDE DEF half
<1>9. ASSUME NEW k \in Nat, k = m + 1
      PROVE  /\ Len(Append(half, two)) = k + 1 /\ Append(half, two)[k + 1] = two
             /\ \A i \in 1 .. k : Append(half, two)[i] = half[i]
  BY <1>5, <1>8, <1>9, OneAppended
<1>10. /\ Len(Append(half, two)) = m + 2 /\ Append(half, two)[m + 2] = two
       /\ Append(half, two)[m + 1] = one
       /\ \A i \in 1 .. m : Append(half, two)[i] = t.outbox[i]
  <2> DEFINE k == m + 1
  <2>1. k \in Nat /\ k + 1 = m + 2 /\ k \in 1 .. k /\ \A i \in 1 .. m : i \in 1 .. k
    OBVIOUS
  <2>2. /\ Len(Append(half, two)) = k + 1 /\ Append(half, two)[k + 1] = two
        /\ \A i \in 1 .. k : Append(half, two)[i] = half[i]
    BY <1>9, <2>1
  <2>3. half[k] = one
    BY <1>8
  <2> HIDE DEF k
  <2>4. /\ Len(Append(half, two)) = m + 2 /\ Append(half, two)[m + 2] = two
        /\ Append(half, two)[k] = one
        /\ \A i \in 1 .. m : Append(half, two)[i] = half[i]
    BY <2>1, <2>2, <2>3
  <2> QED
    BY <1>8, <2>4 DEF k
<1> QED
  BY <1>1, <1>2, <1>4, <1>6, <1>7, <1>10 DEF half, Adds

\* The first n rows are the same.
SameUpTo(rows, more, n) == \A i \in 1 .. n : more[i] = rows[i]

\* Rows that agree up to n chain to the same and leave the same.
LEMMA SamePrefix ==
    ASSUME NEW rows, NEW more, NEW n \in Nat, SameUpTo(rows, more, n)
    PROVE  \A i \in 0 .. n : LinksOf(more, i) = LinksOf(rows, i) /\ Left(more, i) = Left(rows, i)
<1> TAKE i \in 0 .. n
<1>1. \A j \in 1 .. i : more[j] = rows[j]
  BY DEF SameUpTo
<1>2. LinksOf(more, i) = LinksOf(rows, i)
  BY <1>1 DEF LinksOf
<1>3. Left(more, i) = Left(rows, i)
  BY <1>1 DEF Left
<1> QED
  BY <1>2, <1>3

\* The chain of one more row.
LEMMA LinksAppended ==
    ASSUME NEW rows, NEW more, NEW n \in Nat, SameUpTo(rows, more, n),
           more \in Seq(CommitRows), Len(more) = n + 1,
           NEW chain \in Seq(Links), chain = LinksOf(rows, n)
    PROVE  Append(chain, [key |-> more[n + 1].key, publication |-> more[n + 1].publication])
             = LinksOf(more, n + 1)
<1> DEFINE link == [key |-> more[n + 1].key, publication |-> more[n + 1].publication]
           whole == LinksOf(more, n + 1)
<1>0. \A i \in 1 .. n + 1 : more[i] \in CommitRows
  BY ElementOfSeq
<1>1. \A j \in 1 .. n + 1 : whole[j] = [key |-> more[j].key, publication |-> more[j].publication]
  BY DEF LinksOf
<1>2. \A j \in 1 .. n + 1 : [key |-> more[j].key, publication |-> more[j].publication] \in Links
  BY <1>0 DEF CommitRows, Links
<1>3. whole \in Seq(Links) /\ Len(whole) = n + 1
  BY <1>2, IsASeq DEF LinksOf
<1>4. Len(chain) = n /\ \A j \in 1 .. n : chain[j] = whole[j]
  BY DEF LinksOf, SameUpTo
<1>5. link \in Links /\ whole[n + 1] = link
  BY <1>1, <1>2
<1> HIDE DEF link, whole
<1>6. /\ Append(chain, link) \in Seq(Links) /\ Len(Append(chain, link)) = n + 1
      /\ Append(chain, link)[n + 1] = link
      /\ \A i \in 1 .. n : Append(chain, link)[i] = chain[i]
  BY <1>4, <1>5, OneAppended
<1>7. \A j \in 1 .. n + 1 : Append(chain, link)[j] = whole[j]
  BY <1>4, <1>5, <1>6
<1>8. Append(chain, link) = whole
  BY <1>3, <1>6, <1>7, SeqEqual
<1> QED
  BY <1>8 DEF link, whole

\* A whole commit under a new key, computed for the head, keeps the tables in
\* agreement.
LEMMA WholeAgrees ==
    ASSUME NEW t \in Tables, Agree(t), NEW op \in CallType, op.kind = "Commit",
           Rows(t, op.key) = {}, op.publication.prestate = t.state, Whole(t, op) \in Tables
    PROVE  Agree(Whole(t, op))
<1> DEFINE e == Whole(t, op)
           n == Len(t.commits)
           m == 2 * n
<1>1. n \in Nat /\ m \in Nat /\ t.commits \in Seq(CommitRows) /\ e.commits \in Seq(CommitRows)
      /\ t.chain \in Seq(Links) /\ Len(t.commits) = n /\ m = 2 * n /\ e = Whole(t, op)
  BY DEF Tables, CommitRows
<1> HIDE DEF e, n, m
<1>0. Adds(e, t, op, n, m)
  BY <1>1, WholeParts, Zenon
<1>2. /\ e.sequence = n + 1 /\ e.state = op.publication.prestate + op.publication.body
      /\ e.chain = Append(t.chain, [key |-> op.key, publication |-> op.publication])
      /\ Len(e.commits) = n + 1
      /\ e.commits[n + 1] = [key |-> op.key, version |-> n + 1, publication |-> op.publication,
                             chain |-> e.chain]
      /\ \A i \in 1 .. n : e.commits[i] = t.commits[i]
      /\ Len(t.outbox) = m /\ Len(e.outbox) = m + 2
      /\ e.outbox[m + 1] = [id |-> DeliveryId(e.chain, 0), version |-> n + 1, ordinal |-> 0,
                            acked |-> FALSE]
      /\ e.outbox[m + 2] = [id |-> DeliveryId(e.chain, 1), version |-> n + 1, ordinal |-> 1,
                            acked |-> FALSE]
      /\ \A k \in 1 .. m : e.outbox[k] = t.outbox[k]
  BY <1>0 DEF Adds
<1>14. SameUpTo(t.commits, e.commits, n) /\ Len(e.commits) = n + 1
  BY <1>2 DEF SameUpTo
<1>3. /\ t.sequence = n /\ t.state = Left(t.commits, n) /\ t.chain = LinksOf(t.commits, n)
      /\ \A i \in 1 .. n : RowAgrees(t.commits, i)
      /\ \A i, j \in 1 .. n : t.commits[i].key = t.commits[j].key => i = j
      /\ \A i \in 1 .. n : \A o \in 0 .. 1 : EntryAgrees(t.commits, t.outbox, i, o)
  BY DEF Agree, n
<1>4. \A i \in 1 .. n : t.commits[i].key # op.key
  BY <1>1 DEF Rows
<1>5. /\ e.commits[n + 1].key = op.key /\ e.commits[n + 1].version = n + 1
      /\ e.commits[n + 1].publication = op.publication /\ e.commits[n + 1].chain = e.chain
  BY <1>2
<1>6. e.chain = LinksOf(e.commits, n + 1)
  <2>2. Append(t.chain, [key |-> e.commits[n + 1].key,
                         publication |-> e.commits[n + 1].publication])
          = LinksOf(e.commits, n + 1)
    <3>1. t.chain = LinksOf(t.commits, n)
      BY <1>3
    <3> QED
      BY <1>1, <1>14, <3>1, LinksAppended
  <2> QED
    BY <1>2, <1>5, <2>2
<1>7. \A i \in 0 .. n : /\ LinksOf(e.commits, i) = LinksOf(t.commits, i)
                        /\ Left(e.commits, i) = Left(t.commits, i)
  BY <1>1, <1>14, SamePrefix
<1>8. e.state = Left(e.commits, n + 1)
  BY <1>1, <1>2, <1>5 DEF Left
<1>9. ASSUME NEW i \in 1 .. n + 1
      PROVE  RowAgrees(e.commits, i)
  <2>1. CASE i = n + 1
    <3>1. i - 1 = n /\ n \in 0 .. n
      BY <1>1, <2>1
    <3>2. e.commits[i].publication.prestate = Left(e.commits, i - 1)
      BY <1>3, <1>5, <1>7, <2>1, <3>1
    <3> QED
      BY <1>5, <1>6, <2>1, <3>2 DEF RowAgrees
  <2>2. CASE i # n + 1
    <3>1. i \in 1 .. n /\ i - 1 \in 0 .. n /\ i \in 0 .. n
      BY <1>1, <2>2
    <3>2. RowAgrees(t.commits, i) /\ e.commits[i] = t.commits[i]
      BY <1>2, <1>3, <3>1
    <3>3. Left(e.commits, i - 1) = Left(t.commits, i - 1)
          /\ LinksOf(e.commits, i) = LinksOf(t.commits, i)
      BY <1>7, <3>1
    <3> QED
      BY <3>2, <3>3 DEF RowAgrees
  <2> QED
    BY <2>1, <2>2
<1>10. ASSUME NEW i \in 1 .. n + 1, NEW j \in 1 .. n + 1, e.commits[i].key = e.commits[j].key
       PROVE  i = j
  <2>1. (i = n + 1 \/ i \in 1 .. n) /\ (j = n + 1 \/ j \in 1 .. n)
    BY <1>1
  <2> QED
    <3>1. i \in 1 .. n => e.commits[i].key # op.key /\ e.commits[i].key = t.commits[i].key
      BY <1>2, <1>4
    <3>2. j \in 1 .. n => e.commits[j].key # op.key /\ e.commits[j].key = t.commits[j].key
      BY <1>2, <1>4
    <3>3. i = n + 1 \/ j = n + 1 => i = j
      BY <1>5, <1>10, <2>1, <3>1, <3>2
    <3>4. i \in 1 .. n /\ j \in 1 .. n => i = j
      BY <1>3, <1>10, <3>1, <3>2
    <3> QED
      BY <2>1, <3>3, <3>4
<1>11. ASSUME NEW i \in 1 .. n + 1, NEW o \in 0 .. 1
       PROVE  EntryAgrees(e.commits, e.outbox, i, o)
  <2>1. CASE i = n + 1
    <3>1. 2 * i - 1 + o = m + 1 + o /\ (o = 0 \/ o = 1) /\ m + 1 + 0 = m + 1 /\ m + 1 + 1 = m + 2
      BY <1>1, <2>1 DEF m
    <3>2. e.outbox[m + 1 + o] = [id |-> DeliveryId(e.chain, o), version |-> n + 1, ordinal |-> o,
                                 acked |-> FALSE]
      <4>1. CASE o = 0
        BY <1>2, <3>1, <4>1
      <4>2. CASE o = 1
        BY <1>2, <3>1, <4>2
      <4> QED
        BY <3>1, <4>1, <4>2
    <3> QED
      BY <1>5, <2>1, <3>1, <3>2 DEF EntryAgrees
  <2>2. CASE i # n + 1
    <3>1. i \in 1 .. n /\ 2 * i - 1 + o \in 1 .. m
      BY <1>1, <2>2 DEF m
    <3>2. EntryAgrees(t.commits, t.outbox, i, o)
      BY <1>3, <3>1
    <3>3. e.outbox[2 * i - 1 + o] = t.outbox[2 * i - 1 + o] /\ e.commits[i] = t.commits[i]
      BY <1>2, <3>1
    <3> QED
      BY <3>2, <3>3 DEF EntryAgrees
  <2> QED
    BY <2>1, <2>2
<1>12. Len(e.outbox) = 2 * (n + 1)
  BY <1>1, <1>2 DEF m
<1>13. Agree(e)
  BY <1>2, <1>6, <1>8, <1>9, <1>10, <1>11, <1>12 DEF Agree
<1> QED
  BY <1>13 DEF e

\* An acknowledgement changes one flag and nothing of the agreement.
LEMMA MarkedAgrees ==
    ASSUME NEW t \in Tables, Agree(t), NEW id
    PROVE  LET e == Marked(t, id)
           IN  /\ Agree(e) /\ e.commits = t.commits /\ Len(e.outbox) = Len(t.outbox)
               /\ \A k \in 1 .. Len(t.outbox) :
                    /\ e.outbox[k].id = t.outbox[k].id /\ e.outbox[k].version = t.outbox[k].version
                    /\ e.outbox[k].ordinal = t.outbox[k].ordinal
                    /\ e.outbox[k].acked <=> t.outbox[k].acked \/ t.outbox[k].id = id
<1> DEFINE e == Marked(t, id)
           n == Len(t.commits)
<1>1. /\ t.outbox \in Seq(Entries) /\ Len(t.outbox) \in Nat /\ n \in Nat
      /\ Len(t.outbox) = 2 * n
  BY DEF Tables, Entries, Agree
<1>2. \A k \in 1 .. Len(t.outbox) : t.outbox[k] \in Entries
  BY <1>1, ElementOfSeq
<1>3. /\ e.sequence = t.sequence /\ e.state = t.state /\ e.chain = t.chain
      /\ e.commits = t.commits
      /\ e.outbox = [i \in 1 .. Len(t.outbox) |->
                       IF t.outbox[i].id = id THEN [t.outbox[i] EXCEPT !.acked = TRUE]
                       ELSE t.outbox[i]]
  BY DEF Marked
<1> HIDE DEF e, n
<1>4. Len(e.outbox) = Len(t.outbox)
  BY <1>1, <1>3
<1>5. ASSUME NEW k \in 1 .. Len(t.outbox)
      PROVE  /\ e.outbox[k].id = t.outbox[k].id /\ e.outbox[k].version = t.outbox[k].version
             /\ e.outbox[k].ordinal = t.outbox[k].ordinal
             /\ e.outbox[k].acked <=> t.outbox[k].acked \/ t.outbox[k].id = id
  <2>1. e.outbox[k] = IF t.outbox[k].id = id THEN [t.outbox[k] EXCEPT !.acked = TRUE]
                      ELSE t.outbox[k]
    BY <1>3
  <2> QED
    BY <1>2, <2>1 DEF Entries
<1>6. \A i \in 1 .. n : \A o \in 0 .. 1 : EntryAgrees(e.commits, e.outbox, i, o)
  <2> TAKE i \in 1 .. n
  <2> TAKE o \in 0 .. 1
  <2>1. EntryAgrees(t.commits, t.outbox, i, o)
    BY DEF Agree, n
  <2>2. 2 * i - 1 + o \in 1 .. Len(t.outbox)
    BY <1>1
  <2> QED
    BY <1>3, <1>5, <2>1, <2>2 DEF EntryAgrees
<1>7. Agree(e)
  BY <1>3, <1>4, <1>6 DEF Agree, n
<1> QED
  BY <1>3, <1>4, <1>5, <1>7 DEF e

-----------------------------------------------------------------------------
(* What every step needs. *)

\* Answers without a receipt are true of an operation that wrote nothing, and
\* of a crash or an unknown outcome whatever it wrote.
LEMMA PlainTrue ==
    ASSUME NEW rows
    PROVE  /\ SaysTrue(HeadRead, FALSE, rows)
           /\ \A code : SaysTrue(Refused(code), FALSE, rows)
           /\ \A fault : SaysTrue(NotApplied(fault), FALSE, rows)
           /\ \A w \in BOOLEAN : SaysTrue(NoOutcome, w, rows) /\ SaysTrue(Crashed, w, rows)
           /\ \A fault, w : SaysTrue(Unknown(fault), w, rows)
<1>0. Acknowledged.tag = "Ok" /\ Acknowledged.value.status = "Acknowledged"
  BY DEF Acknowledged, Ok
<1>1. SaysTrue(HeadRead, FALSE, rows)
  <2>1. HeadRead.tag = "Ok" /\ HeadRead.value.status = "Head"
    BY DEF HeadRead, Ok
  <2> QED
    BY <1>0, <2>1 DEF SaysTrue
<1>2. \A code : Refused(code).tag = "Refused" /\ NotApplied(code).tag = "NotApplied"
                /\ Unknown(code).tag = "Unknown"
  BY DEF Refused, NotApplied, Unknown
<1>3. NoOutcome.tag = "None" /\ Crashed.tag = "Crashed"
  BY DEF NoOutcome, Crashed
<1> QED
  BY <1>0, <1>1, <1>2, <1>3 DEF SaysTrue

\* A receipt stays true while rows are only added.
LEMMA StillTrue ==
    ASSUME NEW o, NEW w, NEW rows, NEW more, SaysTrue(o, w, rows),
           Len(rows) \in Nat, Len(more) \in Nat, Len(rows) <= Len(more),
           SameUpTo(rows, more, Len(rows))
    PROVE  SaysTrue(o, w, more)
BY DEF SaysTrue, SameUpTo

\* A terminal that does not move keeps its transaction.
LEMMA OtherStaged ==
    ASSUME TInv, NEW g \in Handles, call'[g] = call[g],
           lock = g => work' = work /\ db' = db
    PROVE  Staged(g)'
<1>1. AtHead(g) /\ Staged(g)
  BY DEF TInv, IInv
<1>2. CASE call[g].at \in Writing
  <2>1. work' = work /\ db' = db
    BY <1>1, <1>2 DEF AtHead
  <2> QED
    BY <1>1, <2>1 DEF Staged, Fresh, Pending, Complete, Rows, Found, Writing
<1>3. CASE call[g].at \notin Writing
  BY <1>3 DEF Staged, Writing
<1> QED
  BY <1>2, <1>3

\* The other terminals, when one of them leaves the tables alone.
LEMMA OthersTrue ==
    ASSUME TInv, NEW h \in Handles, \A g \in Handles \ {h} : call'[g] = call[g],
           \A g \in Handles \ {h} : lock = g => work' = work /\ db' = db,
           \A g \in Handles \ {h} : wrote'[g] = wrote[g] /\ answer'[g] = answer[g],
           Len(db.commits) \in Nat, Len(db'.commits) \in Nat,
           Len(db.commits) <= Len(db'.commits),
           SameUpTo(db.commits, db'.commits, Len(db.commits))
    PROVE  \A g \in Handles \ {h} :
             (Staged(g) /\ Quiet(g) /\ SaysTrue(answer[g], wrote[g], db.commits))'
<1> TAKE g \in Handles \ {h}
<1>1. Staged(g)'
  BY OtherStaged
<1>2. Quiet(g)'
  BY DEF TInv, Quiet, Idle
<1>3. SaysTrue(answer[g], wrote[g], db.commits)
  BY DEF TInv
<1>4. SaysTrue(answer[g], wrote[g], db'.commits)
  BY <1>3, StillTrue
<1> QED
  BY <1>1, <1>2, <1>4

\* The committed tables are well-typed and grow by nothing.
LEMMA SameTables ==
    ASSUME TInv, db' = db
    PROVE  /\ Agree(db)' /\ Len(db.commits) \in Nat /\ Len(db'.commits) \in Nat
           /\ Len(db.commits) <= Len(db'.commits)
           /\ SameUpTo(db.commits, db'.commits, Len(db.commits))
<1>1. db \in Tables
  BY DEF TInv, IInv, TypeOK
<1>2. Len(db.commits) \in Nat
  BY <1>1 DEF Tables
<1> QED
  BY <1>2 DEF TInv, SameUpTo

\* A step that ends an operation and leaves the committed tables alone.
LEMMA Ends ==
    ASSUME TInv, IInv', NEW h \in Handles, call[h] # Idle, NEW o, NEW views,
           Finish(h, o, views), SaysTrue(o, FALSE, db.commits), UNCHANGED <<db, wrote>>,
           \A g \in Handles \ {h} : lock = g => work' = work
    PROVE  TInv'
<1>1. TypeOK /\ call \in [Handles -> {Idle} \cup Busy] /\ answer \in [Handles -> Answers]
  BY DEF TInv, IInv, TypeOK, Busy
<1>2. /\ call'[h] = Idle /\ answer'[h] = o
      /\ \A g \in Handles \ {h} : call'[g] = call[g] /\ answer'[g] = answer[g]
  BY <1>1 DEF Finish
<1>3. wrote[h] = FALSE
  BY <1>1 DEF TInv, Quiet, TypeOK
<1>4. \A g \in Handles \ {h} :
        (Staged(g) /\ Quiet(g) /\ SaysTrue(answer[g], wrote[g], db.commits))'
  BY <1>2, SameTables, OthersTrue
<1>5. Staged(h)' /\ Quiet(h)'
  BY <1>2 DEF Staged, Quiet, Idle, Writing
<1>6. SaysTrue(answer[h], wrote[h], db.commits)'
  BY <1>2, <1>3
<1> QED
  BY <1>4, <1>5, <1>6, SameTables DEF TInv

\* A step that moves an operation on and leaves the committed tables alone.
LEMMA Moves ==
    ASSUME TInv, IInv', NEW h \in Handles, call[h] # Idle, call'[h].op = call[h].op,
           \A g \in Handles \ {h} : call'[g] = call[g], UNCHANGED <<db, wrote, answer>>,
           Staged(h)', \A g \in Handles \ {h} : lock = g => work' = work
    PROVE  TInv'
<1>1. \A g \in Handles \ {h} :
        (Staged(g) /\ Quiet(g) /\ SaysTrue(answer[g], wrote[g], db.commits))'
  BY SameTables, OthersTrue
<1>2. Quiet(h)'
  BY DEF TInv, Quiet
<1>3. SaysTrue(answer[h], wrote[h], db.commits)'
  BY DEF TInv
<1> QED
  BY <1>1, <1>2, <1>3, SameTables DEF TInv

\* Goto, to a step that does not write or whose statements are staged.
LEMMA GotoMoves ==
    ASSUME TInv, IInv', NEW h \in Handles, call[h] \in Busy, NEW at \in Steps, Goto(h, at),
           UNCHANGED <<db, wrote, answer>>,
           call'[h].at = at /\ call'[h].op = call[h].op => Staged(h)',
           \A g \in Handles \ {h} : lock = g => work' = work
    PROVE  TInv'
<1>1. TypeOK
  BY DEF TInv, IInv
<1>2. /\ call'[h].at = at /\ call'[h].op = call[h].op
      /\ \A g \in Handles \ {h} : call'[g] = call[g]
  BY <1>1, GotoCall
<1>3. call[h] # Idle
  BY <1>1, CallCases
<1> QED
  BY <1>2, <1>3, Moves

-----------------------------------------------------------------------------
(* One lemma per action. *)

\* Production::handle takes an operation, or refuses it at once.
LEMMA BeginTInv ==
    ASSUME TInv, IInv', NEW h \in Handles, NEW op \in CallType, Begin(h, op)
    PROVE  TInv'
<1>1. /\ call \in [Handles -> {Idle} \cup Busy] /\ answer \in [Handles -> Answers]
      /\ wrote \in [Handles -> BOOLEAN] /\ call[h] = Idle
  BY DEF TInv, IInv, TypeOK, Busy, Begin
<1>2. UNCHANGED <<db, lock, work>> /\ wrote' = [wrote EXCEPT ![h] = FALSE]
  BY DEF Begin
<1>3. \/ /\ call' = call
         /\ \E code : answer' = [answer EXCEPT ![h] = Refused(code)]
      \/ /\ answer' = [answer EXCEPT ![h] = NoOutcome]
         /\ \E at \in {"open", FirstStep(op)} : call' = [call EXCEPT ![h] = Under(op, at, 1)]
  BY DEF Begin
<1>4. /\ \A g \in Handles \ {h} : wrote'[g] = wrote[g] /\ answer'[g] = answer[g]
                                  /\ call'[g] = call[g]
      /\ wrote'[h] = FALSE
  BY <1>1, <1>2, <1>3
<1>5. \A g \in Handles \ {h} :
        (Staged(g) /\ Quiet(g) /\ SaysTrue(answer[g], wrote[g], db.commits))'
  BY <1>2, <1>4, SameTables, OthersTrue
<1>6. SaysTrue(answer[h], wrote[h], db.commits)'
  <2>1. answer'[h] = NoOutcome \/ \E code : answer'[h] = Refused(code)
    BY <1>1, <1>3
  <2> QED
    BY <1>2, <1>4, <2>1, PlainTrue
<1>7. call'[h].at \notin Writing
  <2>1. {"open", FirstStep(op)} \cap Writing = {}
    BY DEF FirstStep, Writing
  <2>2. Idle.at \notin Writing
    BY DEF Idle, Writing
  <2>3. \A at : Under(op, at, 1).at = at
    BY DEF Under
  <2>4. call'[h] = Idle \/ \E at \in {"open", FirstStep(op)} : call'[h] = Under(op, at, 1)
    BY <1>1, <1>3
  <2> QED
    BY <2>1, <2>2, <2>3, <2>4
<1>8. Staged(h)' /\ Quiet(h)'
  BY <1>4, <1>7 DEF Staged, Quiet, Idle, Writing
<1> QED
  BY <1>2, <1>5, <1>6, <1>8, SameTables DEF TInv

\* Opening, auditing, synchronizing and adopting write nothing.
LEMMA ReadStepTInv ==
    ASSUME TInv, IInv', NEW h \in Handles,
           OpenStep(h) \/ AuditStep(h) \/ SyncStep(h) \/ AdoptStep(h)
    PROVE  TInv'
<1>1. call[h].at \in {"open", "audit", "sync", "adopt"}
  BY DEF OpenStep, AuditStep, SyncStep, AdoptStep
<1>2. TypeOK /\ call[h] \in Busy /\ call[h] # Idle
  BY <1>1, CallCases DEF TInv, IInv
<1>3. UNCHANGED <<db, wrote, work>>
  BY DEF OpenStep, AuditStep, SyncStep, AdoptStep
<1>4. \/ \E o \in {HeadRead, Refused("History")} : \E views : Finish(h, o, views)
      \/ \E at \in {"audit", "sync", "begin"} : Goto(h, at) /\ UNCHANGED answer
  BY DEF OpenStep, AuditStep, SyncStep, AdoptStep, FirstStep
<1>5. ASSUME NEW o \in {HeadRead, Refused("History")}, NEW views, Finish(h, o, views)
      PROVE  TInv'
  <2>1. SaysTrue(o, FALSE, db.commits)
    BY PlainTrue
  <2> QED
    BY <1>2, <1>3, <1>5, <2>1, Ends
<1>6. ASSUME NEW at \in {"audit", "sync", "begin"}, Goto(h, at), UNCHANGED answer
      PROVE  TInv'
  <2>1. at \in Steps /\ at \notin Writing
    BY DEF Steps, Writing
  <2>2. call'[h].at = at => Staged(h)'
    BY <2>1 DEF Staged, Writing
  <2> QED
    BY <1>2, <1>3, <1>6, <2>1, <2>2, GotoMoves
<1> QED
  BY <1>4, <1>5, <1>6

\* What the checks of commit_controlled guarantee of a commit that may write.
LEMMA ApplyIsFresh ==
    ASSUME NEW anchor, NEW op, anchor = Anchor(db), CommitCheck(anchor, op) = "Apply"
    PROVE  Fresh(op)
BY DEF CommitCheck, Fresh, Anchor

\* A replay answers with the receipt of its row.
LEMMA ReplayIsTrue ==
    ASSUME TInv, NEW key, Rows(db, key) # {}
    PROVE  SaysTrue(Ok(StoredReceipt(key)), FALSE, db.commits)
<1> DEFINE i == CHOOSE i \in Rows(db, key) : TRUE
           o == Ok(StoredReceipt(key))
<1>1. i \in 1 .. Len(db.commits)
  BY DEF Rows
<1> HIDE DEF i
<1>2. RowAgrees(db.commits, i)
  BY <1>1 DEF TInv, Agree
<1>3. o.tag = "Ok" /\ o.value.version = db.commits[i].version
      /\ o.value.chain = db.commits[i].chain /\ o.value.status = "IdempotentReplay"
  BY DEF Ok, StoredReceipt, Receipt, i
<1>4. Acknowledged.value.status = "Acknowledged"
  BY DEF Acknowledged, Ok
<1> HIDE DEF o
<1>5. SaysTrue(o, FALSE, db.commits)
  BY <1>1, <1>2, <1>3, <1>4 DEF SaysTrue, RowAgrees
<1> QED
  BY <1>5 DEF o

\* After BEGIN IMMEDIATE: an answer, or the transaction of a writer.
LEMMA BeginStepTInv ==
    ASSUME TInv, IInv', NEW h \in Handles, BeginStep(h)
    PROVE  TInv'
<1> DEFINE op == call[h].op
<1>1. call[h].at = "begin" /\ lock = None /\ UNCHANGED <<db, wrote>>
  BY DEF BeginStep
<1>2. TypeOK /\ call[h] \in Busy /\ call[h] # Idle /\ call \in [Handles -> {Idle} \cup Busy]
  BY <1>1, CallCases DEF TInv, IInv, TypeOK, Busy
<1>3. \A g \in Handles : lock # g
  BY <1>1, ShellAssumption
<1>4. ASSUME NEW o, NEW views, Finish(h, o, views), SaysTrue(o, FALSE, db.commits)
      PROVE  TInv'
  BY <1>1, <1>2, <1>3, <1>4, Ends
<1>5. \A o : Says(h, o) => Finish(h, o, view)
  BY DEF Says
<1>6. ASSUME NEW at \in {"state", "mark"}, Takes(h, at),
             op.kind = "Commit" => Fresh(op), op.kind = "Acknowledge" => Pending(op)
      PROVE  TInv'
  <2>1. at \in Steps /\ at \in Writing
    BY DEF Steps, Writing
  <2>2. Goto(h, at) /\ UNCHANGED answer /\ work' = db
    BY <1>6 DEF Takes
  <2>3. call'[h].at = at /\ call'[h].op = call[h].op => Staged(h)'
    BY <1>1, <1>6, <2>2 DEF Staged, Fresh, Pending, Rows, Found
  <2> QED
    BY <1>1, <1>2, <1>3, <2>1, <2>2, <2>3, GotoMoves
<1>7. CASE ~CachedTip(h)
  <2>1. Says(h, Refused("Concurrent"))
    BY <1>7 DEF BeginStep
  <2> QED
    BY <1>4, <1>5, <2>1, PlainTrue
<1>8. CASE CachedTip(h) /\ op.kind \in {"Read", "Checkpoint"}
  <2>1. \E views : Finish(h, HeadRead, views)
    BY <1>8 DEF BeginStep, Says
  <2> QED
    BY <1>4, <2>1, PlainTrue
<1>9. CASE CachedTip(h) /\ op.kind = "Reopen"
  <2>1. Goto(h, "adopt") /\ UNCHANGED answer
    BY <1>9 DEF BeginStep
  <2>2. "adopt" \in Steps /\ (call'[h].at = "adopt" => Staged(h)')
    BY DEF Staged, Writing, Steps
  <2> QED
    BY <1>1, <1>2, <1>3, <2>1, <2>2, GotoMoves
<1>10. CASE CachedTip(h) /\ op.kind = "Commit"
  <2> DEFINE check == CommitCheck(MyView(h).anchor, op)
  <2>1. \/ check = "Apply" /\ Takes(h, "state")
        \/ check = "Replayed" /\ Says(h, Ok(StoredReceipt(op.key)))
        \/ \E code : Says(h, Refused(code))
    BY <1>10 DEF BeginStep, BeginCommit
  <2>2. MyView(h).anchor = Anchor(db) /\ MyView(h).anchor \in Anchors
    BY <1>2, <1>10, ConnTypes DEF CachedTip, Views
  <2>3. check = "Apply" => Fresh(op)
    BY <2>2, ApplyIsFresh
  <2>4. check = "Replayed" => Rows(db, op.key) # {}
    BY <2>2, CommitCheckCases
  <2> HIDE DEF check
  <2>5. CASE check = "Apply" /\ Takes(h, "state")
    BY <1>6, <1>10, <2>3, <2>5
  <2>6. CASE check = "Replayed" /\ Says(h, Ok(StoredReceipt(op.key)))
    BY <1>4, <1>5, <2>4, <2>6, ReplayIsTrue
  <2>7. ASSUME NEW code, Says(h, Refused(code)) PROVE TInv'
    BY <1>4, <1>5, <2>7, PlainTrue
  <2> QED
    BY <2>1, <2>5, <2>6, <2>7
<1>11. CASE CachedTip(h) /\ op.kind = "Acknowledge"
  <2>1. \/ \E code : Says(h, Refused(code))
        \/ call' = [call EXCEPT ![h].at = "sync", ![h].round = 2] /\ UNCHANGED answer
        \/ Pending(op) /\ Takes(h, "mark")
    BY <1>11 DEF BeginStep, BeginAcknowledge, Pending
  <2>2. ASSUME NEW code, Says(h, Refused(code)) PROVE TInv'
    BY <1>4, <1>5, <2>2, PlainTrue
  <2>3. CASE Pending(op) /\ Takes(h, "mark")
    BY <1>6, <1>11, <2>3
  <2>4. CASE call' = [call EXCEPT ![h].at = "sync", ![h].round = 2] /\ UNCHANGED answer
    <3>1. /\ call'[h].at = "sync" /\ call'[h].op = call[h].op
          /\ \A g \in Handles \ {h} : call'[g] = call[g]
      BY <1>2, <2>4 DEF Busy
    <3>2. Staged(h)'
      BY <3>1 DEF Staged, Writing
    <3> QED
      BY <1>1, <1>2, <1>3, <2>4, <3>1, <3>2, Moves
  <2> QED
    BY <2>1, <2>2, <2>3, <2>4
<1>12. op.kind \in {"Read", "Checkpoint", "Reopen", "Commit", "Acknowledge"}
  <2>1. op \in CallType /\ op.kind # "Audit"
    BY <1>1, <1>2 DEF Busy, TInv, IInv, SoundCall
  <2> QED
    BY <2>1 DEF CallType
<1> QED
  BY <1>7, <1>8, <1>9, <1>10, <1>11, <1>12

\* A statement of the writer's own transaction.
LEMMA StatementTInv ==
    ASSUME TInv, IInv', NEW h \in Handles, NEW at \in Writing, call[h].at \in Writing, Goto(h, at),
           UNCHANGED <<db, wrote, answer>>,
           LET op == call[h].op
           IN  /\ at \in {"state", "mark"} => work' = db
               /\ at = "row" => work' = Headed(db, op)
               /\ at = "deliver" => work' = Rowed(db, op)
               /\ at = "deliver next" => work' = Half(db, op)
               /\ at = "commit" => work' = Complete(op)
    PROVE  TInv'
<1>1. TypeOK /\ call[h] \in Busy /\ at \in Steps /\ lock = h
  BY CallCases DEF TInv, IInv, Writing, Steps, AtHead
<1>2. ASSUME call'[h].at = at, call'[h].op = call[h].op
      PROVE  Staged(h)'
  <2> DEFINE op == call[h].op
  <2>1. /\ op.kind = "Commit" => Fresh(op)
        /\ op.kind = "Acknowledge" => Pending(op)
    BY DEF TInv, Staged
  <2>2. Complete(op)' = Complete(op')
    BY DEF Complete
  <2>3. /\ Fresh(op) => Fresh(op)'
        /\ Pending(op) => Pending(op)'
        /\ op' = op
    BY <1>2 DEF Fresh, Pending, Rows, Found
  <2> QED
    BY <1>2, <2>1, <2>3 DEF Staged, Fresh, Pending, Rows, Found, Complete
<1>3. \A g \in Handles \ {h} : lock # g
  BY <1>1
<1> QED
  BY <1>1, <1>2, <1>3, GotoMoves

\* The writer computes from the committed head.
LEMMA WriterFacts ==
    ASSUME TInv, NEW h \in Handles, call[h].at \in Writing
    PROVE  /\ lock = h /\ MyView(h).anchor = Anchor(db) /\ call[h] \in Busy /\ call[h] # Idle
           /\ call[h].op \in CallType /\ db \in Tables /\ work \in Tables
           /\ call[h].at \in {"state", "row", "deliver", "deliver next"} => call[h].op.kind = "Commit"
           /\ call[h].at = "mark" => call[h].op.kind = "Acknowledge"
           /\ call[h].at = "commit" => call[h].op.kind \in {"Commit", "Acknowledge"}
           /\ Staged(h)
<1>1. TypeOK /\ AtHead(h) /\ SoundCall(h) /\ Staged(h)
  BY DEF TInv, IInv
<1>2. call[h] \in Busy /\ call[h] # Idle
  BY <1>1, CallCases DEF Writing
<1> QED
  BY <1>1, <1>2 DEF AtHead, SoundCall, TypeOK, Busy

\* Tables with their parts named.
LEMMA TableShape ==
    ASSUME NEW t \in Tables
    PROVE  t = [sequence |-> t.sequence, state |-> t.state, chain |-> t.chain,
                commits |-> t.commits, outbox |-> t.outbox]
BY DEF Tables

\* UPDATE v2_state: the guard holds, since the writer is at the head.
LEMMA StateTInv ==
    ASSUME TInv, IInv', NEW h \in Handles, StateStep(h)
    PROVE  TInv'
<1> DEFINE op == call[h].op
           next == Moved(Anchor(db), op)
<1>1. call[h].at = "state" /\ call[h].at \in Writing /\ "row" \in Writing
  BY DEF StateStep, Writing
<1>2. MyView(h).anchor = Anchor(db) /\ db \in Tables /\ Staged(h)
  BY <1>1, WriterFacts
<1>3. work = db
  BY <1>1, <1>2 DEF Staged
<1>4. /\ work' = [work EXCEPT !.sequence = next.sequence, !.state = next.state,
                              !.chain = next.chain]
      /\ Goto(h, "row") /\ UNCHANGED <<db, wrote, answer>>
  BY <1>2, <1>3 DEF StateStep
<1>5. work' = Headed(db, op)
  <2> HIDE DEF next
  <2> DEFINE t == [sequence |-> db.sequence, state |-> db.state, chain |-> db.chain,
                   commits |-> db.commits, outbox |-> db.outbox]
  <2>1. work = t
    BY <1>2, <1>3, TableShape
  <2>2. work' = [t EXCEPT !.sequence = next.sequence, !.state = next.state, !.chain = next.chain]
    BY <1>4, <2>1
  <2>3. work' = [sequence |-> next.sequence, state |-> next.state, chain |-> next.chain,
                 commits |-> db.commits, outbox |-> db.outbox]
    BY <2>2
  <2> QED
    BY <2>3 DEF Headed, next
<1> QED
  BY <1>1, <1>4, <1>5, StatementTInv

\* INSERT INTO v2_commits.
LEMMA RowTInv ==
    ASSUME TInv, IInv', NEW h \in Handles, RowStep(h)
    PROVE  TInv'
<1> DEFINE op == call[h].op
           next == Moved(Anchor(db), op)
<1>1. call[h].at = "row" /\ call[h].at \in Writing /\ "deliver" \in Writing
  BY DEF RowStep, Writing
<1>2. MyView(h).anchor = Anchor(db) /\ db \in Tables /\ Staged(h)
  BY <1>1, WriterFacts
<1>3. work = Headed(db, op)
  BY <1>1, <1>2 DEF Staged
<1>4. /\ work' = [work EXCEPT !.commits = Append(@, NewRow(next, op))]
      /\ Goto(h, "deliver") /\ UNCHANGED <<db, wrote, answer>>
  BY <1>2 DEF RowStep, NewRow
<1>5. work' = Rowed(db, op)
  <2>1. work = [sequence |-> next.sequence, state |-> next.state, chain |-> next.chain,
                commits |-> db.commits, outbox |-> db.outbox]
    BY <1>3 DEF Headed
  <2> DEFINE row == NewRow(next, op)
  <2>2. work' = [work EXCEPT !.commits = Append(@, row)]
    BY <1>4
  <2> HIDE DEF next, row
  <2>3. work' = [sequence |-> next.sequence, state |-> next.state, chain |-> next.chain,
                 commits |-> Append(db.commits, row), outbox |-> db.outbox]
    BY <2>1, <2>2
  <2> QED
    BY <2>3 DEF Rowed, next, row
<1> QED
  BY <1>1, <1>4, <1>5, StatementTInv

\* INSERT INTO v2_deliveries, the first row and the second.
LEMMA DeliverTInv ==
    ASSUME TInv, IInv', NEW h \in Handles, DeliverStep(h)
    PROVE  TInv'
<1> DEFINE op == call[h].op
           next == Moved(Anchor(db), op)
<1>1. /\ call[h].at \in {"deliver", "deliver next"} /\ call[h].at \in Writing
      /\ "deliver next" \in Writing /\ "commit" \in Writing
  BY DEF DeliverStep, Writing
<1>2. /\ MyView(h).anchor = Anchor(db) /\ db \in Tables /\ Staged(h) /\ op.kind = "Commit"
  BY <1>1, WriterFacts
<1>3. UNCHANGED <<db, wrote, answer>>
  BY DEF DeliverStep
<1>4. CASE call[h].at = "deliver"
  <2>1. work = Rowed(db, op)
    BY <1>1, <1>2, <1>4 DEF Staged
  <2> DEFINE entry == NewEntry(next, 0)
             rows == Append(db.commits, NewRow(next, op))
  <2>2. work' = [work EXCEPT !.outbox = Append(@, entry)] /\ Goto(h, "deliver next")
    BY <1>2, <1>4 DEF DeliverStep, NewEntry
  <2>3. work = [sequence |-> next.sequence, state |-> next.state, chain |-> next.chain,
                commits |-> rows, outbox |-> db.outbox]
    BY <2>1 DEF Rowed
  <2> HIDE DEF next, rows, entry
  <2>4. work' = [sequence |-> next.sequence, state |-> next.state, chain |-> next.chain,
                 commits |-> rows, outbox |-> Append(db.outbox, entry)]
    BY <2>2, <2>3
  <2>5. work' = Half(db, op)
    BY <2>4 DEF Half, next, rows, entry
  <2> QED
    BY <1>1, <1>3, <2>2, <2>5, StatementTInv
<1>5. CASE call[h].at = "deliver next"
  <2>1. work = Half(db, op)
    BY <1>1, <1>2, <1>5 DEF Staged
  <2> DEFINE entry == NewEntry(next, 1)
             rows == Append(db.commits, NewRow(next, op))
             half == Append(db.outbox, NewEntry(next, 0))
  <2>2. work' = [work EXCEPT !.outbox = Append(@, entry)] /\ Goto(h, "commit")
    <3> DEFINE ordinal == IF call[h].at = "deliver" THEN 0 ELSE 1
    <3>1. ordinal = 1
      BY <1>5
    <3> HIDE DEF ordinal
    <3>2. work' = [work EXCEPT !.outbox =
                     Append(@, [id |-> DeliveryId(next.chain, ordinal), version |-> next.sequence,
                                ordinal |-> ordinal, acked |-> FALSE])]
      BY <1>2 DEF DeliverStep, ordinal
    <3>3. Goto(h, IF ordinal = 0 THEN "deliver next" ELSE "commit")
      BY DEF DeliverStep, ordinal
    <3> QED
      BY <3>1, <3>2, <3>3 DEF NewEntry
  <2>3. work = [sequence |-> next.sequence, state |-> next.state, chain |-> next.chain,
                commits |-> rows, outbox |-> half]
    BY <2>1 DEF Half
  <2> HIDE DEF next, rows, entry, half
  <2>4. work' = [sequence |-> next.sequence, state |-> next.state, chain |-> next.chain,
                 commits |-> rows, outbox |-> Append(half, entry)]
    BY <2>2, <2>3
  <2>5. work' = Complete(op)
    BY <1>2, <2>4 DEF Complete, Whole, next, rows, entry, half
  <2> QED
    BY <1>1, <1>3, <2>2, <2>5, StatementTInv
<1> QED
  BY <1>1, <1>4, <1>5

\* UPDATE v2_deliveries SET acknowledged=1.
LEMMA MarkTInv ==
    ASSUME TInv, IInv', NEW h \in Handles, MarkStep(h)
    PROVE  TInv'
<1> DEFINE op == call[h].op
           marked == [i \in 1 .. Len(db.outbox) |->
                        IF db.outbox[i].id = op.id THEN [db.outbox[i] EXCEPT !.acked = TRUE]
                        ELSE db.outbox[i]]
<1>1. call[h].at = "mark" /\ call[h].at \in Writing /\ "commit" \in Writing
  BY DEF MarkStep, Writing
<1>2. db \in Tables /\ Staged(h) /\ op.kind = "Acknowledge"
  BY <1>1, WriterFacts
<1>3. work = db
  BY <1>1, <1>2 DEF Staged
<1>4. work' = [db EXCEPT !.outbox = marked] /\ Goto(h, "commit") /\ UNCHANGED <<db, wrote, answer>>
  BY <1>3 DEF MarkStep
<1> HIDE DEF marked
<1>5. work' = [sequence |-> db.sequence, state |-> db.state, chain |-> db.chain,
               commits |-> db.commits, outbox |-> marked]
  BY <1>2, <1>4, TableShape
<1>6. work' = Complete(op)
  BY <1>2, <1>5 DEF Complete, Marked, marked
<1> QED
  BY <1>1, <1>4, <1>6, StatementTInv

\* A failure or a crash before COMMIT took effect rolls back.
LEMMA FailTInv ==
    ASSUME TInv, IInv', NEW h \in Handles, FailStep(h) \/ CrashStep(h)
    PROVE  TInv'
<1>1. call[h] # Idle
  BY DEF FailStep, CrashStep, Idle
<1>2. UNCHANGED <<db, wrote>> /\ Rollback(h)
  BY DEF FailStep, CrashStep
<1>3. \A g \in Handles \ {h} : lock = g => work' = work
  BY <1>2 DEF Rollback
<1>4. \E o, views : Finish(h, o, views) /\ SaysTrue(o, FALSE, db.commits)
  <2>1. \/ \E fault : Finish(h, NotApplied(fault), view) \/ Finish(h, Unknown(fault), view)
        \/ \E views : Finish(h, Crashed, views)
    BY DEF FailStep, CrashStep, IoAnswer
  <2> QED
    BY <2>1, PlainTrue
<1> QED
  BY <1>1, <1>2, <1>3, <1>4, Ends

\* The commit row it adds is the head's.
LEMMA AddsRow ==
    ASSUME NEW e, NEW t, NEW op, NEW n, NEW m, Adds(e, t, op, n, m)
    PROVE  /\ e.sequence = n + 1 /\ Len(e.commits) = n + 1
           /\ e.commits[n + 1].chain = e.chain
           /\ SameUpTo(t.commits, e.commits, n)
<1>1. /\ e.sequence = n + 1 /\ Len(e.commits) = n + 1
      /\ e.commits[n + 1] = [key |-> op.key, version |-> n + 1, publication |-> op.publication,
                             chain |-> e.chain]
      /\ \A i \in 1 .. n : e.commits[i] = t.commits[i]
  BY Zenon DEF Adds
<1>2. e.commits[n + 1].chain = e.chain
  BY <1>1
<1>3. SameUpTo(t.commits, e.commits, n)
  BY <1>1, Zenon DEF SameUpTo
<1> QED
  BY <1>1, <1>2, <1>3, Zenon

\* What COMMIT makes of the tables: they agree, old rows stay, something
\* changed, and a commit's receipt is that of its row.
LEMMA CommitEffect ==
    ASSUME TInv, NEW h \in Handles, call[h].at = "commit"
    PROVE  /\ Agree(work) /\ work # db
           /\ Len(db.commits) \in Nat /\ Len(work.commits) \in Nat
           /\ Len(db.commits) <= Len(work.commits)
           /\ SameUpTo(db.commits, work.commits, Len(db.commits))
           /\ call[h].op.kind = "Commit" =>
                /\ work.sequence \in 1 .. Len(work.commits)
                /\ work.commits[work.sequence].chain = work.chain
<1> DEFINE op == call[h].op
           n == Len(db.commits)
           m == 2 * n
<1>1. /\ op \in CallType /\ db \in Tables /\ work \in Tables
      /\ op.kind \in {"Commit", "Acknowledge"} /\ Staged(h) /\ call[h].at \in Writing
  BY WriterFacts DEF Writing
<1>2. /\ Agree(db) /\ work = Complete(op)
      /\ op.kind = "Commit" => Fresh(op)
      /\ op.kind = "Acknowledge" => Pending(op)
  BY <1>1 DEF TInv, Staged
<1>3. n \in Nat /\ m \in Nat /\ Len(work.commits) \in Nat /\ Len(db.commits) = n /\ m = 2 * n
  BY <1>1 DEF Tables
<1>4. CASE op.kind = "Commit"
  <2>1. work = Whole(db, op) /\ Rows(db, op.key) = {} /\ op.publication.prestate = db.state
    BY <1>2, <1>4 DEF Complete, Fresh
  <2>2. Agree(work)
    BY <1>1, <1>2, <1>4, <2>1, WholeAgrees
  <2> HIDE DEF n, m, op
  <2>3. Adds(work, db, op, n, m)
    <3>1. Agree(db)
      BY <1>2
    <3> QED
      BY <1>1, <1>3, <1>4, <2>1, <3>1, WholeParts
  <2>4. /\ work.sequence = n + 1 /\ Len(work.commits) = n + 1
        /\ work.commits[n + 1].chain = work.chain
        /\ SameUpTo(db.commits, work.commits, n)
    BY <2>3, AddsRow
  <2>5. work # db
    BY <1>3, <2>4
  <2> QED
    BY <1>3, <2>2, <2>4, <2>5 DEF n, op
<1>5. CASE op.kind = "Acknowledge"
  <2>1. work = Marked(db, op.id) /\ Pending(op)
    BY <1>2, <1>5 DEF Complete
  <2>2. /\ Agree(work) /\ work.commits = db.commits
        /\ \A k \in 1 .. Len(db.outbox) :
             work.outbox[k].acked <=> db.outbox[k].acked \/ db.outbox[k].id = op.id
    BY <1>1, <1>2, <2>1, MarkedAgrees
  <2>3. PICK k \in 1 .. Len(db.outbox) : db.outbox[k].id = op.id /\ ~db.outbox[k].acked
    BY <2>1 DEF Pending, Found
  <2>4. work # db
    BY <2>2, <2>3
  <2> QED
    BY <1>3, <1>5, <2>2, <2>4 DEF SameUpTo
<1> QED
  BY <1>1, <1>4, <1>5

\* COMMIT took effect: its answer, lost or not, is true.
LEMMA CommitTInv ==
    ASSUME TInv, IInv', NEW h \in Handles, CommitStep(h) \/ LostStep(h)
    PROVE  TInv'
<1>1. call[h].at = "commit" /\ db' = work /\ wrote' = [wrote EXCEPT ![h] = work # db]
  BY DEF CommitStep, LostStep, Commits
<1>2. /\ call \in [Handles -> {Idle} \cup Busy] /\ answer \in [Handles -> Answers]
      /\ wrote \in [Handles -> BOOLEAN] /\ lock = h
  BY <1>1, WriterFacts DEF TInv, IInv, TypeOK, Busy, Writing
<1>3. PICK o \in {Success(h), Unknown("Io"), Crashed} : \E views : Finish(h, o, views)
  BY DEF CommitStep, LostStep
<1>4. /\ call'[h] = Idle /\ answer'[h] = o /\ wrote'[h] = TRUE
      /\ \A g \in Handles \ {h} : call'[g] = call[g] /\ answer'[g] = answer[g]
                                  /\ wrote'[g] = wrote[g]
  BY <1>1, <1>2, <1>3, CommitEffect DEF Finish
<1>5. /\ Agree(db)' /\ Len(db.commits) \in Nat /\ Len(db'.commits) \in Nat
      /\ Len(db.commits) <= Len(db'.commits)
      /\ SameUpTo(db.commits, db'.commits, Len(db.commits))
  BY <1>1, CommitEffect
<1>6. \A g \in Handles \ {h} :
        (Staged(g) /\ Quiet(g) /\ SaysTrue(answer[g], wrote[g], db.commits))'
  BY <1>2, <1>4, <1>5, OthersTrue
<1>7. Staged(h)' /\ Quiet(h)'
  BY <1>4 DEF Staged, Quiet, Idle, Writing
<1>8. SaysTrue(o, TRUE, work.commits)
  <2>1. CASE o = Success(h)
    <3>1. CASE call[h].op.kind = "Commit"
      <4>1. o = Ok(Receipt(work.sequence, work.chain, "Committed"))
        BY <2>1, <3>1 DEF Success
      <4>2. /\ o.tag = "Ok" /\ o.value.version = work.sequence /\ o.value.chain = work.chain
            /\ o.value.status = "Committed"
        BY <4>1 DEF Ok, Receipt
      <4> QED
        BY <1>1, <3>1, <4>2, CommitEffect DEF SaysTrue
    <3>2. CASE call[h].op.kind # "Commit"
      <4>1. o.tag = "Ok" /\ o.value.status = "Acknowledged"
        BY <2>1, <3>2 DEF Success, Acknowledged, Ok
      <4> QED
        BY <4>1 DEF SaysTrue
    <3> QED
      BY <3>1, <3>2
  <2>2. CASE o = Unknown("Io") \/ o = Crashed
    BY <2>2, PlainTrue
  <2> QED
    BY <2>1, <2>2
<1>9. SaysTrue(answer[h], wrote[h], db.commits)'
  BY <1>1, <1>4, <1>8
<1> QED
  BY <1>5, <1>6, <1>7, <1>9 DEF TInv

-----------------------------------------------------------------------------
(* The invariant. *)

\* A new store satisfies it.
LEMMA InitTInv ==
    Init => TInv
<1> SUFFICES ASSUME Init PROVE TInv
  OBVIOUS
<1>1. IInv
  BY InitIInv
<1>2. Agree(db)
  <2>1. /\ db.sequence = 0 /\ db.state = 0 /\ db.chain = << >> /\ db.commits = << >>
        /\ db.outbox = << >>
    BY DEF Init, EmptyTables
  <2>2. LinksOf(<< >>, 0) = << >> /\ Left(<< >>, 0) = 0
    BY DEF LinksOf, Left
  <2> QED
    BY <2>1, <2>2 DEF Agree
<1>3. \A h \in Handles : call[h] = Idle /\ answer[h] = NoOutcome /\ wrote[h] = FALSE
  BY DEF Init
<1>4. \A h \in Handles : Staged(h) /\ Quiet(h)
  <2>1. Idle.at \notin Writing
    BY DEF Idle, Writing
  <2> QED
    BY <1>3, <2>1, Zenon DEF Staged, Quiet
<1>5. \A h \in Handles : SaysTrue(answer[h], wrote[h], db.commits)
  BY <1>3, PlainTrue
<1> QED
  BY <1>1, <1>2, <1>4, <1>5 DEF TInv

\* Every step of a terminal at work keeps it.
LEMMA StepTInv ==
    ASSUME TInv, NEW h \in Handles, Step(h)
    PROVE  TInv'
<1>1. IInv'
  BY StepIInv DEF TInv
<1>2. CASE OpenStep(h) \/ AuditStep(h) \/ SyncStep(h) \/ AdoptStep(h)
  BY <1>1, <1>2, ReadStepTInv
<1>3. CASE BeginStep(h)
  BY <1>1, <1>3, BeginStepTInv
<1>4. CASE StateStep(h) \/ RowStep(h) \/ DeliverStep(h) \/ MarkStep(h)
  BY <1>1, <1>4, StateTInv, RowTInv, DeliverTInv, MarkTInv
<1>5. CASE FailStep(h) \/ CrashStep(h)
  BY <1>1, <1>5, FailTInv
<1>6. CASE CommitStep(h) \/ LostStep(h)
  BY <1>1, <1>6, CommitTInv
<1> QED
  BY <1>2, <1>3, <1>4, <1>5, <1>6 DEF Step

\* So does a step that changes no more than answers, to true ones, and
\* invalidations.
LEMMA AsideTInv ==
    ASSUME TInv, UNCHANGED <<db, lock, work, view, call, wrote>>,
           answer' \in [Handles -> Answers], invalidated' \in [Handles -> BOOLEAN],
           \A h \in Handles : SaysTrue(answer'[h], wrote[h], db.commits)
    PROVE  TInv'
<1>1. IInv'
  BY AsideIInv DEF TInv
<1>2. \A h \in Handles : Staged(h)'
  BY OtherStaged
<1>3. \A h \in Handles : Quiet(h)' /\ SaysTrue(answer[h], wrote[h], db.commits)'
  BY DEF TInv, Quiet, Idle
<1> QED
  BY <1>1, <1>2, <1>3, SameTables DEF TInv

\* Every step keeps it.
LEMMA NextTInv ==
    TInv /\ [Next]_vars => TInv'
<1> SUFFICES ASSUME TInv, [Next]_vars PROVE TInv'
  OBVIOUS
<1>1. CASE UNCHANGED vars
  BY <1>1, AsideTInv DEF vars, TInv, IInv, TypeOK
<1>2. ASSUME NEW h \in Handles, NEW op \in Calls, Begin(h, op) PROVE TInv'
  BY <1>2, NextIInv, BeginTInv, ShellAssumption DEF TInv, Next
<1> QED
  BY <1>1, <1>2, StepTInv DEF Next

\* Every reachable state satisfies it.
LEMMA SpecTInv ==
    Spec => []TInv
BY InitTInv, NextTInv, PTL DEF Spec

-----------------------------------------------------------------------------
(* The theorems. *)

\* Tables that agree do so in the words of TablesAgree.
LEMMA AgreedTables ==
    ASSUME TInv
    PROVE  TablesAgree
<1> DEFINE n == Len(db.commits)
<1>0. Agree(db) /\ n \in Nat
  BY DEF TInv, IInv, TypeOK, Tables
<1>1. /\ db.sequence = n /\ db.state = StateAfter(n) /\ Len(db.outbox) = 2 * n
  BY <1>0 DEF Agree, Left, StateAfter
<1>2. ASSUME NEW i \in 1 .. n
      PROVE  /\ db.commits[i].version = i
             /\ db.commits[i].publication.prestate = StateAfter(i - 1)
             /\ db.commits[i].chain =
                  [j \in 1 .. i |-> [key |-> db.commits[j].key,
                                     publication |-> db.commits[j].publication]]
             /\ Rows(db, db.commits[i].key) = {i}
             /\ \A o \in 0 .. 1 :
                  /\ db.outbox[2 * i - 1 + o].id = DeliveryId(db.commits[i].chain, o)
                  /\ db.outbox[2 * i - 1 + o].version = i
  <2>1. RowAgrees(db.commits, i) /\ \A o \in 0 .. 1 : EntryAgrees(db.commits, db.outbox, i, o)
    BY <1>0 DEF Agree
  <2>2. \A j \in 1 .. n : db.commits[i].key = db.commits[j].key => i = j
    BY <1>0 DEF Agree
  <2>3. Rows(db, db.commits[i].key) = {i}
    BY <2>2 DEF Rows
  <2>4. Left(db.commits, i - 1) = StateAfter(i - 1)
    BY DEF Left, StateAfter
  <2> QED
    BY <2>1, <2>3, <2>4 DEF RowAgrees, EntryAgrees, LinksOf
<1> QED
  BY <1>1, <1>2 DEF TablesAgree

\* The state row, the commit rows and the delivery rows that commit_controlled
\* writes in one transaction belong to the same commits at every moment.
THEOREM TablesStayWhole ==
    Spec => []TablesAgree
<1>1. TInv => TablesAgree
  BY AgreedTables
<1> QED
  BY <1>1, SpecTInv, PTL

\* The answers of Production::handle say what the operation did to the store,
\* and a receipt, replayed or not, is that of a row.
THEOREM AnswersStayTrue ==
    Spec => []AnswersTrue
<1>1. TInv => AnswersTrue
  BY DEF TInv, SaysTrue, AnswersTrue
<1> QED
  BY <1>1, SpecTInv, PTL

-----------------------------------------------------------------------------
(* What a step does to the operation under way. *)

\* A receipt is that of the request's row.
Certifies(rows, request, receipt) ==
    /\ receipt.version \in 1 .. Len(rows)
    /\ rows[receipt.version].key = request.key
    /\ rows[receipt.version].publication = request.publication
    /\ rows[receipt.version].chain = receipt.chain

\* What an operation that left the tables alone may answer: an earlier commit's
\* receipt, and to the unguarded replay of a commit in the tables no refusal
\* but that of interference.
Replies(op, o) ==
    /\ o # NoOutcome
    /\ op.kind = "Commit" /\ o.tag = "Ok" => Certifies(db.commits, op, o.value)
    /\ op.kind = "Commit" /\ op.mode = Unversioned /\ Contains(db.commits, op) /\ o.tag = "Refused" =>
         o.code \in {"Concurrent", "History"}

\* The operation of terminal h goes on, ends, or commits.
Proceeds(h) ==
    UNCHANGED <<db, answer>> /\ call'[h] # Idle /\ call'[h].op = call[h].op

Returns(h) == call'[h] = Idle /\ db' = db /\ Replies(call[h].op, answer'[h])

Publishes(h) ==
    /\ call'[h] = Idle /\ call[h].at = "commit" /\ db' = work
    /\ answer'[h] \in {Success(h), Unknown("Io"), Crashed}

\* The tags of the answers that need no check.
LEMMA PlainReplies ==
    ASSUME NEW op
    PROVE  /\ Replies(op, Refused("Concurrent")) /\ Replies(op, Refused("History"))
           /\ \A fault : Replies(op, NotApplied(fault)) /\ Replies(op, Unknown(fault))
           /\ Replies(op, Crashed)
           /\ op.kind # "Commit" => /\ \A code : Replies(op, Refused(code))
                                    /\ Replies(op, HeadRead)
BY DEF Replies, Refused, NotApplied, Unknown, Crashed, HeadRead, Ok, NoOutcome

\* The receipt of a replay is that of the stored row, and a replay finds it.
LEMMA ReplayReplies ==
    ASSUME TInv, NEW op, NEW anchor
    PROVE  LET check == CommitCheck(anchor, op)
           IN  /\ check = "Replayed" => Replies(op, Ok(StoredReceipt(op.key)))
               /\ check \notin {"Replayed", "Apply"} => Replies(op, Refused(check))
<1> DEFINE i == CHOOSE i \in Rows(db, op.key) : TRUE
           check == CommitCheck(anchor, op)
<1>1. Rows(db, op.key) # {} => i \in 1 .. Len(db.commits) /\ db.commits[i].key = op.key
  BY DEF Rows
<1>2. check = "Replayed" => Rows(db, op.key) # {} /\ db.commits[i].publication = op.publication
  BY DEF CommitCheck
<1>3. \A j \in 1 .. Len(db.commits) : RowAgrees(db.commits, j)
  BY DEF TInv, Agree
<1>4. \A j, k \in 1 .. Len(db.commits) : db.commits[j].key = db.commits[k].key => j = k
  BY DEF TInv, Agree
<1>5. ASSUME op.mode = Unversioned, Contains(db.commits, op), check # "Replayed"
      PROVE  FALSE
  <2>1. PICK j \in 1 .. Len(db.commits) : /\ db.commits[j].key = op.key
                                          /\ db.commits[j].publication = op.publication
    BY <1>5 DEF Contains
  <2>2. j \in Rows(db, op.key)
    BY <2>1 DEF Rows
  <2> HIDE DEF i
  <2>3. i = j
    BY <1>1, <1>4, <2>1, <2>2
  <2>4. op.mode.kind = "Unversioned"
    BY <1>5 DEF Unversioned
  <2> QED
    BY <1>5, <2>1, <2>2, <2>3, <2>4 DEF CommitCheck, i
<1> HIDE DEF i
<1>6. ASSUME check = "Replayed" PROVE Replies(op, Ok(StoredReceipt(op.key)))
  <2> DEFINE o == Ok(StoredReceipt(op.key))
  <2>1. /\ o.tag = "Ok" /\ o.value.version = db.commits[i].version
        /\ o.value.chain = db.commits[i].chain
    BY DEF Ok, StoredReceipt, Receipt, i
  <2>2. db.commits[i].version = i
    BY <1>1, <1>2, <1>3, <1>6 DEF RowAgrees
  <2> HIDE DEF o
  <2>3. Certifies(db.commits, op, o.value)
    BY <1>1, <1>2, <1>6, <2>1, <2>2 DEF Certifies
  <2>4. Replies(op, o)
    BY <2>1, <2>3 DEF Replies, NoOutcome
  <2> QED
    BY <2>4 DEF o
<1>7. ASSUME check \notin {"Replayed", "Apply"} PROVE Replies(op, Refused(check))
  <2> HIDE DEF check
  <2> QED
    BY <1>5, <1>7 DEF Replies, Refused, NoOutcome
<1> QED
  BY <1>6, <1>7

\* A step of terminal h leaves the operations and answers of the others alone.
Alone(h) == \A g \in Handles \ {h} : call'[g] = call[g] /\ answer'[g] = answer[g]

\* The end of an operation, and its next step.
LEMMA EndShape ==
    ASSUME TInv, NEW h \in Handles, NEW o, NEW views, Finish(h, o, views)
    PROVE  Alone(h) /\ call'[h] = Idle /\ answer'[h] = o
BY DEF TInv, IInv, TypeOK, Finish, Alone

LEMMA GotoShape ==
    ASSUME TInv, NEW h \in Handles, call[h] # Idle, NEW at \in Steps, Goto(h, at),
           UNCHANGED <<db, answer>>
    PROVE  Alone(h) /\ Proceeds(h)
<1>1. TypeOK /\ call[h] \in Busy
  BY CallCases DEF TInv, IInv
<1>2. call'[h] \in Busy /\ call'[h].op = call[h].op /\ \A g \in Handles \ {h} : call'[g] = call[g]
  BY <1>1, GotoCall
<1>3. Idle \notin Busy
  BY DEF Idle, Busy
<1> QED
  BY <1>2, <1>3 DEF Alone, Proceeds

\* Every step of a terminal at work is one of the three.
LEMMA StepShape ==
    ASSUME TInv, NEW h \in Handles, Step(h)
    PROVE  /\ call[h] # Idle /\ Alone(h)
           /\ Proceeds(h) \/ Returns(h) \/ Publishes(h)
<1> DEFINE op == call[h].op
           Goal == Alone(h) /\ (Proceeds(h) \/ Returns(h) \/ Publishes(h))
<1>0. Idle.at = "idle"
  BY DEF Idle
<1>1. call[h] # Idle
  BY <1>0 DEF Step, OpenStep, AuditStep, SyncStep, BeginStep, AdoptStep, StateStep, RowStep,
              DeliverStep, MarkStep, CommitStep, FailStep, CrashStep, LostStep
<1> SUFFICES Goal
  BY <1>1
<1>2. SoundCall(h) /\ call[h] \in Busy /\ op \in CallType
  BY <1>1, CallCases DEF TInv, IInv, Busy
<1>3. ASSUME NEW o, NEW views, Finish(h, o, views), db' = db, Replies(op, o)
      PROVE  Goal
  BY <1>3, EndShape DEF Returns
<1>4. ASSUME NEW at \in Steps, Goto(h, at), UNCHANGED <<db, answer>>
      PROVE  Goal
  BY <1>1, <1>4, GotoShape
<1>5. CASE OpenStep(h) \/ AuditStep(h) \/ SyncStep(h)
  <2>1. db' = db
    BY <1>5 DEF OpenStep, AuditStep, SyncStep
  <2>2. \/ op.kind = "Audit" /\ \E views : Finish(h, HeadRead, views)
        \/ \E views : Finish(h, Refused("History"), views)
        \/ \E at \in {"audit", "sync", "begin"} : Goto(h, at) /\ UNCHANGED answer
    BY <1>5 DEF OpenStep, AuditStep, SyncStep, FirstStep
  <2>3. {"audit", "sync", "begin"} \subseteq Steps
    BY DEF Steps
  <2> HIDE DEF op, Goal
  <2> QED
    BY <1>3, <1>4, <2>1, <2>2, <2>3, PlainReplies
<1>6. CASE AdoptStep(h)
  <2>1. db' = db /\ op.kind = "Reopen"
    BY <1>2, <1>6 DEF AdoptStep, SoundCall
  <2>2. \E views : Finish(h, HeadRead, views) \/ Finish(h, Refused("History"), views)
    BY <1>6 DEF AdoptStep
  <2> HIDE DEF op, Goal
  <2> QED
    BY <1>3, <2>1, <2>2, PlainReplies
<1>7. CASE BeginStep(h)
  <2>1. db' = db
    BY <1>7 DEF BeginStep
  <2>2. "adopt" \in Steps /\ "state" \in Steps /\ "mark" \in Steps
    BY DEF Steps, Writing
  <2>3. CASE ~CachedTip(h)
    <3>1. Finish(h, Refused("Concurrent"), view)
      BY <1>7, <2>3 DEF BeginStep, Says
    <3> HIDE DEF op, Goal
    <3> QED
      BY <1>3, <2>1, <3>1, PlainReplies
  <2>4. CASE CachedTip(h) /\ op.kind \in {"Read", "Checkpoint"}
    <3>1. \E views : Finish(h, HeadRead, views)
      BY <1>7, <2>4 DEF BeginStep, Says
    <3> HIDE DEF op, Goal
    <3> QED
      BY <1>3, <2>1, <2>4, <3>1, PlainReplies
  <2>5. CASE CachedTip(h) /\ op.kind = "Reopen"
    <3>1. Goto(h, "adopt") /\ UNCHANGED answer
      BY <1>7, <2>5 DEF BeginStep
    <3> QED
      BY <1>4, <2>1, <2>2, <3>1
  <2>6. CASE CachedTip(h) /\ op.kind = "Commit"
    <3> DEFINE check == CommitCheck(MyView(h).anchor, op)
    <3>1. \/ Goto(h, "state") /\ UNCHANGED answer
          \/ check = "Replayed" /\ Finish(h, Ok(StoredReceipt(op.key)), view)
          \/ check \notin {"Replayed", "Apply"} /\ Finish(h, Refused(check), view)
      BY <1>7, <2>6 DEF BeginStep, BeginCommit, Takes, Says
    <3>2. /\ check = "Replayed" => Replies(op, Ok(StoredReceipt(op.key)))
          /\ check \notin {"Replayed", "Apply"} => Replies(op, Refused(check))
      BY ReplayReplies
    <3> HIDE DEF op, Goal, check
    <3> QED
      BY <1>3, <1>4, <2>1, <2>2, <3>1, <3>2
  <2>7. CASE CachedTip(h) /\ op.kind = "Acknowledge"
    <3>1. \/ \E code : Finish(h, Refused(code), view)
          \/ Goto(h, "mark") /\ UNCHANGED answer
          \/ call' = [call EXCEPT ![h].at = "sync", ![h].round = 2] /\ UNCHANGED answer
      BY <1>7, <2>7 DEF BeginStep, BeginAcknowledge, Takes, Says
    <3>2. CASE call' = [call EXCEPT ![h].at = "sync", ![h].round = 2] /\ UNCHANGED answer
      <4>1. /\ call'[h].op = call[h].op /\ call'[h].at = "sync"
            /\ \A g \in Handles \ {h} : call'[g] = call[g]
        BY <1>2, <3>2 DEF TInv, IInv, TypeOK, Busy
      <4> QED
        BY <1>0, <2>1, <3>2, <4>1 DEF Alone, Proceeds
    <3> HIDE DEF op, Goal
    <3> QED
      BY <1>3, <1>4, <2>1, <2>2, <2>7, <3>1, <3>2, PlainReplies
  <2>8. op.kind \in {"Read", "Checkpoint", "Reopen", "Commit", "Acknowledge"}
    <3>1. op.kind # "Audit"
      BY <1>2, <1>7 DEF SoundCall, BeginStep
    <3> QED
      BY <1>2, <3>1 DEF CallType
  <2> QED
    BY <2>3, <2>4, <2>5, <2>6, <2>7, <2>8
<1>8. CASE StateStep(h) \/ RowStep(h) \/ DeliverStep(h) \/ MarkStep(h)
  <2>1. db' = db
    BY <1>8 DEF StateStep, RowStep, DeliverStep, MarkStep
  <2>2. \/ Finish(h, Refused("Concurrent"), view)
        \/ \E at \in {"row", "deliver", "deliver next", "commit"} : Goto(h, at) /\ UNCHANGED answer
    BY <1>8 DEF StateStep, RowStep, DeliverStep, MarkStep
  <2>3. {"row", "deliver", "deliver next", "commit"} \subseteq Steps
    BY DEF Steps, Writing
  <2> HIDE DEF op, Goal
  <2> QED
    BY <1>3, <1>4, <2>1, <2>2, <2>3, PlainReplies
<1>9. CASE FailStep(h) \/ CrashStep(h)
  <2>1. db' = db
    BY <1>9 DEF FailStep, CrashStep
  <2>2. \/ \E fault : Finish(h, NotApplied(fault), view) \/ Finish(h, Unknown(fault), view)
        \/ \E views : Finish(h, Crashed, views)
    BY <1>9 DEF FailStep, CrashStep, IoAnswer
  <2> HIDE DEF op, Goal
  <2> QED
    BY <1>3, <2>1, <2>2, PlainReplies
<1>10. CASE CommitStep(h) \/ LostStep(h)
  <2>1. call[h].at = "commit" /\ db' = work
    BY <1>10 DEF CommitStep, LostStep, Commits
  <2>2. PICK o \in {Success(h), Unknown("Io"), Crashed} : \E views : Finish(h, o, views)
    BY <1>10 DEF CommitStep, LostStep
  <2> QED
    BY <2>1, <2>2, EndShape DEF Publishes
<1> HIDE DEF Goal
<1> QED
  BY <1>5, <1>6, <1>7, <1>8, <1>9, <1>10 DEF Step

-----------------------------------------------------------------------------
(* The atomic store. *)

\* The log and the acknowledged deliveries of the atomic store.
LogOf(t) == [i \in 1 .. Len(t.commits) |-> [key |-> t.commits[i].key,
                                            publication |-> t.commits[i].publication]]

AckedOf(t) == {<<t.outbox[i].version, t.outbox[i].ordinal>> :
                  i \in {j \in 1 .. Len(t.outbox) : t.outbox[j].acked}}

CommitRequests == {[key |-> op.key, publication |-> op.publication] :
             op \in {c \in Calls : c.kind = "Commit"}}

\* Every place of the outbox belongs to one commit and ordinal.
LEMMA PlaceOf ==
    ASSUME NEW n \in Nat, NEW k \in 1 .. 2 * n
    PROVE  \E i \in 1 .. n : \E o \in 0 .. 1 : k = 2 * i - 1 + o
<1>1. CASE \E j \in Nat : k = 2 * j
  <2>1. PICK j \in Nat : k = 2 * j
    BY <1>1
  <2>2. j \in 1 .. n /\ k = 2 * j - 1 + 1 /\ 1 \in 0 .. 1
    BY <2>1
  <2> QED
    BY <2>2
<1>2. CASE \E j \in Nat : k = 2 * j + 1
  <2>1. PICK j \in Nat : k = 2 * j + 1
    BY <1>2
  <2>2. j + 1 \in 1 .. n /\ k = 2 * (j + 1) - 1 + 0 /\ 0 \in 0 .. 1
    BY <2>1
  <2> QED
    BY <2>2
<1>3. \E j \in Nat : k = 2 * j \/ k = 2 * j + 1
  <2>1. k \div 2 \in Nat /\ (k = 2 * (k \div 2) \/ k = 2 * (k \div 2) + 1)
    OBVIOUS
  <2> QED
    BY <2>1
<1> QED
  BY <1>1, <1>2, <1>3

\* Chains of different lengths differ.
LEMMA ChainsDiffer ==
    ASSUME NEW rows, NEW i \in Nat, NEW j \in Nat, LinksOf(rows, i) = LinksOf(rows, j)
    PROVE  i = j
<1>1. DOMAIN LinksOf(rows, i) = 1 .. i /\ DOMAIN LinksOf(rows, j) = 1 .. j
  BY DEF LinksOf
<1>2. 1 .. i = 1 .. j
  BY <1>1
<1> QED
  BY <1>2

\* A delivery row is found by its id, and by its commit and ordinal.
LEMMA OnePlace ==
    ASSUME NEW t \in Tables, Agree(t), NEW k \in 1 .. Len(t.outbox), NEW q \in 1 .. Len(t.outbox)
    PROVE  /\ t.outbox[k].version \in 1 .. Len(t.commits) /\ t.outbox[k].ordinal \in 0 .. 1
           /\ t.outbox[k].id = t.outbox[q].id => k = q
           /\ /\ t.outbox[k].version = t.outbox[q].version
              /\ t.outbox[k].ordinal = t.outbox[q].ordinal
              => k = q
<1> DEFINE n == Len(t.commits)
<1>1. n \in Nat /\ Len(t.outbox) = 2 * n
  BY DEF Tables, Agree
<1> HIDE DEF n
<1>0. k \in 1 .. 2 * n /\ q \in 1 .. 2 * n
  BY <1>1
<1>2. PICK i \in 1 .. n : \E o \in 0 .. 1 : k = 2 * i - 1 + o
  BY <1>0, <1>1, PlaceOf, Zenon
<1>21. PICK o \in 0 .. 1 : k = 2 * i - 1 + o
  BY <1>2
<1>3. PICK j \in 1 .. n : \E p \in 0 .. 1 : q = 2 * j - 1 + p
  BY <1>0, <1>1, PlaceOf, Zenon
<1>31. PICK p \in 0 .. 1 : q = 2 * j - 1 + p
  BY <1>3
<1>4. EntryAgrees(t.commits, t.outbox, i, o) /\ EntryAgrees(t.commits, t.outbox, j, p)
  BY DEF Agree, n
<1>5. /\ t.outbox[k].id = DeliveryId(t.commits[i].chain, o)
      /\ t.outbox[k].version = i /\ t.outbox[k].ordinal = o
  BY <1>21, <1>4 DEF EntryAgrees
<1>6. /\ t.outbox[q].id = DeliveryId(t.commits[j].chain, p)
      /\ t.outbox[q].version = j /\ t.outbox[q].ordinal = p
  BY <1>31, <1>4 DEF EntryAgrees
<1>7. ASSUME i = j, o = p PROVE k = q
  BY <1>21, <1>31, <1>7
<1>8. ASSUME t.outbox[k].id = t.outbox[q].id PROVE i = j /\ o = p
  <2>1. t.commits[i].chain = t.commits[j].chain /\ o = p
    BY <1>5, <1>6, <1>8 DEF DeliveryId
  <2>2. RowAgrees(t.commits, i) /\ RowAgrees(t.commits, j)
    BY DEF Agree, n
  <2>3. LinksOf(t.commits, i) = LinksOf(t.commits, j)
    BY <2>1, <2>2 DEF RowAgrees
  <2>4. i \in Nat /\ j \in Nat
    BY <1>1
  <2> QED
    BY <2>1, <2>3, <2>4, ChainsDiffer
<1> QED
  BY <1>5, <1>6, <1>7, <1>8 DEF n

\* In tables that agree the log is the chain, and its last element leaves the
\* state.
LEMMA LogIsChain ==
    ASSUME NEW t \in Tables, Agree(t)
    PROVE  /\ LogOf(t) = t.chain /\ Len(LogOf(t)) = Len(t.commits)
           /\ \A i \in 1 .. Len(t.commits) : LogOf(t)[i].key = t.commits[i].key
           /\ t.state = IF LogOf(t) = << >> THEN 0
                        ELSE LogOf(t)[Len(LogOf(t))].publication.prestate
                               + LogOf(t)[Len(LogOf(t))].publication.body
<1> DEFINE n == Len(t.commits)
           log == LogOf(t)
<1>1. n \in Nat /\ t.chain = LinksOf(t.commits, n) /\ t.state = Left(t.commits, n)
  BY DEF Tables, Agree
<1>2. log = t.chain
  BY <1>1 DEF LogOf, LinksOf
<1>3. Len(log) = n /\ DOMAIN log = 1 .. n
  BY <1>1 DEF LogOf
<1>4. \A i \in 1 .. n : /\ log[i].key = t.commits[i].key
                        /\ log[i].publication = t.commits[i].publication
  BY DEF LogOf
<1>5. CASE n = 0
  <2>1. log = << >>
    BY <1>5 DEF LogOf
  <2> QED
    BY <1>1, <1>2, <1>3, <1>4, <1>5, <2>1 DEF Left
<1>6. CASE n # 0
  <2>1. n \in 1 .. n
    BY <1>1, <1>6
  <2>2. log # << >>
    BY <1>3, <2>1
  <2> HIDE DEF log, n
  <2>3. t.state = log[n].publication.prestate + log[n].publication.body
    BY <1>1, <1>4, <1>6, <2>1 DEF Left
  <2> QED
    BY <1>2, <1>3, <1>4, <2>2, <2>3 DEF log, n
<1> QED
  BY <1>5, <1>6

\* The deliveries of a commit just made are pending.
LEMMA AddsAcked ==
    ASSUME NEW e, NEW t, NEW op, NEW n, NEW m \in Nat, Adds(e, t, op, n, m)
    PROVE  AckedOf(e) = AckedOf(t)
<1>1. /\ Len(t.outbox) = m /\ Len(e.outbox) = m + 2
      /\ \A k \in 1 .. m : e.outbox[k] = t.outbox[k]
      /\ e.outbox[m + 1] = [id |-> DeliveryId(e.chain, 0), version |-> n + 1, ordinal |-> 0,
                            acked |-> FALSE]
      /\ e.outbox[m + 2] = [id |-> DeliveryId(e.chain, 1), version |-> n + 1, ordinal |-> 1,
                            acked |-> FALSE]
  BY Zenon DEF Adds
<1>2. ~e.outbox[m + 1].acked /\ ~e.outbox[m + 2].acked
  BY <1>1
<1>3. \A k \in 1 .. Len(e.outbox) : k \in 1 .. m \/ k = m + 1 \/ k = m + 2
  BY <1>1
<1>4. \A k \in 1 .. m : k \in 1 .. Len(e.outbox)
  BY <1>1
<1>5. {k \in 1 .. Len(e.outbox) : e.outbox[k].acked} = {k \in 1 .. Len(t.outbox) : t.outbox[k].acked}
  BY <1>1, <1>2, <1>3, <1>4
<1> DEFINE K == {k \in 1 .. Len(t.outbox) : t.outbox[k].acked}
<1>6. \A k \in K : e.outbox[k] = t.outbox[k]
  BY <1>1
<1>7. AckedOf(e) = {<<e.outbox[i].version, e.outbox[i].ordinal>> : i \in K}
  BY <1>5 DEF AckedOf
<1>8. AckedOf(t) = {<<t.outbox[i].version, t.outbox[i].ordinal>> : i \in K}
  BY DEF AckedOf
<1> HIDE DEF K
<1> QED
  BY <1>6, <1>7, <1>8

\* A whole commit appends its request to the log.
LEMMA WholeCommit ==
    ASSUME NEW t \in Tables, Agree(t), NEW op \in CallType, op.kind = "Commit",
           Rows(t, op.key) = {}, op.publication.prestate = t.state, NEW e \in Tables,
           e = Whole(t, op)
    PROVE  /\ \A i \in 1 .. Len(LogOf(t)) : LogOf(t)[i].key # op.key
           /\ LogOf(e) = Append(LogOf(t), [key |-> op.key, publication |-> op.publication])
           /\ AckedOf(e) = AckedOf(t)
<1> DEFINE n == Len(t.commits)
           m == 2 * n
<1>1. n \in Nat /\ m \in Nat /\ Len(t.commits) = n /\ m = 2 * n
  BY DEF Tables
<1> HIDE DEF n, m
<1>2. Adds(e, t, op, n, m)
  BY <1>1, WholeParts, Zenon
<1>3. Agree(e)
  BY WholeAgrees, Zenon
<1>4. e.chain = Append(t.chain, [key |-> op.key, publication |-> op.publication])
  BY <1>2, Zenon DEF Adds
<1>5. LogOf(e) = e.chain /\ LogOf(t) = t.chain /\ Len(LogOf(t)) = Len(t.commits)
  BY <1>3, LogIsChain, Zenon
<1>6. \A i \in 1 .. Len(t.commits) : LogOf(t)[i].key # op.key
  BY LogIsChain DEF Rows
<1>7. AckedOf(e) = AckedOf(t)
  BY <1>1, <1>2, AddsAcked, Zenon
<1> QED
  BY <1>4, <1>5, <1>6, <1>7, Zenon

\* An acknowledgement of a pending delivery acknowledges that one.
LEMMA MarkedAcks ==
    ASSUME NEW t \in Tables, Agree(t), NEW k \in 1 .. Len(t.outbox), ~t.outbox[k].acked,
           NEW e, e = Marked(t, t.outbox[k].id)
    PROVE  LET one == <<t.outbox[k].version, t.outbox[k].ordinal>>
           IN  /\ t.outbox[k].version \in 1 .. Len(t.commits) /\ t.outbox[k].ordinal \in 0 .. 1
               /\ one \notin AckedOf(t) /\ AckedOf(e) = AckedOf(t) \cup {one}
               /\ LogOf(e) = LogOf(t)
<1> DEFINE N == 1 .. Len(t.outbox)
           P(x, i) == <<x.outbox[i].version, x.outbox[i].ordinal>>
<1>1. /\ e.commits = t.commits /\ Len(e.outbox) = Len(t.outbox)
      /\ \A q \in N : /\ e.outbox[q].version = t.outbox[q].version
                      /\ e.outbox[q].ordinal = t.outbox[q].ordinal
                      /\ e.outbox[q].acked <=> t.outbox[q].acked \/ t.outbox[q].id = t.outbox[k].id
  BY MarkedAgrees
<1>2. \A q \in N : t.outbox[q].id = t.outbox[k].id => q = k
  BY OnePlace
<1>3. \A q \in N : P(t, q) = P(t, k) => q = k
  BY OnePlace
<1>4. \A q \in N : P(e, q) = P(t, q) /\ (e.outbox[q].acked <=> t.outbox[q].acked \/ q = k)
  BY <1>1, <1>2
<1>5. /\ AckedOf(t) = {P(t, i) : i \in {j \in N : t.outbox[j].acked}}
      /\ AckedOf(e) = {P(e, i) : i \in {j \in N : e.outbox[j].acked}}
  BY <1>1 DEF AckedOf
<1>6. LogOf(e) = LogOf(t)
  BY <1>1 DEF LogOf
<1>7. t.outbox[k].version \in 1 .. Len(t.commits) /\ t.outbox[k].ordinal \in 0 .. 1
  BY OnePlace
<1> HIDE DEF N
<1>8. k \in N
  BY DEF N
<1>9. P(t, k) \notin AckedOf(t)
  BY <1>3, <1>5, <1>8
<1>10. {j \in N : e.outbox[j].acked} = {j \in N : t.outbox[j].acked} \cup {k}
  BY <1>4, <1>8
<1>11. AckedOf(e) = AckedOf(t) \cup {P(t, k)}
  <2> HIDE DEF P
  <2>1. AckedOf(e) = {P(e, i) : i \in {j \in N : t.outbox[j].acked} \cup {k}}
    BY <1>5, <1>10
  <2> QED
    BY <1>4, <1>5, <1>8, <2>1
<1> QED
  BY <1>6, <1>7, <1>9, <1>11

\* Only a COMMIT changes the committed tables.
LEMMA OnlyCommits ==
    ASSUME NEW h \in Handles, Step(h) \/ \E op \in Calls : Begin(h, op)
    PROVE  db' = db \/ (call[h].at = "commit" /\ db' = work)
<1>1. ASSUME NEW op \in Calls, Begin(h, op) PROVE db' = db
  BY <1>1 DEF Begin
<1>2. CASE OpenStep(h) \/ AuditStep(h) \/ SyncStep(h) \/ BeginStep(h) \/ AdoptStep(h)
  BY <1>2 DEF OpenStep, AuditStep, SyncStep, BeginStep, AdoptStep
<1>3. CASE StateStep(h) \/ RowStep(h) \/ DeliverStep(h) \/ MarkStep(h)
  BY <1>3 DEF StateStep, RowStep, DeliverStep, MarkStep
<1>4. CASE FailStep(h) \/ CrashStep(h)
  BY <1>4 DEF FailStep, CrashStep
<1>5. CASE CommitStep(h) \/ LostStep(h)
  BY <1>5 DEF CommitStep, LostStep, Commits
<1> QED
  BY <1>1, <1>2, <1>3, <1>4, <1>5 DEF Step

\* A COMMIT is a whole commit of a request some caller asked for, or the
\* acknowledgement of one pending delivery.
AtomicMove(t, e) ==
    \/ \E request \in CommitRequests :
         /\ \A i \in 1 .. Len(LogOf(t)) : LogOf(t)[i].key # request.key
         /\ request.publication.prestate = t.state
         /\ LogOf(e) = Append(LogOf(t), request) /\ AckedOf(e) = AckedOf(t)
    \/ \E version \in 1 .. Len(LogOf(t)), ordinal \in 0 .. 1 :
         /\ <<version, ordinal>> \notin AckedOf(t)
         /\ AckedOf(e) = AckedOf(t) \cup {<<version, ordinal>>} /\ LogOf(e) = LogOf(t)

\* Under Spec an operation under way is one a caller asked for.
Requested == \A h \in Handles : call[h] # Idle => call[h].op \in Calls

LEMMA SpecRequested ==
    Spec => []Requested
<1>1. Init => Requested
  BY DEF Init, Requested
<1>2. TInv /\ Requested /\ [Next]_vars => Requested'
  <2> SUFFICES ASSUME TInv, Requested, [Next]_vars PROVE Requested'
    OBVIOUS
  <2>1. CASE UNCHANGED vars
    BY <2>1 DEF vars, Requested, Idle
  <2>2. ASSUME NEW h \in Handles, NEW op \in Calls, Begin(h, op) PROVE Requested'
    <3>1. \/ call' = call
          \/ \E at \in {"open", FirstStep(op)} : call' = [call EXCEPT ![h] = Under(op, at, 1)]
      BY <2>2 DEF Begin
    <3>2. call \in [Handles -> {Idle} \cup Busy]
      BY DEF TInv, IInv, TypeOK, Busy
    <3>3. \A g \in Handles : call'[g] = call[g] \/ call'[g].op = op
      BY <3>1, <3>2 DEF Under
    <3> QED
      BY <3>3 DEF Requested, Idle
  <2>3. ASSUME NEW h \in Handles, Step(h) PROVE Requested'
    <3>1. \A g \in Handles \ {h} : call'[g] = call[g]
      BY <2>3, StepShape DEF Alone
    <3>2. call'[h] = Idle \/ (call[h] # Idle /\ call'[h].op = call[h].op)
      BY <2>3, StepShape DEF Proceeds, Returns, Publishes
    <3> QED
      BY <3>1, <3>2 DEF Requested, Idle
  <2> QED
    BY <2>1, <2>2, <2>3 DEF Next
<1> QED
  BY <1>1, <1>2, SpecTInv, PTL DEF Spec

\* COMMIT moves the tables so.
LEMMA CommitsMove ==
    ASSUME TInv, Requested, NEW h \in Handles, call[h].at = "commit"
    PROVE  AtomicMove(db, work)
<1> DEFINE op == call[h].op
<1>1. /\ op \in CallType /\ db \in Tables /\ work \in Tables
      /\ op.kind \in {"Commit", "Acknowledge"} /\ Staged(h) /\ call[h].at \in Writing
  BY WriterFacts DEF Writing
<1>2. /\ Agree(db) /\ work = Complete(op)
      /\ op.kind = "Commit" => Fresh(op)
      /\ op.kind = "Acknowledge" => Pending(op)
  BY <1>1 DEF TInv, Staged
<1>3. op \in Calls
  BY DEF Requested, Idle
<1> HIDE DEF op
<1>4. CASE op.kind = "Commit"
  <2>1. /\ work = Whole(db, op) /\ Rows(db, op.key) = {}
        /\ op.publication.prestate = db.state /\ Agree(db)
    BY <1>2, <1>4 DEF Complete, Fresh
  <2> DEFINE request == [key |-> op.key, publication |-> op.publication]
  <2>2. /\ \A i \in 1 .. Len(LogOf(db)) : LogOf(db)[i].key # op.key
        /\ LogOf(work) = Append(LogOf(db), request) /\ AckedOf(work) = AckedOf(db)
    BY <1>1, <1>4, <2>1, WholeCommit, Zenon
  <2>3. request \in CommitRequests
    BY <1>3, <1>4 DEF CommitRequests
  <2>4. request.key = op.key /\ request.publication = op.publication
    OBVIOUS
  <2> HIDE DEF request
  <2> QED
    BY <2>1, <2>2, <2>3, <2>4, Zenon DEF AtomicMove
<1>5. CASE op.kind = "Acknowledge"
  <2>1. work = Marked(db, op.id) /\ Pending(op) /\ Agree(db)
    BY <1>2, <1>5 DEF Complete
  <2>2. PICK k \in 1 .. Len(db.outbox) : db.outbox[k].id = op.id /\ ~db.outbox[k].acked
    BY <2>1 DEF Pending, Found
  <2> DEFINE version == db.outbox[k].version
             ordinal == db.outbox[k].ordinal
  <2>3. /\ version \in 1 .. Len(db.commits) /\ ordinal \in 0 .. 1
        /\ <<version, ordinal>> \notin AckedOf(db)
        /\ AckedOf(work) = AckedOf(db) \cup {<<version, ordinal>>}
        /\ LogOf(work) = LogOf(db)
    BY <1>1, <2>1, <2>2, MarkedAcks
  <2>4. Len(LogOf(db)) = Len(db.commits)
    BY <1>1, <2>1, LogIsChain
  <2> HIDE DEF version, ordinal
  <2> QED
    BY <2>3, <2>4 DEF AtomicMove
<1> QED
  BY <1>1, <1>4, <1>5

\* A step that moves the tables so is a step of the atomic store.
LEMMA AtomicStep ==
    ASSUME db \in Tables, Agree(db), AtomicMove(db, db')
    PROVE  Atomic!Next
<1> DEFINE head == IF LogOf(db) = << >> THEN 0
                   ELSE LogOf(db)[Len(LogOf(db))].publication.prestate
                          + LogOf(db)[Len(LogOf(db))].publication.body
<1>1. db.state = head
  BY LogIsChain, Zenon
<1>2. ASSUME NEW request \in CommitRequests,
             \A i \in 1 .. Len(LogOf(db)) : LogOf(db)[i].key # request.key,
             request.publication.prestate = db.state,
             LogOf(db') = Append(LogOf(db), request), AckedOf(db') = AckedOf(db)
      PROVE  Atomic!Next
  <2>1. Atomic!Commit(request)
    BY <1>1, <1>2, Zenon DEF Atomic!Commit, Atomic!HeadState, LogOf, AckedOf
  <2> QED
    BY <2>1, Zenon DEF Atomic!Next, CommitRequests
<1>3. ASSUME NEW version \in 1 .. Len(LogOf(db)), NEW ordinal \in 0 .. 1,
             <<version, ordinal>> \notin AckedOf(db),
             AckedOf(db') = AckedOf(db) \cup {<<version, ordinal>>}, LogOf(db') = LogOf(db)
      PROVE  Atomic!Next
  <2>1. Atomic!Acknowledge(version, ordinal)
    BY <1>3, Zenon DEF Atomic!Acknowledge, LogOf, AckedOf
  <2> QED
    BY <2>1, Zenon DEF Atomic!Next, LogOf
<1> QED
  BY <1>2, <1>3, Zenon DEF AtomicMove

\* Statements, caches, failures and crashes of all handles together implement
\* the atomic store: the log grows by whole commits under new keys, each for
\* the head it extends, and deliveries are acknowledged one at a time, once.
THEOREM StoreIsAtomic ==
    Spec => WholeCommits
<1>1. Init => Atomic!Init
  <2> SUFFICES ASSUME Init PROVE Atomic!Init
    OBVIOUS
  <2>1. db.commits = << >> /\ db.outbox = << >>
    BY DEF Init, EmptyTables
  <2> QED
    BY <2>1 DEF Atomic!Init
<1>2. TInv /\ Requested /\ [Next]_vars => [Atomic!Next]_(Atomic!vars)
  <2> SUFFICES ASSUME TInv, Requested, [Next]_vars PROVE [Atomic!Next]_(Atomic!vars)
    OBVIOUS
  <2>1. CASE db' = db
    BY <2>1 DEF Atomic!vars
  <2>2. CASE db' # db
    <3>1. PICK h \in Handles : call[h].at = "commit" /\ db' = work
      BY <2>2, OnlyCommits DEF Next, vars
    <3>2. AtomicMove(db, db')
      BY <3>1, CommitsMove
    <3> QED
      BY <3>2, AtomicStep DEF TInv, IInv, TypeOK
  <2> QED
    BY <2>1, <2>2
<1> QED
  BY <1>1, <1>2, SpecTInv, SpecRequested, PTL DEF Spec, WholeCommits, Atomic!Spec

-----------------------------------------------------------------------------
(* The commit program. *)

\* What the caller of a terminal retains.
Retained == [key: Keys, publication: Publications, mode: Modes]

\* An answer that `resume' may be given in the phase of c.
Heard(c, o) ==
    /\ o.tag \in {"Ok", "Refused", "NotApplied", "Unknown"}
    /\ o.tag \in {"NotApplied", "Unknown"} => o.fault \in Faults
    /\ c.phase = "Commit" => o \in Answers

\* A step ends the run with an outcome, or asks with another continuation.
GoodStep(s) ==
    \/ s.tag = "Done" /\ s.outcome \in Answers
    \/ s.tag = "Request" /\ s.cont \in Continuations

\* A step that neither denies a publication nor forgets that it may be there.
Discreet(s) ==
    /\ s.tag = "Done" => s.outcome.tag = "Unknown"
    /\ s.tag = "Request" => s.cont.unknown # NoFault

\* A commit is asked for with the guard of the last one, or after a history:
\* without a guard when the history holds the request.
Guarded(c, inv, o, s) ==
    s.tag = "Request" /\ s.cont.phase = "Commit" =>
      \/ c.phase = "Commit" /\ s.cont.mode = c.mode
      \/ /\ c.phase = "History" /\ o.tag = "Ok"
         /\ Contains(o.value, inv) => s.cont.mode = Unversioned

\* The first continuation of a run and of its recovery.
LEMMA StartTypes ==
    ASSUME NEW inv \in Retained
    PROVE  /\ Start(inv) \in Continuations
           /\ Recover(inv) \in Continuations /\ Recover(inv).phase = "Reopen"
           /\ Recover(inv).unknown # NoFault
BY ProgramAssumption DEF Retained, Start, Recover, Continuations, Phases, Faults, NoFault

\* AskPhase, with a continuation of the phase before it.
LEMMA AskPhaseStep ==
    ASSUME NEW c \in Continuations, NEW phase \in Phases
    PROVE  LET s == AskPhase(c, phase)
           IN  \/ /\ s.tag = "Done" /\ s.outcome \in Answers
                  /\ s.outcome.tag \in {"Refused", "Unknown"}
                  /\ s.outcome.tag = "Refused" => c.unknown = NoFault
               \/ /\ s.tag = "Request" /\ s.cont \in Continuations
                  /\ s.cont.phase = phase /\ s.cont.mode = c.mode
                  /\ s.cont.unknown = c.unknown
<1>1. CASE c.ordinal = MaxOrdinal
  <2>1. CASE c.unknown = NoFault
    <3>1. AskPhase(c, phase) = Done(Refused("Range"))
      BY <1>1, <2>1 DEF AskPhase
    <3> QED
      BY <2>1, <3>1, AnswerTypes DEF Done, Refused
  <2>2. CASE c.unknown # NoFault
    <3>1. AskPhase(c, phase) = Done(Unknown(c.unknown)) /\ c.unknown \in Faults
      BY <1>1, <2>2 DEF AskPhase, Continuations
    <3>2. Unknown(c.unknown) \in Answers
      BY <3>1, AnswerTypes
    <3> QED
      BY <3>1, <3>2 DEF Done, Unknown
  <2> QED
    BY <2>1, <2>2
<1>2. CASE c.ordinal # MaxOrdinal
  <2> DEFINE next == [c EXCEPT !.phase = phase, !.ordinal = c.ordinal + 1]
  <2>1. AskPhase(c, phase).tag = "Request" /\ AskPhase(c, phase).cont = next
    BY <1>2 DEF AskPhase, Request
  <2>2. c.ordinal + 1 \in 0 .. MaxOrdinal
    BY <1>2, ProgramAssumption DEF Continuations
  <2>3. /\ next \in Continuations /\ next.phase = phase /\ next.mode = c.mode
        /\ next.unknown = c.unknown
    BY <2>2 DEF Continuations
  <2> QED
    BY <2>1, <2>3
<1> QED
  BY <1>1, <1>2

\* Spending a retry.
LEMMA SpendTypes ==
    ASSUME NEW c \in Continuations, c.retries # 0
    PROVE  /\ Spend(c) \in Continuations /\ Spend(c).phase = c.phase
           /\ Spend(c).mode = c.mode /\ Spend(c).unknown = c.unknown
BY ProgramAssumption DEF Spend, Continuations

\* The first uncertainty is what the run reports.
LEMMA UnresolvedStep ==
    ASSUME NEW c \in Continuations, NEW fault \in Faults
    PROVE  LET s == Unresolved(c, fault)
           IN  s.tag = "Done" /\ s.outcome \in Answers /\ s.outcome.tag = "Unknown"
<1> DEFINE told == IF c.unknown = NoFault THEN fault ELSE c.unknown
<1>1. told \in Faults
  BY DEF Continuations
<1>2. Unresolved(c, fault) = Done(Unknown(told))
  BY DEF Unresolved
<1> HIDE DEF told
<1>3. Unknown(told) \in Answers
  BY <1>1, AnswerTypes
<1> QED
  BY <1>2, <1>3 DEF Done, Unknown

\* A retry of a phase that only asks.
LEMMA RetryPhaseStep ==
    ASSUME NEW c \in Continuations, NEW phase \in Phases \ {"Commit"}, NEW fault \in Faults
    PROVE  LET s == RetryPhase(c, phase, fault)
           IN  /\ GoodStep(s)
               /\ s.tag = "Done" => s.outcome.tag # "Ok"
               /\ s.tag = "Request" => s.cont.phase # "Commit"
               /\ c.unknown # NoFault => Discreet(s)
<1>1. CASE c.retries = 0
  <2>1. RetryPhase(c, phase, fault) = Unresolved(c, fault)
    BY <1>1 DEF RetryPhase
  <2> QED
    BY <2>1, UnresolvedStep DEF GoodStep, Discreet
<1>2. CASE c.retries # 0
  <2>1. RetryPhase(c, phase, fault) = AskPhase(Spend(c), phase)
    BY <1>2 DEF RetryPhase
  <2>2. Spend(c) \in Continuations /\ Spend(c).unknown = c.unknown
    BY <1>2, SpendTypes
  <2> QED
    BY <2>1, <2>2, AskPhaseStep DEF GoodStep, Discreet
<1> QED
  BY <1>1, <1>2

\* What `resume' makes of an answer o in continuation c.  Its only receipt is
\* that of the answer to a commit.  Once uncertain it stays discreet, unless
\* the answer to a commit ends the run.
Resumption(c, inv, o, s) ==
    /\ GoodStep(s) /\ Guarded(c, inv, o, s)
    /\ s.tag = "Done" /\ s.outcome.tag = "Ok" => c.phase = "Commit" /\ s.outcome = o
    /\ c.phase = "Commit" /\ o.tag \in {"Ok", "Refused"} => s.tag = "Done" /\ s.outcome = o
    /\ c.phase = "Commit" /\ o.tag = "Unknown" =>
         Discreet(s) /\ (s.tag = "Request" => s.cont.phase # "Commit")
    /\ c.unknown # NoFault /\ (c.phase = "Commit" => o.tag \notin {"Ok", "Refused"}) => Discreet(s)

\* The answer to a commit request.
LEMMA CommittedStep ==
    ASSUME NEW c \in Continuations, c.phase = "Commit", NEW inv, NEW o, Heard(c, o)
    PROVE  Resumption(c, inv, o, Committed(c, o))
<1> DEFINE s == Committed(c, o)
<1>0. c.retries \in Nat /\ o \in Answers
  BY ProgramAssumption DEF Continuations, Heard
<1>1. CASE o.tag \in {"Ok", "Refused"}
  <2>1. s.tag = "Done" /\ s.outcome = o
    BY <1>1 DEF Committed, Done
  <2> HIDE DEF s
  <2>2. Resumption(c, inv, o, s)
    BY <1>0, <1>1, <2>1 DEF Resumption, GoodStep, Guarded, Discreet
  <2> QED
    BY <2>2 DEF s
<1>2. CASE o.tag = "NotApplied" /\ c.retries # 0
  <2>1. s = AskPhase([Spend(c) EXCEPT !.mode = c.mode], "Commit")
    BY <1>0, <1>2 DEF Committed, AskCommit
  <2>2. [Spend(c) EXCEPT !.mode = c.mode] = Spend(c)
    BY DEF Spend, Continuations
  <2>3. s = AskPhase(Spend(c), "Commit")
    BY <2>1, <2>2
  <2>4. /\ Spend(c) \in Continuations /\ Spend(c).mode = c.mode /\ Spend(c).unknown = c.unknown
        /\ "Commit" \in Phases
    BY <1>2, SpendTypes DEF Phases
  <2> HIDE DEF s
  <2>5. \/ /\ s.tag = "Done" /\ s.outcome \in Answers
           /\ s.outcome.tag \in {"Refused", "Unknown"}
           /\ s.outcome.tag = "Refused" => c.unknown = NoFault
        \/ /\ s.tag = "Request" /\ s.cont \in Continuations /\ s.cont.phase = "Commit"
           /\ s.cont.mode = c.mode /\ s.cont.unknown = c.unknown
    BY <2>3, <2>4, AskPhaseStep
  <2>6. Resumption(c, inv, o, s)
    BY <1>2, <2>5 DEF Resumption, GoodStep, Guarded, Discreet
  <2> QED
    BY <2>6 DEF s
<1>3. CASE o.tag = "NotApplied" /\ c.retries = 0
  <2>1. s = Done(IF c.unknown = NoFault THEN o ELSE Unknown(c.unknown))
    BY <1>3 DEF Committed
  <2>2. c.unknown # NoFault => Unknown(c.unknown) \in Answers
    BY AnswerTypes DEF Continuations
  <2>3. /\ s.tag = "Done" /\ s.outcome \in Answers /\ s.outcome.tag # "Ok"
        /\ c.unknown # NoFault => s.outcome.tag = "Unknown"
    BY <1>0, <1>3, <2>1, <2>2 DEF Done, Unknown
  <2> HIDE DEF s
  <2>4. Resumption(c, inv, o, s)
    BY <1>3, <2>3 DEF Resumption, GoodStep, Guarded, Discreet
  <2> QED
    BY <2>4 DEF s
<1>4. CASE o.tag = "Unknown" /\ c.retries = 0
  <2>1. s = Unresolved(c, o.fault) /\ o.fault \in Faults
    BY <1>4 DEF Committed, Heard
  <2> HIDE DEF s
  <2>2. s.tag = "Done" /\ s.outcome \in Answers /\ s.outcome.tag = "Unknown"
    BY <2>1, UnresolvedStep
  <2>3. Resumption(c, inv, o, s)
    BY <1>4, <2>2 DEF Resumption, GoodStep, Guarded, Discreet
  <2> QED
    BY <2>3 DEF s
<1>5. CASE o.tag = "Unknown" /\ c.retries # 0
  <2> DEFINE told == IF c.unknown = NoFault THEN o.fault ELSE c.unknown
             spent == [Spend(c) EXCEPT !.unknown = told]
  <2>1. told \in Faults /\ told # NoFault
    BY <1>5 DEF Heard, Continuations, Faults, NoFault
  <2>2. Spend(c).unknown = c.unknown
    BY <1>5, SpendTypes
  <2>3. s = AskPhase(spent, "Reopen")
    BY <1>5, <2>2 DEF Committed
  <2> HIDE DEF s, told
  <2>4. spent \in Continuations /\ spent.unknown = told /\ "Reopen" \in Phases
    BY <1>5, <2>1, SpendTypes DEF Continuations, Phases
  <2> HIDE DEF spent
  <2>5. \/ s.tag = "Done" /\ s.outcome \in Answers /\ s.outcome.tag = "Unknown"
        \/ /\ s.tag = "Request" /\ s.cont \in Continuations /\ s.cont.phase = "Reopen"
           /\ s.cont.unknown # NoFault
    BY <2>1, <2>3, <2>4, AskPhaseStep
  <2>6. Resumption(c, inv, o, s)
    BY <1>5, <2>5 DEF Resumption, GoodStep, Guarded, Discreet
  <2> QED
    BY <2>6 DEF s
<1> QED
  BY <1>1, <1>2, <1>3, <1>4, <1>5 DEF Heard

\* The answer to a reopen.
LEMMA ReopenedStep ==
    ASSUME NEW c \in Continuations, c.phase = "Reopen", NEW inv, NEW o, Heard(c, o)
    PROVE  Resumption(c, inv, o, Reopened(c, o))
<1> DEFINE s == Reopened(c, o)
<1>1. \/ s = AskPhase(c, "History")
      \/ s = Unresolved(c, "Io")
      \/ o.fault \in Faults /\ s = RetryPhase(c, "Reopen", o.fault)
  BY DEF Reopened, Heard
<1>2. "Io" \in Faults /\ "History" \in Phases /\ "Reopen" \in Phases \ {"Commit"}
  BY DEF Faults, Phases
<1> HIDE DEF s
<1>3. /\ GoodStep(s)
      /\ s.tag = "Done" => s.outcome.tag # "Ok"
      /\ s.tag = "Request" => s.cont.phase # "Commit"
      /\ c.unknown # NoFault => Discreet(s)
  <2>1. CASE s = AskPhase(c, "History")
    BY <1>2, <2>1, AskPhaseStep DEF GoodStep, Discreet
  <2>2. CASE s = Unresolved(c, "Io")
    BY <1>2, <2>2, UnresolvedStep DEF GoodStep, Discreet
  <2>3. CASE o.fault \in Faults /\ s = RetryPhase(c, "Reopen", o.fault)
    BY <1>2, <2>3, RetryPhaseStep
  <2> QED
    BY <1>1, <2>1, <2>2, <2>3
<1>4. Resumption(c, inv, o, s)
  BY <1>3 DEF Resumption, Guarded
<1> QED
  BY <1>4 DEF s

\* The answer to a history.
LEMMA HistoryReadStep ==
    ASSUME NEW c \in Continuations, c.phase = "History", NEW inv \in Retained, NEW o, Heard(c, o)
    PROVE  Resumption(c, inv, o, HistoryRead(c, inv, o))
<1> DEFINE s == HistoryRead(c, inv, o)
           mode == IF Contains(o.value, inv) THEN Unversioned ELSE inv.mode
           guarded == [c EXCEPT !.mode = mode]
<1>1. \/ o.tag = "Ok" /\ s = AskPhase(guarded, "Commit")
      \/ s = Unresolved(c, "Io")
      \/ o.fault \in Faults /\ s = RetryPhase(c, "History", o.fault)
  BY DEF HistoryRead, AskCommit, Heard
<1>2. "Io" \in Faults /\ "Commit" \in Phases /\ "History" \in Phases \ {"Commit"}
  BY DEF Faults, Phases
<1>3. mode \in Modes /\ (Contains(o.value, inv) => mode = Unversioned)
  BY DEF Modes, ModeKinds, Unversioned, Retained
<1> HIDE DEF s, mode
<1>4. /\ guarded \in Continuations /\ guarded.mode = mode /\ guarded.unknown = c.unknown
  BY <1>3 DEF Continuations
<1> HIDE DEF guarded
<1>5. CASE o.tag = "Ok" /\ s = AskPhase(guarded, "Commit")
  <2>1. \/ /\ s.tag = "Done" /\ s.outcome \in Answers
           /\ s.outcome.tag \in {"Refused", "Unknown"}
           /\ s.outcome.tag = "Refused" => c.unknown = NoFault
        \/ /\ s.tag = "Request" /\ s.cont \in Continuations /\ s.cont.phase = "Commit"
           /\ s.cont.mode = mode /\ s.cont.unknown = c.unknown
    BY <1>2, <1>4, <1>5, AskPhaseStep
  <2>2. Resumption(c, inv, o, s)
    BY <1>3, <1>5, <2>1 DEF Resumption, GoodStep, Guarded, Discreet
  <2> QED
    BY <2>2 DEF s
<1>6. CASE s = Unresolved(c, "Io") \/ (o.fault \in Faults /\ s = RetryPhase(c, "History", o.fault))
  <2>1. /\ GoodStep(s)
        /\ s.tag = "Done" => s.outcome.tag # "Ok"
        /\ s.tag = "Request" => s.cont.phase # "Commit"
        /\ c.unknown # NoFault => Discreet(s)
    <3>1. CASE s = Unresolved(c, "Io")
      BY <1>2, <3>1, UnresolvedStep DEF GoodStep, Discreet
    <3>2. CASE o.fault \in Faults /\ s = RetryPhase(c, "History", o.fault)
      BY <1>2, <3>2, RetryPhaseStep
    <3> QED
      BY <1>6, <3>1, <3>2
  <2>2. Resumption(c, inv, o, s)
    BY <2>1 DEF Resumption, Guarded
  <2> QED
    BY <2>2 DEF s
<1> QED
  BY <1>1, <1>5, <1>6

\* Any answer.
LEMMA ResumeStep ==
    ASSUME NEW c \in Continuations, NEW inv \in Retained, NEW o, Heard(c, o)
    PROVE  Resumption(c, inv, o, Resume(c, inv, o))
<1>1. CASE c.phase = "Commit"
  BY <1>1, CommittedStep DEF Resume
<1>2. CASE c.phase = "Reopen"
  BY <1>2, ReopenedStep DEF Resume
<1>3. CASE c.phase = "History"
  BY <1>3, HistoryReadStep DEF Resume
<1>4. c.phase \in Phases
  BY DEF Continuations
<1> QED
  BY <1>1, <1>2, <1>3, <1>4 DEF Phases

-----------------------------------------------------------------------------
(* The invariant of recovery. *)

ProgramTypes ==
    /\ invocation \in [Handles -> Retained]
    /\ cont \in [Handles -> Continuations]
    /\ status \in [Handles -> {"waiting", "done", "crashed"}]
    /\ outcome \in [Handles -> Answers]
    /\ published \subseteq Handles

\* A terminal works for a caller that waits, on what its program asked for,
\* and a receipt on its way to the caller, or there, is that of its row.
Serving(h) ==
    /\ call[h] # Idle =>
         /\ status[h] = "waiting" /\ answer[h] = NoOutcome
         /\ cont[h].phase \in {"Commit", "Reopen"} /\ call[h].op = Asked(h)
         /\ cont[h].phase = "Commit" => invocation[h].publication.genuine
    /\ answer[h] # NoOutcome => status[h] = "waiting" /\ cont[h].phase \in {"Commit", "Reopen"}
    /\ status[h] # "done" => outcome[h] = NoOutcome
    /\ cont[h].phase = "Commit" /\ answer[h].tag = "Ok" =>
         Certifies(db.commits, invocation[h], answer[h].value)
    /\ outcome[h].tag = "Ok" => Certifies(db.commits, invocation[h], outcome[h].value)

\* A refusal that interference explains.
Interfered(o) == o.tag = "Refused" => o.code \in {"Concurrent", "History"}

\* A caller that waits and may have published either remembers an uncertainty,
\* and asks again without a guard, or is about to be told.
Wary(h) ==
    /\ cont[h].unknown # NoFault
    /\ cont[h].phase = "Commit" => cont[h].mode = Unversioned /\ Interfered(answer[h])

Told(h) ==
    /\ call[h] = Idle /\ cont[h].phase = "Commit"
    /\ answer[h].tag \in {"Ok", "Unknown", "Crashed"}

\* What holds of a caller whose run published.
Recovered(h) ==
    h \in published =>
      /\ Contains(db.commits, invocation[h]) /\ invocation[h].publication.genuine
      /\ status[h] = "waiting" => Wary(h) \/ Told(h)
      /\ outcome[h].tag # "NotApplied"
      /\ outcome[h].tag = "Refused" =>
           /\ Interfered(outcome[h])
           /\ cont[h].unknown # NoFault /\ cont[h].mode = Unversioned

\* The inductive invariant.
RInv == TInv /\ ProgramTypes /\ \A h \in Handles : Serving(h) /\ Recovered(h)

\* The commit rows grow at the end.
Grown ==
    /\ Len(db.commits) \in Nat /\ Len(db'.commits) \in Nat
    /\ Len(db.commits) <= Len(db'.commits)
    /\ SameUpTo(db.commits, db'.commits, Len(db.commits))

\* What certifies a receipt, or holds a request, still does when rows are added.
LEMMA GrownKeeps ==
    ASSUME Grown, NEW request
    PROVE  /\ Contains(db.commits, request) => Contains(db'.commits, request)
           /\ \A receipt : Certifies(db.commits, request, receipt) =>
                             Certifies(db'.commits, request, receipt)
<1>1. \A i \in 1 .. Len(db.commits) : i \in 1 .. Len(db'.commits) /\ db'.commits[i] = db.commits[i]
  BY DEF Grown, SameUpTo
<1>2. Contains(db.commits, request) => Contains(db'.commits, request)
  BY <1>1 DEF Contains
<1>3. \A receipt : Certifies(db.commits, request, receipt) =>
                     Certifies(db'.commits, request, receipt)
  BY <1>1 DEF Certifies
<1> QED
  BY <1>2, <1>3

\* A step of a terminal adds rows or none.
LEMMA StepGrows ==
    ASSUME TInv, NEW h \in Handles, Step(h)
    PROVE  Grown
<1>1. CASE db' = db
  BY <1>1, SameTables DEF Grown
<1>2. CASE db' # db
  <2>1. call[h].at = "commit" /\ db' = work
    BY <1>2, StepShape DEF Proceeds, Returns, Publishes
  <2> QED
    BY <2>1, CommitEffect DEF Grown
<1> QED
  BY <1>1, <1>2

\* Nothing of caller g changes.
Untouched(g) ==
    /\ call'[g] = call[g] /\ answer'[g] = answer[g] /\ cont'[g] = cont[g]
    /\ status'[g] = status[g] /\ outcome'[g] = outcome[g] /\ invocation'[g] = invocation[g]
    /\ g \in published' <=> g \in published

LEMMA UntouchedServed ==
    ASSUME NEW g \in Handles, Untouched(g), Grown, Serving(g), Recovered(g)
    PROVE  Serving(g)' /\ Recovered(g)'
<1>1. Idle' = Idle /\ Asked(g)' = Asked(g)
  BY DEF Idle, Asked, Untouched
<1>2. /\ Contains(db.commits, invocation[g]) => Contains(db.commits, invocation[g])'
      /\ \A receipt : Certifies(db.commits, invocation[g], receipt) =>
                        Certifies(db'.commits, invocation[g], receipt)
  BY GrownKeeps DEF Untouched
<1>3. Serving(g)'
  BY <1>1, <1>2 DEF Serving, Untouched
<1>4. Recovered(g)'
  BY <1>1, <1>2 DEF Recovered, Wary, Told, Interfered, Untouched
<1> QED
  BY <1>3, <1>4

\* What a waiting caller asks its terminal for.
LEMMA AskedTypes ==
    ASSUME ProgramTypes, NEW h \in Handles
    PROVE  /\ Asked(h) \in CallType
           /\ Asked(h).kind = "Commit" <=> cont[h].phase = "Commit"
           /\ Asked(h).kind = "Reopen" <=> cont[h].phase # "Commit"
           /\ cont[h].phase = "Commit" =>
                /\ Asked(h).key = invocation[h].key
                /\ Asked(h).publication = invocation[h].publication
                /\ Asked(h).mode = cont[h].mode
<1>1. /\ invocation[h].key \in Keys /\ invocation[h].publication \in Publications
      /\ cont[h].mode \in Modes
  BY DEF ProgramTypes, Retained, Continuations
<1>2. CASE cont[h].phase = "Commit"
  <2>1. Asked(h) = [kind |-> "Commit", key |-> invocation[h].key,
                    publication |-> invocation[h].publication, mode |-> cont[h].mode]
    BY <1>2 DEF Asked
  <2> QED
    BY <1>1, <1>2, <2>1 DEF CallType
<1>3. CASE cont[h].phase # "Commit"
  <2>1. Asked(h) = [kind |-> "Reopen"]
    BY <1>3 DEF Asked
  <2> QED
    BY <1>3, <2>1 DEF CallType
<1> QED
  BY <1>2, <1>3

\* The program asks its terminal, which takes the operation or refuses it.
LEMMA AskRInv ==
    ASSUME RInv, NEW h \in Handles, AskStep(h)
    PROVE  RInv'
<1> DEFINE op == Asked(h)
<1>1. /\ Begin(h, op) /\ UNCHANGED <<program, published>>
      /\ status[h] = "waiting" /\ call[h] = Idle /\ answer[h] = NoOutcome
      /\ cont[h].phase \in {"Commit", "Reopen"}
  BY DEF AskStep, Waits
<1>2. /\ TInv /\ ProgramTypes /\ op \in CallType
      /\ op.kind = "Commit" <=> cont[h].phase = "Commit"
      /\ cont[h].phase = "Commit" => op.publication = invocation[h].publication
  BY AskedTypes DEF RInv
<1>3. /\ call \in [Handles -> {Idle} \cup Busy] /\ answer \in [Handles -> Answers]
  BY <1>2 DEF TInv, IInv, TypeOK, Busy
<1> HIDE DEF op
<1>4. IInv' /\ TInv'
  <2>1. IInv'
    BY <1>1, <1>2, BeginIInv DEF TInv
  <2> QED
    BY <1>1, <1>2, <2>1, BeginTInv
<1>5. ProgramTypes'
  BY <1>1, <1>2 DEF ProgramTypes, program
<1>6. Grown /\ db' = db
  BY <1>1, <1>2, SameTables DEF Grown, Begin
<1>7. \/ /\ call' = call
         /\ \/ answer' = [answer EXCEPT ![h] = Refused("History")]
            \/ /\ answer' = [answer EXCEPT ![h] = Refused("Identity")]
               /\ op.kind = "Commit" /\ ~op.publication.genuine
      \/ /\ \E at \in {"open", FirstStep(op)} : call' = [call EXCEPT ![h] = Under(op, at, 1)]
         /\ answer' = [answer EXCEPT ![h] = NoOutcome]
         /\ op.kind = "Commit" => op.publication.genuine
  BY <1>1 DEF Begin
<1>8. \A g \in Handles \ {h} : Untouched(g)
  BY <1>1, <1>3, <1>7 DEF Untouched, program
<1>9. /\ \/ /\ call'[h] = Idle
            /\ \/ answer'[h] = Refused("History")
               \/ answer'[h] = Refused("Identity") /\ op.kind = "Commit" /\ ~op.publication.genuine
         \/ /\ call'[h].op = op /\ call'[h] # Idle /\ answer'[h] = NoOutcome
            /\ op.kind = "Commit" => op.publication.genuine
  BY <1>1, <1>3, <1>7 DEF Under, Idle
<1>10. UNCHANGED <<cont, status, outcome, invocation, published>> /\ op' = op /\ Idle' = Idle
  BY <1>1 DEF program, op, Asked, Idle
<1>11. Refused("History").tag = "Refused" /\ Refused("Identity").tag = "Refused"
       /\ Refused("History").code = "History" /\ NoOutcome.tag = "None"
  BY DEF Refused, NoOutcome
<1>12. Serving(h) /\ Recovered(h)
  BY DEF RInv
<1>13. Serving(h)'
  BY <1>1, <1>2, <1>6, <1>9, <1>10, <1>11, <1>12 DEF Serving, op
<1>14. Recovered(h)'
  <2>1. h \in published => Interfered(answer[h])'
    BY <1>2, <1>9, <1>11, <1>12 DEF Interfered, Recovered
  <2>2. h \in published => Wary(h)
    BY <1>1, <1>11, <1>12 DEF Recovered, Told
  <2> QED
    BY <1>1, <1>6, <1>10, <1>12, <2>1, <2>2 DEF Recovered, Wary, Interfered
<1> QED
  BY <1>4, <1>5, <1>6, <1>8, <1>13, <1>14, UntouchedServed DEF RInv

\* The commit a terminal makes for its caller adds the caller's own row.
LEMMA PublishedRow ==
    ASSUME RInv, NEW h \in Handles, Publishes(h), Step(h)
    PROVE  /\ cont[h].phase = "Commit" /\ db' # db
           /\ Contains(db'.commits, invocation[h])
           /\ answer'[h].tag \in {"Ok", "Unknown", "Crashed"}
           /\ answer'[h].tag = "Ok" => Certifies(db'.commits, invocation[h], answer'[h].value)
<1> DEFINE op == call[h].op
           n == Len(db.commits)
           m == 2 * n
<1>1. /\ call[h].at = "commit" /\ db' = work /\ call[h] # Idle
      /\ answer'[h] \in {Success(h), Unknown("Io"), Crashed}
  BY StepShape DEF Publishes, RInv
<1>2. TInv /\ ProgramTypes /\ Serving(h)
  BY DEF RInv
<1>3. /\ op \in CallType /\ db \in Tables /\ op.kind \in {"Commit", "Acknowledge"} /\ Staged(h)
      /\ call[h].at \in Writing
  BY <1>1, <1>2, WriterFacts DEF Writing
<1>4. op = Asked(h)
  BY <1>1, <1>2 DEF Serving
<1>5. /\ op.kind = "Commit" /\ cont[h].phase = "Commit"
      /\ op.key = invocation[h].key /\ op.publication = invocation[h].publication
  BY <1>2, <1>3, <1>4, AskedTypes
<1>6. work = Whole(db, op) /\ Agree(db)
  BY <1>1, <1>2, <1>3, <1>5 DEF Staged, Complete, TInv
<1>7. n \in Nat /\ m \in Nat /\ n = Len(db.commits) /\ m = 2 * n
  BY <1>3 DEF Tables
<1> HIDE DEF op, n, m
<1>8. Adds(work, db, op, n, m)
  BY <1>3, <1>5, <1>6, <1>7, WholeParts, Zenon
<1>9. /\ work.sequence = n + 1 /\ Len(work.commits) = n + 1
      /\ work.commits[n + 1] = [key |-> op.key, version |-> n + 1, publication |-> op.publication,
                                chain |-> work.chain]
  BY <1>8, Zenon DEF Adds
<1>10. n + 1 \in 1 .. n + 1
  BY <1>7
<1>11. Contains(db'.commits, invocation[h])
  BY <1>1, <1>5, <1>9, <1>10 DEF Contains
<1>12. Success(h) = Ok(Receipt(n + 1, work.chain, "Committed"))
  BY <1>5, <1>9 DEF Success, op
<1>13. /\ Success(h).tag = "Ok" /\ Success(h).value.version = n + 1
       /\ Success(h).value.chain = work.chain
  BY <1>12 DEF Ok, Receipt
<1>14. Certifies(db'.commits, invocation[h], Success(h).value)
  BY <1>1, <1>5, <1>9, <1>10, <1>13 DEF Certifies
<1>15. Unknown("Io").tag = "Unknown" /\ Crashed.tag = "Crashed"
  BY DEF Unknown, Crashed
<1>16. db' # db
  BY <1>1, <1>7, <1>9
<1> QED
  BY <1>1, <1>5, <1>11, <1>13, <1>14, <1>15, <1>16

\* The terminal and its store at work.
LEMMA StoreRInv ==
    ASSUME RInv, NEW h \in Handles, StoreStep(h)
    PROVE  RInv'
<1> DEFINE op == call[h].op
<1>1. /\ Step(h) /\ UNCHANGED <<invocation, cont, status, outcome>>
      /\ published' = IF db' = db THEN published ELSE published \cup {h}
  BY DEF StoreStep, program
<1>2. TInv /\ ProgramTypes /\ Serving(h) /\ Recovered(h)
  BY DEF RInv
<1>3. /\ call[h] # Idle /\ Alone(h)
      /\ Proceeds(h) \/ Returns(h) \/ Publishes(h)
  BY <1>1, <1>2, StepShape
<1>4. TInv' /\ Grown
  BY <1>1, <1>2, StepTInv, StepGrows
<1>5. ProgramTypes'
  BY <1>1, <1>2 DEF ProgramTypes
<1>6. \A g \in Handles \ {h} : Untouched(g)
  BY <1>1, <1>3 DEF Alone, Untouched
<1>7. /\ status[h] = "waiting" /\ answer[h] = NoOutcome /\ op = Asked(h)
      /\ cont[h].phase \in {"Commit", "Reopen"}
      /\ cont[h].phase = "Commit" => invocation[h].publication.genuine
      /\ outcome[h] = NoOutcome /\ outcome'[h].tag = "None" /\ NoOutcome.tag = "None"
  BY <1>1, <1>2, <1>3 DEF Serving, NoOutcome
<1>8. /\ op.kind = "Commit" <=> cont[h].phase = "Commit"
      /\ cont[h].phase = "Commit" =>
           op.key = invocation[h].key /\ op.publication = invocation[h].publication
           /\ op.mode = cont[h].mode
  BY <1>2, <1>7, AskedTypes
<1>9. h \in published => Wary(h) /\ Contains(db.commits, invocation[h])
                         /\ invocation[h].publication.genuine
  BY <1>2, <1>3, <1>7 DEF Recovered, Told
<1>10. Idle' = Idle /\ Asked(h)' = Asked(h)
  BY <1>1 DEF Idle, Asked
<1>11. CASE Proceeds(h)
  <2>1. /\ db' = db /\ answer'[h] = NoOutcome /\ call'[h].op = Asked(h) /\ published' = published
    BY <1>1, <1>7, <1>11 DEF Proceeds
  <2>2. Serving(h)'
    BY <1>1, <1>7, <1>10, <2>1 DEF Serving
  <2>3. Recovered(h)'
    BY <1>1, <1>7, <1>9, <2>1 DEF Recovered, Wary, Interfered
  <2> QED
    BY <1>4, <1>5, <1>6, <2>2, <2>3, UntouchedServed, <1>2 DEF RInv
<1>12. CASE Returns(h)
  <2>1. /\ db' = db /\ call'[h] = Idle /\ Replies(op, answer'[h]) /\ published' = published
    BY <1>1, <1>12 DEF Returns
  <2>2. cont[h].phase = "Commit" /\ answer'[h].tag = "Ok" =>
          Certifies(db.commits, invocation[h], answer'[h].value)
    <3> HIDE DEF op
    <3> QED
      BY <1>8, <2>1 DEF Replies, Certifies
  <2>3. Serving(h)'
    BY <1>1, <1>7, <1>10, <2>1, <2>2 DEF Serving
  <2>4. h \in published => Wary(h)'
    <3>1. h \in published /\ cont[h].phase = "Commit" => Interfered(answer'[h])
      <4> HIDE DEF op
      <4> QED
        BY <1>8, <1>9, <2>1 DEF Replies, Interfered, Wary, Contains
    <3> QED
      BY <1>1, <1>9, <3>1 DEF Wary, Interfered
  <2>5. Recovered(h)'
    BY <1>1, <1>7, <1>9, <2>1, <2>4 DEF Recovered
  <2> QED
    BY <1>4, <1>5, <1>6, <2>3, <2>5, UntouchedServed, <1>2 DEF RInv
<1>13. CASE Publishes(h)
  <2>1. /\ cont[h].phase = "Commit" /\ db' # db
        /\ Contains(db'.commits, invocation[h])
        /\ answer'[h].tag \in {"Ok", "Unknown", "Crashed"}
        /\ answer'[h].tag = "Ok" => Certifies(db'.commits, invocation[h], answer'[h].value)
    BY <1>1, <1>13, PublishedRow
  <2>2. call'[h] = Idle
    BY <1>13 DEF Publishes
  <2>3. Serving(h)'
    BY <1>1, <1>7, <1>10, <2>1, <2>2 DEF Serving
  <2>4. Recovered(h)'
    BY <1>1, <1>7, <1>10, <2>1, <2>2 DEF Recovered, Told
  <2> QED
    BY <1>4, <1>5, <1>6, <2>3, <2>4, UntouchedServed, <1>2 DEF RInv
<1> QED
  BY <1>3, <1>11, <1>12, <1>13

\* The program resumes with an answer of its terminal, or with a history.
LEMMA ResumedRInv ==
    ASSUME RInv, TInv', NEW h \in Handles, NEW o, Heard(cont[h], o), Resumed(h, o),
           status[h] = "waiting", call[h] = Idle,
           UNCHANGED <<db, call, invocation, published>>,
           answer'[h] = NoOutcome, \A g \in Handles \ {h} : answer'[g] = answer[g],
           cont[h].phase = "Commit" => o = answer[h],
           cont[h].phase = "History" /\ o.tag = "Ok" => o.value = db.commits
    PROVE  RInv'
<1> DEFINE c == cont[h]
           inv == invocation[h]
           s == Resume(c, inv, o)
<1>1. TInv /\ ProgramTypes /\ Serving(h) /\ Recovered(h)
  BY DEF RInv
<1>2. c \in Continuations /\ inv \in Retained
  BY <1>1 DEF ProgramTypes
<1>3. Resumption(c, inv, o, s)
  BY <1>2, ResumeStep
<1>4. /\ s.tag = "Request" => cont' = [cont EXCEPT ![h] = s.cont] /\ UNCHANGED <<status, outcome>>
      /\ s.tag # "Request" =>
           /\ status' = [status EXCEPT ![h] = "done"]
           /\ outcome' = [outcome EXCEPT ![h] = s.outcome]
           /\ UNCHANGED cont
  BY DEF Resumed
<1>5. c.phase = "Commit" /\ o.tag = "Ok" => Certifies(db.commits, inv, o.value)
  BY <1>1 DEF Serving
<1>6. outcome[h] = NoOutcome /\ NoOutcome.tag = "None"
  BY <1>1 DEF Serving, NoOutcome
<1>7. ASSUME h \in published
      PROVE  /\ Contains(db.commits, inv) /\ inv.publication.genuine
             /\ \/ /\ c.unknown # NoFault
                   /\ c.phase = "Commit" => c.mode = Unversioned /\ Interfered(o)
                \/ c.phase = "Commit" /\ o.tag \in {"Ok", "Unknown"}
  <2>1. Wary(h) \/ Told(h)
    BY <1>1, <1>7 DEF Recovered
  <2>2. Told(h) => c.phase = "Commit" /\ o.tag \in {"Ok", "Unknown"}
    BY DEF Told, Heard
  <2> QED
    BY <1>1, <1>7, <2>1, <2>2 DEF Recovered, Wary
<1>8. /\ DOMAIN cont = Handles /\ DOMAIN status = Handles /\ DOMAIN outcome = Handles
  BY <1>1 DEF ProgramTypes
<1> HIDE DEF s, c, inv
<1>9. Grown /\ \A g \in Handles \ {h} : Untouched(g)
  <2>1. \A g \in Handles \ {h} : cont'[g] = cont[g] /\ status'[g] = status[g]
                                 /\ outcome'[g] = outcome[g]
    <3>1. CASE s.tag = "Request"
      BY <1>4, <1>8, <3>1
    <3>2. CASE s.tag # "Request"
      BY <1>4, <1>8, <3>2
    <3> QED
      BY <3>1, <3>2
  <2> QED
    BY <1>1, <2>1, SameTables DEF Grown, Untouched
<1>10. ProgramTypes'
  BY <1>1, <1>3, <1>4 DEF ProgramTypes, Resumption, GoodStep
<1>11. CASE s.tag = "Request"
  <2>1. /\ cont'[h] = s.cont /\ status'[h] = "waiting" /\ outcome'[h] = NoOutcome
        /\ call'[h] = Idle
    BY <1>4, <1>6, <1>8, <1>11
  <2>2. Serving(h)'
    BY <1>6, <2>1 DEF Serving, Idle
  <2>3. ASSUME h \in published
        PROVE  /\ s.cont.unknown # NoFault
               /\ s.cont.phase = "Commit" => s.cont.mode = Unversioned
    <3>1. /\ ~(c.phase = "Commit" /\ o.tag \in {"Ok", "Refused"})
      BY <1>3, <1>11 DEF Resumption
    <3>2. Discreet(s)
      BY <1>3, <1>7, <2>3, <3>1 DEF Resumption
    <3>3. CASE c.unknown # NoFault /\ (c.phase = "Commit" => c.mode = Unversioned)
      <4>1. s.cont.phase = "Commit" =>
              \/ c.phase = "Commit" /\ s.cont.mode = c.mode
              \/ /\ c.phase = "History" /\ o.tag = "Ok"
                 /\ Contains(o.value, inv) => s.cont.mode = Unversioned
        BY <1>3, <1>11 DEF Resumption, Guarded
      <4>2. c.phase = "History" /\ o.tag = "Ok" => Contains(o.value, inv)
        BY <1>7, <2>3 DEF c
      <4> QED
        BY <1>11, <3>2, <3>3, <4>1, <4>2 DEF Discreet
    <3>4. CASE c.phase = "Commit" /\ o.tag = "Unknown"
      BY <1>3, <1>11, <3>2, <3>4 DEF Resumption, Discreet
    <3> QED
      BY <1>7, <2>3, <3>1, <3>3, <3>4
  <2>4. Interfered(NoOutcome)
    BY <1>6 DEF Interfered
  <2>5. Recovered(h)'
    BY <1>6, <1>7, <2>1, <2>3, <2>4 DEF Recovered, Wary, Interfered, inv
  <2> QED
    BY <1>1, <1>9, <1>10, <2>2, <2>5, UntouchedServed DEF RInv
<1>12. CASE s.tag = "Done"
  <2>1. /\ cont'[h] = c /\ status'[h] = "done" /\ outcome'[h] = s.outcome /\ call'[h] = Idle
    BY <1>4, <1>8, <1>12 DEF c
  <2>2. s.outcome.tag = "Ok" => Certifies(db.commits, inv, s.outcome.value)
    BY <1>3, <1>5, <1>12 DEF Resumption
  <2>3. Serving(h)'
    BY <1>6, <2>1, <2>2 DEF Serving, Idle, inv
  <2>4. ASSUME h \in published
        PROVE  /\ s.outcome.tag # "NotApplied"
               /\ s.outcome.tag = "Refused" =>
                    Interfered(s.outcome) /\ c.unknown # NoFault /\ c.mode = Unversioned
    <3>1. CASE c.phase = "Commit" /\ o.tag \in {"Ok", "Refused"}
      <4>1. s.outcome = o
        BY <1>3, <3>1 DEF Resumption
      <4> QED
        BY <1>7, <2>4, <3>1, <4>1
    <3>2. CASE ~(c.phase = "Commit" /\ o.tag \in {"Ok", "Refused"})
      <4>1. Discreet(s)
        BY <1>3, <1>7, <2>4, <3>2 DEF Resumption
      <4> QED
        BY <1>12, <4>1 DEF Discreet
    <3> QED
      BY <3>1, <3>2
  <2>5. Recovered(h)'
    BY <1>7, <2>1, <2>4 DEF Recovered, Interfered, inv
  <2> QED
    BY <1>1, <1>9, <1>10, <2>3, <2>5, UntouchedServed DEF RInv
<1> QED
  BY <1>3, <1>11, <1>12 DEF Resumption, GoodStep

\* An answer is read, and a terminal's invalidation set: the tables stay true.
LEMMA ReadTInv ==
    ASSUME TInv, UNCHANGED <<db, lock, work, view, call, wrote>>, NEW h \in Handles,
           answer' = [answer EXCEPT ![h] = NoOutcome], invalidated' \in [Handles -> BOOLEAN]
    PROVE  TInv'
<1>1. answer \in [Handles -> Answers] /\ NoOutcome \in Answers
  BY AnswerTypes DEF TInv, IInv, TypeOK
<1>2. \A g \in Handles : answer'[g] = NoOutcome \/ answer'[g] = answer[g]
  BY <1>1
<1>3. ASSUME NEW g \in Handles PROVE SaysTrue(answer'[g], wrote[g], db.commits)
  <2>0. wrote[g] \in BOOLEAN
    BY DEF TInv, IInv, TypeOK
  <2>1. SaysTrue(answer[g], wrote[g], db.commits) /\ SaysTrue(NoOutcome, wrote[g], db.commits)
    BY <2>0, PlainTrue DEF TInv
  <2> QED
    BY <1>2, <2>1
<1>4. answer' \in [Handles -> Answers]
  BY <1>1
<1> QED
  BY <1>3, <1>4, AsideTInv

\* The program takes the terminal's answer, or dies with its process.
LEMMA TakeRInv ==
    ASSUME RInv, NEW h \in Handles, TakeStep(h)
    PROVE  RInv'
<1>1. /\ status[h] = "waiting" /\ answer[h] # NoOutcome
      /\ answer' = [answer EXCEPT ![h] = NoOutcome]
      /\ UNCHANGED <<db, lock, work, view, call, invalidated, wrote, invocation, published>>
  BY DEF TakeStep
<1>2. TInv /\ ProgramTypes /\ Serving(h) /\ Recovered(h)
  BY DEF RInv
<1>3. answer \in [Handles -> Answers] /\ invalidated \in [Handles -> BOOLEAN]
  BY <1>2 DEF TInv, IInv, TypeOK
<1>4. TInv'
  BY <1>1, <1>2, <1>3, ReadTInv
<1>5. /\ call[h] = Idle /\ cont[h].phase \in {"Commit", "Reopen"}
      /\ answer'[h] = NoOutcome /\ \A g \in Handles \ {h} : answer'[g] = answer[g]
  BY <1>1, <1>2, <1>3 DEF Serving
<1>6. CASE answer[h] = Crashed
  <2>1. status' = [status EXCEPT ![h] = "crashed"] /\ UNCHANGED <<cont, outcome>>
    BY <1>6 DEF TakeStep
  <2>2. ProgramTypes'
    BY <1>1, <1>2, <2>1 DEF ProgramTypes
  <2>3. status'[h] = "crashed" /\ call'[h] = Idle
    BY <1>1, <1>2, <1>5, <2>1 DEF ProgramTypes
  <2>4. Grown /\ \A g \in Handles \ {h} : Untouched(g)
    BY <1>1, <1>2, <1>5, <2>1, SameTables DEF Grown, Untouched, ProgramTypes
  <2>5. Serving(h)'
    BY <1>1, <1>2, <1>5, <2>1, <2>3 DEF Serving, NoOutcome, Idle
  <2>6. Recovered(h)'
    BY <1>1, <1>2, <2>1, <2>3 DEF Recovered, Interfered
  <2> QED
    BY <1>2, <1>4, <2>2, <2>4, <2>5, <2>6, UntouchedServed DEF RInv
<1>7. CASE answer[h] # Crashed
  <2>1. Resumed(h, answer[h])
    BY <1>7 DEF TakeStep
  <2>2. Heard(cont[h], answer[h])
    BY <1>1, <1>3, <1>7 DEF Heard, Answers, NoOutcome, Crashed, HeadRead, Acknowledged, Ok
  <2>3. cont[h].phase # "History"
    BY <1>5
  <2> QED
    BY <1>1, <1>4, <1>5, <2>1, <2>2, <2>3, ResumedRInv
<1> QED
  BY <1>6, <1>7

\* The audited history is read, or refused, or not to be had.
LEMMA HistoryRInv ==
    ASSUME RInv, NEW h \in Handles, HistoryStep(h)
    PROVE  RInv'
<1>1. /\ status[h] = "waiting" /\ call[h] = Idle /\ answer[h] = NoOutcome
      /\ cont[h].phase = "History"
      /\ invalidated' = [invalidated EXCEPT ![h] = invalidated[h] \/ Changed(h)]
      /\ UNCHANGED <<db, lock, work, view, call, answer, wrote, invocation, published>>
  BY DEF HistoryStep, Waits
<1>2. TInv /\ ProgramTypes
  BY DEF RInv
<1>3. answer \in [Handles -> Answers] /\ invalidated \in [Handles -> BOOLEAN]
      /\ view \in [Conns -> Views] /\ <<h, "held">> \in Conns
  BY <1>2, ConnTypes DEF TInv, IInv, TypeOK
<1>4. invalidated' \in [Handles -> BOOLEAN]
  BY <1>1, <1>3 DEF Changed
<1>5. answer' = [answer EXCEPT ![h] = NoOutcome]
  BY <1>1, <1>3
<1>6. TInv'
  BY <1>1, <1>2, <1>4, <1>5, ReadTInv
<1>7. \/ Resumed(h, Refused("History"))
      \/ Resumed(h, Ok(db.commits))
      \/ \E fault \in Faults : Resumed(h, NotApplied(fault))
  BY DEF HistoryStep
<1>8. ASSUME NEW o, Resumed(h, o), Heard(cont[h], o), o.tag = "Ok" => o.value = db.commits
      PROVE  RInv'
  BY <1>1, <1>6, <1>8, ResumedRInv
<1>9. CASE Resumed(h, Refused("History"))
  <2>1. Heard(cont[h], Refused("History")) /\ Refused("History").tag # "Ok"
    BY <1>1 DEF Heard, Refused
  <2> QED
    BY <1>8, <1>9, <2>1
<1>10. CASE Resumed(h, Ok(db.commits))
  <2>1. Heard(cont[h], Ok(db.commits)) /\ Ok(db.commits).value = db.commits
    BY <1>1 DEF Heard, Ok
  <2> QED
    BY <1>8, <1>10, <2>1
<1>11. ASSUME NEW fault \in Faults, Resumed(h, NotApplied(fault)) PROVE RInv'
  <2>1. Heard(cont[h], NotApplied(fault)) /\ NotApplied(fault).tag # "Ok"
    BY <1>1 DEF Heard, NotApplied
  <2> QED
    BY <1>8, <1>11, <2>1
<1> QED
  BY <1>7, <1>9, <1>10, <1>11

\* A crashed caller starts over, uncertain of what it published.
LEMMA RestartRInv ==
    ASSUME RInv, NEW h \in Handles, RestartStep(h)
    PROVE  RInv'
<1>1. /\ status[h] = "crashed" /\ UNCHANGED <<vars, invocation, outcome, published>>
      /\ cont' = [cont EXCEPT ![h] = Recover(invocation[h])]
      /\ status' = [status EXCEPT ![h] = "waiting"]
  BY DEF RestartStep
<1>2. TInv /\ ProgramTypes /\ Serving(h) /\ Recovered(h)
  BY DEF RInv
<1>3. UNCHANGED <<db, lock, work, view, call, answer, invalidated, wrote>>
  BY <1>1 DEF vars
<1>4. TInv'
  BY <1>2, <1>3, AsideTInv DEF TInv, IInv, TypeOK
<1>5. /\ Recover(invocation[h]) \in Continuations /\ Recover(invocation[h]).phase = "Reopen"
      /\ Recover(invocation[h]).unknown # NoFault
  BY <1>2, StartTypes DEF ProgramTypes
<1>6. ProgramTypes'
  BY <1>1, <1>2, <1>5 DEF ProgramTypes
<1>7. cont'[h] = Recover(invocation[h]) /\ status'[h] = "waiting"
  BY <1>1, <1>2 DEF ProgramTypes
<1>8. call[h] = Idle /\ answer[h] = NoOutcome /\ outcome[h] = NoOutcome /\ NoOutcome.tag = "None"
  BY <1>1, <1>2 DEF Serving, NoOutcome
<1>9. Grown /\ \A g \in Handles \ {h} : Untouched(g)
  BY <1>1, <1>2, <1>3, SameTables DEF Grown, Untouched, ProgramTypes
<1>10. Serving(h)'
  BY <1>1, <1>3, <1>5, <1>7, <1>8 DEF Serving, Idle
<1>11. Recovered(h)'
  BY <1>1, <1>2, <1>3, <1>5, <1>7, <1>8 DEF Recovered, Wary
<1> QED
  BY <1>2, <1>4, <1>6, <1>9, <1>10, <1>11, UntouchedServed DEF RInv

\* A new store and callers that have asked for nothing satisfy the invariant.
LEMMA InitRInv ==
    RecoveryInit => RInv
<1> SUFFICES ASSUME RecoveryInit PROVE RInv
  OBVIOUS
<1>1. /\ Init /\ invocation \in [Handles -> Invocations]
      /\ cont = [h \in Handles |-> Start(invocation[h])]
      /\ status = [h \in Handles |-> "waiting"]
      /\ outcome = [h \in Handles |-> NoOutcome] /\ published = {}
  BY DEF RecoveryInit
<1>2. TInv
  BY <1>1, InitTInv
<1>3. \A h \in Handles : call[h] = Idle /\ answer[h] = NoOutcome
  BY <1>1 DEF Init
<1>4. invocation \in [Handles -> Retained]
  BY <1>1, RecoveryAssumption DEF Retained
<1>5. ProgramTypes
  BY <1>1, <1>4, StartTypes, AnswerTypes DEF ProgramTypes
<1>6. \A h \in Handles : Serving(h) /\ Recovered(h)
  BY <1>1, <1>3 DEF Serving, Recovered, NoOutcome
<1> QED
  BY <1>2, <1>5, <1>6 DEF RInv

\* Every step keeps it.
LEMMA NextRInv ==
    RInv /\ [RecoveryNext]_allVars => RInv'
<1> SUFFICES ASSUME RInv, [RecoveryNext]_allVars PROVE RInv'
  OBVIOUS
<1>1. CASE UNCHANGED allVars
  <2>1. /\ UNCHANGED <<db, lock, work, view, call, answer, invalidated, wrote>>
        /\ UNCHANGED <<invocation, cont, status, outcome, published>>
    BY <1>1 DEF allVars, vars, program
  <2>2. TInv'
    BY <2>1, AsideTInv DEF RInv, TInv, IInv, TypeOK
  <2>3. Grown /\ \A g \in Handles : Untouched(g)
    BY <2>1, SameTables DEF Grown, Untouched, RInv
  <2>4. ProgramTypes'
    BY <2>1 DEF RInv, ProgramTypes
  <2> QED
    BY <2>2, <2>3, <2>4, UntouchedServed DEF RInv
<1>2. CASE Finished
  BY <1>1, <1>2 DEF Finished
<1>3. ASSUME NEW h \in Handles,
             AskStep(h) \/ StoreStep(h) \/ TakeStep(h) \/ HistoryStep(h) \/ RestartStep(h)
      PROVE  RInv'
  BY <1>3, AskRInv, StoreRInv, TakeRInv, HistoryRInv, RestartRInv
<1> QED
  BY <1>1, <1>2, <1>3 DEF RecoveryNext

\* Every reachable state satisfies it.
LEMMA RecoverySpecRInv ==
    RecoverySpec => []RInv
BY InitRInv, NextRInv, PTL DEF RecoverySpec

-----------------------------------------------------------------------------
(* The theorems about recovery. *)

\* What the callers' operations, crashes and restarts do to the store keeps its
\* tables and answers as they are under Spec.
THEOREM RecoveryKeepsStore ==
    RecoverySpec => [](TypeOK /\ WriterAtHead /\ TablesAgree /\ AnswersTrue)
<1>1. RInv => TypeOK /\ WriterAtHead /\ TablesAgree /\ AnswersTrue
  BY AgreedTables DEF RInv, TInv, IInv, WriterAtHead, AtHead, SaysTrue, AnswersTrue
<1> QED
  BY <1>1, RecoverySpecRInv, PTL

\* However its terminal fails and its process crashes, and whatever the other
\* terminals write meanwhile, a caller whose commit is in the store is refused
\* only when another connection wrote between synchronize and BEGIN of its
\* replay or changed an exclusive store, and is never told NotApplied.
THEOREM OnlyInterferenceRefuses ==
    RecoverySpec => []OnlyInterferenceHides
<1>1. RInv => OnlyInterferenceHides
  BY DEF RInv, ProgramTypes, Recovered, Interfered, OnlyInterferenceHides
<1> QED
  BY <1>1, RecoverySpecRInv, PTL

\* A caller that receives a receipt, at once or after any number of retries,
\* reopens and restarts, receives that of the one row under its key, and that
\* row holds its own publication.
THEOREM ReceiptsAreRecovered ==
    RecoverySpec => []RecoveredReceipt
<1>1. ASSUME RInv PROVE RecoveredReceipt
  <2> SUFFICES ASSUME NEW h \in Handles, outcome[h].tag = "Ok"
               PROVE  LET v == outcome[h].value.version
                      IN  /\ v \in 1 .. Len(db.commits)
                          /\ db.commits[v].key = invocation[h].key
                          /\ db.commits[v].publication = invocation[h].publication
                          /\ db.commits[v].chain = outcome[h].value.chain
                          /\ Rows(db, invocation[h].key) = {v}
    BY DEF RecoveredReceipt
  <2> DEFINE v == outcome[h].value.version
  <2>1. Certifies(db.commits, invocation[h], outcome[h].value)
    BY <1>1 DEF RInv, Serving
  <2>2. \A i, j \in 1 .. Len(db.commits) : db.commits[i].key = db.commits[j].key => i = j
    BY <1>1 DEF RInv, TInv, Agree
  <2>3. /\ v \in 1 .. Len(db.commits) /\ db.commits[v].key = invocation[h].key
    BY <2>1 DEF Certifies
  <2>4. Rows(db, invocation[h].key) = {v}
    BY <2>2, <2>3 DEF Rows
  <2> QED
    BY <2>1, <2>4 DEF Certifies
<1> QED
  BY <1>1, RecoverySpecRInv, PTL

=============================================================================
