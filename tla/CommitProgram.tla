--------------------------- MODULE CommitProgram ---------------------------
(***************************************************************************)
(* The commit program of zeno-fcis-shell, effects/program.rs: commit one   *)
(* publication and, when the answer is lost, recover by its original key.  *)
(*                                                                         *)
(* The program is a pure step function.  `start' and `recover' give the    *)
(* first request, `resume' maps the saved continuation and one answer to   *)
(* the next request or to the run's outcome.  All operators here are pure; *)
(* who answers the requests is the business of the modules that use them   *)
(* (CommitRecovery: the simulated store; SqliteRecovery: the V2 shell).    *)
(***************************************************************************)
EXTENDS Ports, Sequences

CONSTANTS
    Retries,      \* CommitPolicy.retries, shared by every phase
    MaxOrdinal    \* largest request ordinal of an epoch (u64::MAX)

ASSUME ProgramAssumption == Retries \in Nat /\ MaxOrdinal \in Nat

\* The `None' of the saved `unknown' fault.
NoFault == "none"

Phases == {"Commit", "Reopen", "History"}

(***************************************************************************)
(* The saved values.  The original invocation is not repeated in it: the   *)
(* caller retains it and `resume' receives it.                             *)
(***************************************************************************)
Continuations ==
    [phase: Phases, ordinal: 0 .. MaxOrdinal, retries: 0 .. Retries,
     mode: Modes, unknown: Faults \cup {NoFault}]

\* CommitProgram::start: the original commit, with its original guard.
Start(invocation) ==
    [phase |-> "Commit", ordinal |-> 0, retries |-> Retries,
     mode |-> invocation.mode, unknown |-> NoFault]

\* Mutant: a restarted run repeats the original request at once.
RecoverBlind(invocation) == Start(invocation)

\* CommitProgram::recover: a run that ended without an answer is uncertain
\* from its first step, so it reopens and reads the history before a retry.
Recover(invocation) ==
    [phase |-> "Reopen", ordinal |-> 0, retries |-> Retries,
     mode |-> invocation.mode, unknown |-> "Io"]

\* Mutant: a retry costs nothing.
SpendNothing(c) == c

Spend(c) == [c EXCEPT !.retries = @ - 1]

\* The first uncertainty is what the run reports.
Unresolved(c, fault) ==
    Done(Unknown(IF c.unknown = NoFault THEN fault ELSE c.unknown))

AskPhase(c, phase) ==
    IF c.ordinal = MaxOrdinal
    THEN Done(IF c.unknown = NoFault THEN Refused("Range") ELSE Unknown(c.unknown))
    ELSE Request([c EXCEPT !.phase = phase, !.ordinal = @ + 1])

AskCommit(c, mode) == AskPhase([c EXCEPT !.mode = mode], "Commit")

\* Mutant: the budget is not compared with zero before it is spent.
RetryUnchecked(c, phase, fault) == AskPhase(Spend(c), phase)

RetryPhase(c, phase, fault) ==
    IF c.retries = 0 THEN Unresolved(c, fault) ELSE AskPhase(Spend(c), phase)

\* The exact original key and publication are in the audited history.
Contains(commits, invocation) ==
    \E i \in 1 .. Len(commits) :
        /\ commits[i].key = invocation.key
        /\ commits[i].publication = invocation.publication

\* Mutant: a failure that applied nothing hides an earlier uncertainty.
CommittedForgetful(c, o) ==
    CASE o.tag \in {"Ok", "Refused"} -> Done(o)
      [] o.tag = "NotApplied" ->
            IF c.retries > 0 THEN AskCommit(Spend(c), c.mode) ELSE Done(o)
      [] o.tag = "Unknown" ->
            IF c.retries = 0 THEN Unresolved(c, o.fault)
            ELSE AskPhase([Spend(c) EXCEPT !.unknown = o.fault], "Reopen")

Committed(c, o) ==
    CASE o.tag \in {"Ok", "Refused"} -> Done(o)
      [] o.tag = "NotApplied" ->
            IF c.retries > 0 THEN AskCommit(Spend(c), c.mode)
            ELSE Done(IF c.unknown = NoFault THEN o ELSE Unknown(c.unknown))
      [] o.tag = "Unknown" ->
            IF c.retries = 0 THEN Unresolved(c, o.fault)
            ELSE AskPhase([Spend(c) EXCEPT
                             !.unknown = IF @ = NoFault THEN o.fault ELSE @],
                          "Reopen")

Reopened(c, o) ==
    CASE o.tag = "Ok" -> AskPhase(c, "History")
      [] o.tag = "Refused" -> Unresolved(c, "Io")
      [] o.tag \in {"NotApplied", "Unknown"} -> RetryPhase(c, "Reopen", o.fault)

\* Mutant: the retry keeps the guard its own commit has outdated.
HistoryReadGuarded(c, invocation, o) ==
    CASE o.tag = "Ok" -> AskCommit(c, invocation.mode)
      [] o.tag = "Refused" -> Unresolved(c, "Io")
      [] o.tag \in {"NotApplied", "Unknown"} -> RetryPhase(c, "History", o.fault)

\* Only a history that holds the original key with the original publication
\* lets the retry drop the expected-version guard.
HistoryRead(c, invocation, o) ==
    CASE o.tag = "Ok" ->
            AskCommit(c, IF Contains(o.value, invocation)
                         THEN Unversioned ELSE invocation.mode)
      [] o.tag = "Refused" -> Unresolved(c, "Io")
      [] o.tag \in {"NotApplied", "Unknown"} -> RetryPhase(c, "History", o.fault)

\* Program::resume.
Resume(c, invocation, o) ==
    CASE c.phase = "Commit" -> Committed(c, o)
      [] c.phase = "Reopen" -> Reopened(c, o)
      [] c.phase = "History" -> HistoryRead(c, invocation, o)
=============================================================================
