--------------------------- MODULE SqliteRecovery ---------------------------
(***************************************************************************)
(* The commit program over the production terminal: CommitProgram composed *)
(* with SqliteShell.  Each terminal serves one caller, whose program asks  *)
(* it for the commit, the reopen and the audited history; the other        *)
(* terminals on the same file work at the same time.                       *)
(***************************************************************************)
EXTENDS SqliteShell, CommitProgram

CONSTANTS
    Invocations,   \* the requests a caller may retain
    Restarts       \* how often a crashed process is restarted

ASSUME RecoveryAssumption ==
    /\ Invocations \subseteq [key: Keys, publication: Publications, mode: Modes]
    /\ Restarts \in Nat

VARIABLES
    invocation,    \* the request each caller retains
    cont,          \* its program's continuation
    status,        \* "waiting", "done" or "crashed"
    outcome,       \* the outcome of each run that is done
    incarnation,   \* restarts so far
    published      \* history variable: callers whose run committed

program == <<invocation, cont, status, outcome, incarnation>>
allVars == <<vars, program, published>>

RecoveryInit ==
    /\ Init
    /\ invocation \in [Handles -> Invocations]
    /\ cont = [h \in Handles |-> Start(invocation[h])]
    /\ status = [h \in Handles |-> "waiting"]
    /\ outcome = [h \in Handles |-> NoOutcome]
    /\ incarnation = [h \in Handles |-> 0]
    /\ published = {}

Waits(h) == status[h] = "waiting" /\ call[h] = Idle /\ answer[h] = NoOutcome

\* Operation::Commit with the program's guard, or Operation::Reopen.
Asked(h) ==
    IF cont[h].phase = "Commit"
    THEN [kind |-> "Commit", key |-> invocation[h].key,
          publication |-> invocation[h].publication, mode |-> cont[h].mode]
    ELSE [kind |-> "Reopen"]

AskStep(h) ==
    /\ Waits(h)
    /\ cont[h].phase \in {"Commit", "Reopen"}
    /\ Begin(h, Asked(h))
    /\ UNCHANGED <<program, published>>

\* The terminal and its store at work.
StoreStep(h) ==
    /\ Step(h)
    /\ published' = IF db' = db THEN published ELSE published \cup {h}
    /\ UNCHANGED program

Resumed(h, o) ==
    LET step == Resume(cont[h], invocation[h], o)
    IN  IF step.tag = "Request"
        THEN cont' = [cont EXCEPT ![h] = step.cont] /\ UNCHANGED <<status, outcome>>
        ELSE /\ status' = [status EXCEPT ![h] = "done"]
             /\ outcome' = [outcome EXCEPT ![h] = step.outcome]
             /\ UNCHANGED cont

\* The program takes the terminal's answer, or dies with its process.
TakeStep(h) ==
    /\ status[h] = "waiting" /\ answer[h] # NoOutcome
    /\ answer' = [answer EXCEPT ![h] = NoOutcome]
    /\ IF answer[h] = Crashed
       THEN status' = [status EXCEPT ![h] = "crashed"] /\ UNCHANGED <<cont, outcome>>
       ELSE Resumed(h, answer[h])
    /\ UNCHANGED <<db, lock, work, view, call, invalidated, wrote>>
    /\ UNCHANGED <<invocation, incarnation, published>>

\* Production::history: a read-only audit on a connection of its own.
HistoryStep(h) ==
    /\ Waits(h)
    /\ cont[h].phase = "History"
    /\ invalidated' = [invalidated EXCEPT ![h] = @ \/ Changed(h)]
    /\ IF invalidated[h] \/ Changed(h) THEN Resumed(h, Refused("History"))
       ELSE Resumed(h, Ok(db.commits)) \/ \E fault \in Faults : Resumed(h, NotApplied(fault))
    /\ UNCHANGED <<db, lock, work, view, call, answer, wrote>>
    /\ UNCHANGED <<invocation, incarnation, published>>

RestartStep(h) ==
    /\ status[h] = "crashed"
    /\ incarnation[h] < Restarts
    /\ incarnation' = [incarnation EXCEPT ![h] = @ + 1]
    /\ cont' = [cont EXCEPT ![h] = Recover(invocation[h])]
    /\ status' = [status EXCEPT ![h] = "waiting"]
    /\ UNCHANGED <<vars, invocation, outcome, published>>

Over(h) == status[h] = "done" \/ (status[h] = "crashed" /\ incarnation[h] = Restarts)

Finished == (\A h \in Handles : Over(h)) /\ UNCHANGED allVars

RecoveryNext ==
    \/ \E h \in Handles :
         AskStep(h) \/ StoreStep(h) \/ TakeStep(h) \/ HistoryStep(h) \/ RestartStep(h)
    \/ Finished

RecoverySpec == RecoveryInit /\ [][RecoveryNext]_allVars
-----------------------------------------------------------------------------
(* Properties. *)

\* "Refused" and "NotApplied" of a whole run mean that the run left no durable
\* change, as the outcome's documentation says.
RefusedMeansUnchanged ==
    \A h \in Handles : outcome[h].tag \in {"Refused", "NotApplied"} => h \notin published

\* A run that published learns its receipt, or that it does not know, or is
\* refused by interference: another connection wrote between synchronize and
\* BEGIN of its replay.  No other refusal, and never NotApplied, hides a commit.
OnlyInterferenceHides ==
    \A h \in published :
        /\ outcome[h].tag # "NotApplied"
        /\ outcome[h].tag = "Refused" =>
             /\ outcome[h].code \in {"Concurrent", "History"}
             /\ cont[h].unknown # NoFault /\ cont[h].mode = Unversioned

\* A receipt is the caller's own commit in the tables, at most one of which
\* any caller's retries, crashes and recoveries ever produce.
RecoveredReceipt ==
    \A h \in Handles : outcome[h].tag = "Ok" =>
        LET v == outcome[h].value.version
        IN  /\ v \in 1 .. Len(db.commits)
            /\ db.commits[v].key = invocation[h].key
            /\ db.commits[v].publication = invocation[h].publication
            /\ db.commits[v].chain = outcome[h].value.chain
            /\ Rows(db, invocation[h].key) = {v}

\* An exclusive terminal that is alone on its store is never invalidated: a
\* lost commit reply is recovered by reopen and audit.
AloneIsNotInvalidated ==
    Handles = Exclusive => \A h \in Handles : ~invalidated[h]
=============================================================================
