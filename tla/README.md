# TLA+ models of ZenoFCIS

ZenoFCIS keeps a pure, certified core ("functional core") behind a small
imperative shell that commits decisions to a store and delivers their outbox.
The core's correctness is a matter of pure functions; what can go wrong at run
time is in the shell: a reply lost after a commit, a process that dies between
two statements, two connections on one file, a send that is repeated. These
modules model that part, statement by statement where it matters, and say what
a caller may rely on. Of the applications kept with the repository, the one with
hand-written stateful arithmetic is modelled too: the stability pool of zUSD.

- [1. The system](#1-the-system)
- [2. Modules](#2-modules)
- [3. Runs](#3-runs)
- [4. Proofs](#4-proofs)
- [5. Findings](#5-findings)
- [6. What is not modelled](#6-what-is-not-modelled)
- [7. Plan](#7-plan)

To check: `tlc -config MCSqliteShell.cfg MCSqliteShell`,
`tlapm SqliteProofs.tla`. `PROJECT.json` lists the runs, the source lines
each definition stands for, the hazards the properties are aimed at, and for
each property a mutation of the model that breaks it.

## 1. The system

Paths are relative to `src/crates/`; `shell/` is `zeno-fcis-shell/src/`,
`sqlite/` is `zeno-fcis-shell-sqlite/src/`.

| Component | State it keeps | Operations |
|---|---|---|
| Effect protocol (`shell/effects/port.rs`, `driver.rs`) | the outstanding request of a run | answer it; refuse a reply that is not bound to it |
| Commit program (`shell/effects/program.rs`) | continuation: phase, ordinal, retry budget, guard, first uncertainty | start, recover, resume |
| Delivery program (same file) | continuation: phase, pending list, position, blocked destinations, budget, deadline, "may have sent" | start, start per destination, resume |
| Simulated terminal (`shell/effects/simulation.rs`, `explore.rs`) | the durable store, transport queue, receiver rows, clock | every operation with every fault before or after it; restart; late reply |
| Policy monitors (`shell/effects/policy.rs`, `policy_record.rs`, `handler.rs`) | reservations of each monitor | verdict, joint reservation, forward |
| V2 SQLite store (`sqlite/v2.rs`, `v2/delivery.rs`, `v2/relay.rs`) | tables; per handle a cached head and `data_version` | open, audit, synchronize, checkpoint, read, commit, acknowledge |
| Production terminal (`sqlite/effects/production.rs`) | its connection, whether it is invalidated | commit, reopen, history, reads, acknowledge, send |
| Durable relay (`shell/effects/durable.rs`, `sqlite/effects/durable.rs`) | one checkpoint row; per process the monitors and the checkpoint it expects | open, handle a send, write a reservation, release it |
| Trusted dispatcher and worker channel (`sqlite/effects/owner.rs`, `channel.rs`) | grants, retained bytes, attempts, stop flags, next frame | open, grant, revoke, dispatch, frame |
| Durable ingress (`zeno-fcis-ingress/src/durable.rs`) | cached head and commits | execute a command (load, verify, decide or replay, commit, confirm, deliver), verified read |
| Stability pool (`core-apps/zusd-v1/src/stability.rs`) | pool totals, product and sums per epoch and scale; deposits and front ends with snapshots | deposit, withdraw, claim, register a front end, offset |
| Lineage, upgrade, migration (`sqlite/v2/*.rs`) | program identity of the store | upgrade in one transaction |
| Core, canonical values, composition, synthesis, compilers, CLI | none at run time | pure functions |

**How they interact.** A program never performs an effect. It returns a
request; the driver hands it to a handler and resumes the program with the
answer, which must carry the epoch, ordinal, port, handle and subject of that
request. The handler is a stack: policy monitors (durable in the relay) in
front of a terminal, which is the simulation or the production terminal on the
V2 store. Several processes may have the same file open. Nothing but SQLite's
write lock and the connection's `data_version` tells them of each other.
On top, the ingress runs a commit and a delivery program for each authenticated
command and keeps the audited history in memory between commands. Beside it,
the trusted dispatcher lends workers the right to have one pending intent sent:
a worker names a slot of its channel, the dispatcher checks the grant behind it
and sends through a durable relay. An application is a pure function of the
committed state and a command; the zUSD pool is one such function whose state
has to stay consistent over long sequences of commands.

**What is hard**, and what correct means there:

- *A lost answer.* After `Unknown`, or after a crash, the caller does not know
  whether it has published. It must find out by its original key, must not
  publish twice, and must never be told that nothing happened when something
  did.
- *A gap between cache and transaction.* A V2 handle synchronizes, computes
  from its cached head, and only then takes the write lock.
- *One commit, several statements.* State row, commit row and delivery rows
  must be seen together or not at all, whatever statement fails.
- *At-least-once transport.* Copies are repeated, duplicated and delayed; the
  effect must be once, in the order of each destination.
- *Reservation before invocation.* A send may be given to the transport only
  when its reservation is durable; a write that reports failure may have
  committed.
- *A cache across requests.* The ingress answers from a head and a list of
  commits it has read earlier; an uncertain commit must not leave them behind.
- *Old authority.* Handles and channels outlive the owner that issued them, and
  grant numbers start anew with the next owner.
- *Deposits nobody updates.* An offset changes a product and a sum; every
  deposit's value is computed later from its snapshot, with rounding in each
  step, over changes of scale and epoch.
- *Budgets.* Recovery is a loop between commit, reopen and history; delivery a
  loop between send, backoff and acknowledgement. One shared budget ends them.

`PROJECT.json` lists these hazards one by one, each at the line it bites.

## 2. Modules

```
Ports ------ CommitProgram --- CommitRecovery --(implements)--> PublishOnce
   |                |               |
   |                |            ShellStore
   |                +--------- SqliteRecovery
   +-------- SqliteShell -----------+    SqliteShell --(implements)--> AtomicStore
   |
   +-------- DeliveryProgram -- OutboxDelivery
                                    |
                               EffectPolicy ---- DurableRelay
                                                     |
CommitProgram, ShellStore -- DurableIngress    IntentDispatcher (INSTANCEs DurableRelay)
StabilityPool
```

The proofs about a module are in the module of that name with `Proofs` behind
it; those about `SqliteShell` and `SqliteRecovery` are in `SqliteProofs`.
`IntentDispatcherProofs` uses the theorems of `DurableRelayProofs`, and it and
`StabilityPoolProofs` those of `SumTheorems` about sums over finite sets.

| Module | Stands for |
|---|---|
| `Ports` | outcomes, commit modes, receipts, `Driver::reply`'s binding check |
| `CommitProgram` | `CommitProgram::start`, `recover`, `resume`: pure operators on continuations |
| `ShellStore` | the simulated durable state and its decision on a commit |
| `CommitRecovery` | several callers, drivers and the simulated store with its faults |
| `PublishOnce` | what a caller is promised, without store, retry or fault |
| `DeliveryProgram` | the delivery program, with and without destination isolation |
| `OutboxDelivery` | deliverers, outbox, transport, receiver, clock, policy stack |
| `EffectPolicy` | `AtMostOne` and `Allowlist`, joint admission of a send |
| `SqliteShell` | V2 handles and production terminals on one file, one action per statement |
| `AtomicStore` | what the V2 store promises: whole commits, single acknowledgements |
| `SqliteRecovery` | the commit program over `SqliteShell` |
| `DurableRelay` | the relays of one reservation row, and its compare-and-swap |
| `DurableIngress` | the serial endpoint: clients, cache, commit program, delivery run, over the production terminal by whole operations; other connections |
| `IntentDispatcher` | owner, grants, handles, worker channel and dispatch over the actions of `DurableRelay` |
| `StabilityPool` | the pool, its deposits, front ends and offsets, one action per command |

**State and code.** A program's `cont` is its saved continuation with the same
fields; the invocation, which the Rust continuation repeats, is kept once by
the caller. `late` holds answers whose reply was lost, with their binding. In
`SqliteShell`, `view` is the pair `(anchor, data_version)` a connection caches,
the latter as the one bit the code derives from it; `call[h].at` is the place
in the V2 function a terminal has reached, `work` the uncommitted tables of the
lock's holder. In `DurableRelay`, `stored` is the checkpoint the next UPDATE
expects, `monitors` and `previous` are the relay's monitors after and before
the send under way. In `DurableIngress`, `head` and `commits` are the fields of
`Durable` and `phase` is the terminal operation it waits for; one action is the
answer to that operation with everything up to the next one. The terminal
behind it is the production terminal as `SqliteRecovery` has it statement by
statement, here by whole operations: `durable` is the file, `exclusive` the
terminal's kind, `closed` its `invalidated` flag, and `behind` says that the
handle's anchor misses a commit of its own, whose COMMIT reported an error.
Every action on the cached tip has a branch in which another connection writes
first (`Interfere`): the operation is refused, an exclusive terminal closes, any
other audits before its next operation. The commit
program is the one of `CommitProgram`; the delivery run, whose outcome the
endpoint ignores, is one step that acknowledges the oldest records of each
destination up to some point, which is what `OutboxDelivery` shows of it. In
`IntentDispatcher`, `owner` and `channel` have the fields of the two structs, a
handle's `brand` is the pointer identity `Arc::ptr_eq` compares, and `call` is
the dispatch on the stack while the relay writes and the transport runs. In
`StabilityPool`, `pool.cells` holds the sums S and G of each epoch and scale;
commands that are refused change nothing and are no step.

**Abstractions.** Hashes are ideal: a chain is the sequence of what was hashed
into it, a delivery id is its chain and ordinal, `genuine` says that a
publication's subject is the computed one. The application is a bounded counter
(as in `simulation.rs`), so that a prestate can be wrong and a body can
overflow. A delivery carries a position, its destination is a function of it.
Variables marked as history (`applied`, `disturbed`, `published`, `wrote`, `carried`,
`forwards`, `lastTry`, `invoked`, `live`, `told`, `peak`, `moved`) are read by
properties only. The pool keeps the code's integer arithmetic with a smaller
fixed-point unit (`Q` is 16 or 100 in place of 10^18, `SCALE` its root as in
the code), so that rounding, scales and epochs are reached by small amounts.

**External parts** are modelled from how the code uses them. SQLite: one writer,
private uncommitted rows, rollback on error or crash, `data_version` changed by
others' commits only, a COMMIT that may take effect and still report an I/O
error. The transport of `DurableRelay`: its report that a suspended send was
not invoked is taken as true, which the code states as a premise.

## 3. Runs

| Run | Instance | States | Question |
|---|---|---|---|
| `commit_recovery` | 2 callers, 8 kinds of request, 2 retries, 1 restart each | 573,000 | Is what the store holds whole, is what callers are told true, does it implement `PublishOnce`? |
| `outbox_delivery` | 1 deliverer, 3 records, 2 destinations, a commit during the run, 1 restart | 462,000 | Exactly-once effect, order, honest outcome, backoff |
| `delivery_pair` | 2 deliverers, 2 records, no isolation; one guarded and restarted | 145,000 | The same when two deliverers race; is a guarded send forwarded once; do runs end and records take effect? |
| `durable_relay` | 3 processes, 4 deliveries, 2 guards and an allowlist | 127,000 | Is no delivery invoked twice, is the row always restorable? |
| `sqlite_shell` | 2 handles, 12 calls, 3 keys, largest sequence 2 | 100,000 | Do the tables agree, are answers true, does it implement `AtomicStore`? |
| `sqlite_recovery` | 2 terminals, one exclusive, 3 requests, 1 restart each | 710,000 | Are receipts one's own single commit; what can hide a commit? |
| `durable_ingress` | 3 clients, 2 keys, either kind of terminal, 1 retry, 2 failures, 1 write of another connection | 265,000 | Is the cache the audited history, are answers true, is every client served? |
| `intent_dispatcher` | 2 principals, 2 intents, 2 owners, 2 grant numbers, request limit 2 | 1,550,000 | Do the grant books agree, is a worker told the truth, is the transport called only under a live grant? |
| `stability_pool` | 3 owners, 4 changes, 3 offsets, 3 epochs, `Q` = 16 | 397,000 | Are claims within the pool up to rounding, does nobody gain principal, are earned gains kept? |
| `refused_replay` | 2 terminals | | violation, see [Findings](#5-findings) |
| `exclusive_reopen` | 1 exclusive terminal | | violation, see [Findings](#5-findings) |
| `pool_cover` | 1 deposit of 970, offsets of 395 and 456, `Q` = 100 | | violation, see [Findings](#5-findings) |

**What they show.**
`commit_recovery`: `StoreIsFold` (the store is the fold of its history after
every fault), `ReceiptIsOriginal`, `RefusedMeansAbsent` (a refusal at the end
of a run also speaks for the run's earlier commits), `PublishedRunIsUncertain`
(why: a run that published carries an uncertainty, and its next commit has no
guard), `LateRefused`, `RequestBudget`, and the refinement `KeepsPromise`. That
every commit run ends follows from `RequestBudget`, which bounds its requests,
and the absence of deadlock; `Served` shows it again through the ingress.
Delivery: `AckedTakesEffectOnce`, `HonestOutcome` (a run that handed anything
over never reports Refused or NotApplied), `OkMeansAllAcked`, `OutboxOrder`,
`BackoffRespected`, `ForwardedOnce`, `DeliveryEnds`, `AckedEventuallyEffects`.
`sqlite_shell`: `WriterAtHead` (cached values are never stale when written),
`TablesAgree`, `AnswersTrue`, `WholeCommits`.
`sqlite_recovery`: `RecoveredReceipt`, and `OnlyInterferenceHides`, the exact
extent of the first finding: another connection's write is the only thing that
can make a published run end Refused.
`durable_relay`: `InvokedOnce`, `AlwaysRestorable`, `MemoryIsRestored`,
`OnlyReleased`.
`durable_ingress`: `CacheIsAudited` (a cached head and its list are exactly the
store's history up to that version, and an uncertain commit of the endpoint
itself leaves no stale head), `AnswersHold` (a packet is the one commit of that
command; a command that was applied, even by a request that was answered
Unavailable, is refused later only as Conflict and only if another connection
wrote since the refusing request verified the head), `Served` (a client that
repeats its command is answered while nobody else writes, unless the handle is
closed or left behind for good; the run reaches both exceptions, and either one
dropped makes the property false).
`intent_dispatcher`: `GrantBooks`, `HonestChannel`, `InvokedUnderGrant`.
`stability_pool`: `PrincipalWithinRounding` (the sum of the claims exceeds the
pool by at most one unit in `Q` of the largest pool an offset has met, the
exact extent of the third finding), `NoPrincipalGain`, `ClaimsUntouched`.

**Bounds and why they are enough.** Every cap is a constant of its module with
the name of the code's limit (`MaxOrdinal`, `MaxSequence`, `MaxTick`,
`MaxCount`, `Retries`, `QueueRoom`) and is set so low that it is reached, so
the boundary cases happen in the runs. Two callers and two retries give a lost
reply, an interfering commit, a second loss during recovery and an exhausted
budget; one restart gives a crash on each side of every write and a recovery
that fails in its turn. Three records for two destinations give a blocked
destination with a later record behind it and another destination that goes on.
Two handles are the writer and the interferer of every gap. The proofs in
section 4 cover any number of callers, handles, records and clients. In `durable_relay` three processes allow a winner,
a loser of the compare-and-swap and a restarted reader; guards of different
capacity make one of them veto while the other would admit. `OutboxDelivery`
does not carry late replies, since its driver is the one of `CommitRecovery`.
`Restarts` and `Ticks` bound the environment, not the code. In
`durable_ingress` one retry and two failures are enough to lose a commit's reply
and fail its recovery, to spend the retry budget with the handle behind its own
commit, or to lose the process in the repeated request; one outside write falls
into every gap, the replay's among them. The three clients are a command, one on
top of it, and the first one's key with another expected version; the counter
holds two commits, so the decision's refusal is reached. A client without a
context, refused before anything is read, is in the model and the proofs but not
in the instance. In `intent_dispatcher` two owners
and two grant numbers give an old handle whose number has been granted anew, to
the other principal or for the other intent; the byte limit is the larger
intent or twice the smaller one, the dispatch limit is one. In `stability_pool` four changes and three
offsets reach the second epoch and the second scale, two deposits of different
age at an offset, a front end with a stake, and every bound of the book.

**Fairness.** `FairSpec` asks that an outstanding request be answered or its
process crash (`WF` on a caller's step): a driver calls its handler in a loop
and each operation of the handler returns. For delivery also that a queued copy
arrive (`WF` on `Receive`), since the simulated transport loses replies and
refuses copies but drops no accepted one. The ingress assumes `WF` of the
operation it waits for, since a terminal's operation returns, and `SF` of each
client that has no definite answer (`Ask`): it keeps asking and is not passed
over for ever when the endpoint is free. `Served` excepts stores another
connection has written to: the endpoint then refuses every request until it is opened anew,
which the code does on purpose (`durable.rs:120-122`). It also excepts a handle
nobody can use again, see section 6. Nothing is assumed of restarts, late
replies, other callers' commits, or of which fault occurs: runs end even if
every answer is a failure. The other modules have safety properties only.
Symmetry is used in runs without liveness. The runs check deadlock, and where
all runs end, `Finished` says so; `intent_dispatcher` and the two pool runs do
not, since they stop where the bound on owners, changes and offsets is reached.

## 4. Proofs

Machine-checked for every value of the constants, from the `ASSUME`s of the
modules only. Every safety property a passing run checks is a theorem, by itself
or as the refinement it states. Each module of proofs defines one inductive
invariant, `IInv` (`SqliteProofs` has three, one on top of the other), as a
conjunction of named parts, shows that it holds initially and that each action keeps it, in one lemma per action, and
derives the properties from it. Below, a theorem's name is followed by the
property it states where the two differ.

**`CommitRecoveryProofs`** (`InvocationsAssumption`, `RestartsAssumption`,
`ProgramAssumption`, `MaxCountAssumption`: requests are well typed, the limits
are numbers). `TypeCorrect` (`TypeOK`), `StoreFolds` (`StoreIsFold`),
`ReceiptsAreOriginal`, `RefusalsAreTrue` (`RefusedMeansAbsent`),
`PublishedRunsKnow`, `LateRepliesRefused`, `BudgetHolds` (`RequestBudget`) and
the refinement `PromiseKept` (`KeepsPromise`): the callers, their drivers and
the store with its faults implement `PublishOnce`. `RefusedMeansAbsent` is not
inductive: it needs that a caller whose request the store took is *wary*. Its
continuation remembers an uncertainty, and a commit it sends has no guard, so
that the store can only answer it with the original receipt. `RequestBudget`
needs a weight instead of a count: a retry weighs three requests, a phase what
it still has to ask. `LateRefused` needs that every lost reply is *outdated*:
of an earlier epoch, an earlier ordinal or a run that ended. The refinement uses
the same facts, action by action; restarts and late replies are stutters.

**`OutboxDeliveryProofs`** (`OutboxAssumption`: records have destinations, the
policies of each deliverer are well typed, the clock does not pass its maximum).
`DeliveryTyped` (`TypeOK`), `NoRecordLost` (`AckedTakesEffectOnce`),
`OutcomesHonest` (`HonestOutcome`), `SuccessIsComplete` (`OkMeansAllAcked`),
`SentInOrder` (`OutboxOrder`), `RetriesBackOff` (`BackoffRespected`) and
`GuardedSends` (`ForwardedOnce`). What makes `OutboxOrder` inductive is what a
run knows of its list: before a listed record every other one is listed too or
acknowledged, and what the run has passed is acknowledged or of a blocked
destination (`Listed`, `Steady`); acknowledgements are never taken back, so
another deliverer cannot invalidate it. `HonestOutcome` rests on `mayHaveSent`,
`BackoffRespected` on what each phase of a retry has already waited for, and
`ForwardedOnce` on the reservations being exactly the forwarded sends. That the
program's next record, and the first monitor with a veto, is the first of its
kind rests on the least element of a set of numbers (`Least`), which stands in
for an induction over the list.

**`SqliteProofs`, the terminals** (`ShellAssumption`: calls are well typed, `None` is no
handle, `MaxSequence` is a number).
`TypeCorrect` (`TypeOK`); that the sequence stays within its maximum
depends on the head and not on the commit's guard, so it is not a matter of
types alone.
`WritersWriteAtHead` (`WriterAtHead`). The inductive invariant is
`TypeOK` with, for each handle, `SoundCall` (the connection it works on is open,
each statement belongs to an operation of its kind, and a commit about to write
is below the largest sequence) and `AtHead` (writing exactly when holding the lock; then the cached
anchor is the committed head and not stale). `AtHead` alone is not preserved:
that a second handle cannot begin needs the lock, and that the statements of a
commit stay typed needs what `check_cached_tip` and `CommitCheck` established
before them.

**`SqliteProofs`, the tables** (nothing more). `TablesStayWhole`
(`TablesAgree`), `AnswersStayTrue` (`AnswersTrue`) and the refinement
`StoreIsAtomic` (`WholeCommits`): statements, caches, failures and crashes of
all handles together implement `AtomicStore`. To the invariant above, `TInv`
adds that the committed tables agree, that the transaction of a writing terminal
is the committed tables with exactly the statements executed so far (`Staged`),
and that an operation under way has not written yet (`Quiet`). A crash or a
failed statement drops the transaction, a COMMIT publishes the complete one: the
tables never agree by luck, half a commit is never in them.

**`SqliteProofs`, the commit program** (`RecoveryAssumption`: what callers ask
is well typed, restarts are a number). `OnlyInterferenceRefuses`
(`OnlyInterferenceHides`), `ReceiptsAreRecovered` (`RecoveredReceipt`), and
`RecoveryKeepsStore`: the properties of the store hold under the callers'
program too. A step of a terminal goes on, answers, or publishes and leaves the
answer to come (`StepShape`); `resume` is described by what it may make of each
answer, phase by phase. `RInv` puts the two together. A terminal works only for
a caller that waits, on what its program asked for, and a receipt on its way is
that of its row (`Serving`). A caller whose run published is about to be told,
with a receipt or an uncertainty, or is wary: it remembers an uncertainty and
asks for a commit only without a guard (`Recovered`). Wary is what survives the
interference of other terminals. A wary caller's commit is found by its key, in
rows that only grow, whatever version the store has reached; what can still
refuse it is `check_cached_tip`, which looks at the head first, or an exclusive
store that somebody else has changed.

**`DurableRelayProofs`** (`RelayAssumption`: some guard among the policies,
every delivery has a destination).
`SendsOnce` (`InvokedOnce`), `CheckpointsRestore` (`AlwaysRestorable`),
`MemoryMatchesRow` (`MemoryIsRestored`), `TypeCorrect` (`TypeOK`) and
`ReservationsKept` (`OnlyReleased`). The inductive invariant adds to the types:
the row is restorable; each relay knows what it stored (its monitors are what
its expected checkpoint restores to, or one reservation ahead of it); an
invoked delivery is held by the row; a relay that may still invoke the transport
or is writing a release claims its delivery, which the row holds and which was
not invoked, and no two relays claim the same one. The last part is what makes `InvokedOnce`
inductive: a claim is won by the compare-and-swap, so a relay that lost the row
to another can still invoke its own delivery but nobody else can be at it.

**`IntentDispatcherProofs`** (`DispatcherAssumption`, `LifetimeAssumption`: the
limits are numbers, intents have bytes and destinations, `None` is neither an
intent nor a principal, some policy is a guard).
`SendsUnderGrant` (`InvokedUnderGrant`), `WorkersToldTheTruth`
(`HonestChannel`) and `BooksAgree` (`GrantBooks`: the grants are the live
handles, no number is given twice, the retained bytes are those of the grants,
the limits hold); `DispatcherIsRelay`: every behaviour of the dispatcher is one
of `DurableRelay` with one relay, so that `IntentsSentOnce` follows from the
relay's `SendsOnce`. The invariant says of a send under way that its handle is
live and the caller's and that the channel is stopped meanwhile, and of handles
that a number belongs to one handle of an incarnation, revoked ones included:
without that a revoked handle could be honoured after its number is granted
anew. That `revoke`, which takes out whatever matches the handle, gives back the
bytes of exactly one grant needs the same uniqueness.

**`DurableIngressProofs`** (`IngressAssumption`: commands are well typed,
`NoClient` is no client; `OrdinalAssumption`: three requests for each retry are
within the ordinals, of which the code has 2^64 for two retries).
`CacheStaysAudited` (`CacheIsAudited`) and `AnswersAreTrue` (the action property
`AnswersHold`). The invariant has four parts that neither property mentions. A
commit is sent without a guard only when the history has it, and so is any
commit of a client whose command was applied (`Running`). A command that was
applied is in the store, at the version after the one its client expected
(`AppliedSettled`), so a later request finds it as an original and never refuses
it. While the endpoint runs a new commit, its cached head is the version the
client expected, which is what lets `Confirm` add one entry and have the whole
history. And a run that asks for a commit or a history has a handle that is
neither closed nor behind, unless another connection has written since the head
was verified (`Serving`): the program asks for them only after a read, a reopen
or an answer that left the handle in order. Hence only such a write can refuse
the replay of an applied command. Without `OrdinalAssumption` the replay of a command that an earlier
request has applied could run out of ordinals and be refused (`AskPhase`).

**`SumTheorems`** (nothing). A sum over a finite set is a fold that takes the
elements in an order nobody knows. `SumOfParts` shows that the order does not
matter: any element adds its value to the sum of the others. `SumsCompare`,
`SumWithout` and `PartsWithinSum` are what the books of the pool and of the
dispatcher need. The induction over subsets is carried out here, by the least
size at which a set could fail, since the library's takes an operator.

**`StabilityPoolProofs`** (`PoolAssumption`: `Q` is the square of `SCALE`, as
10^18 is of 10^9 in the code; amounts and debts are positive numbers, the other
inputs numbers). `PrincipalNeverGained` (`NoPrincipalGain`), `OthersUntouched`
(the action property `ClaimsUntouched`) and `PrincipalCovered`
(`PrincipalWithinRounding`). Each is about quantities that no command stores:
what a deposit is worth is computed from its snapshot through every offset since.

- *Gain.* `CompoundedFalls` shows that an offset never raises what a snapshot is
  worth: the product falls, a change of scale divides by what it multiplies, and
  a new epoch ends the deposit. `change` pays at most the compounded value and
  restarts the rest at the current snapshot, where it is worth itself.
- *Untouched claims.* The sums of epochs and scales grow cell by cell
  (`CellsGrow`), and a snapshot keeps pointing at the cell it was taken of, so a
  gain, which reads two neighbouring cells, never falls.
- *Cover.* The rounded claims are not inductive: the next rounding could undo
  any bound on them. The invariant is about exact shares, numerators over one
  denominator (`Backing`): each is at least what the product leaves of its
  deposit, and together they exceed the pool by at most what the largest pool so
  far is above `errLoss`, in units of `Q` (`Backed`). An offset takes the loss
  rounded up, less what it took too much before, and `OffsetArithmetic` shows
  that this is kept; `errLoss` stays below the largest pool, and a rounded claim
  is at most its share. The stakes of the front ends are treated as a second
  book of the same pool, with the deposits that name no front end (`Stakes`).

**Model-checked only**, and why.
- *Liveness* (`DeliveryEnds`, `AckedEventuallyEffects`, `Served`): fairness and
  `ENABLED` are outside the prover's reach.
- *The findings*: what their runs refute is, of course, not proved.

## 5. Findings

1. **A published run may end Refused** (run `refused_replay`, property
   `RefusedMeansUnchanged`; `shell/effects/program.rs:184`). A commit applies
   and its reply is lost. Reopen and history find the key, and the replay is
   sent without a guard. If another connection writes between the replay's
   `synchronize()` and its BEGIN, `check_cached_tip` (`sqlite/v2.rs:2316`)
   answers `Concurrent` before the key is looked up, and the program ends the
   run Refused. `port.rs:284` says of Refused that there is "no durable change",
   and `docs/SHELL_EFFECTS.md:16-17` that V2 answers the retry with the original
   receipt. The simulated store never answers `Concurrent` to an unversioned
   replay, so the repository's exploration does not reach it (nor does
   `commit_recovery`, which models that store). The ingress passes it on:
   `zeno-fcis-ingress/src/durable.rs:277` answers the client Conflict for a
   command it has applied. `AnswersHold` states that exactly this write, and
   nothing else, can do so; the next repetition reads the history anew, unless
   the terminal is exclusive and thereby closed.
2. **An exclusive terminal invalidates itself by reopening** (run
   `exclusive_reopen`, property `AloneIsNotInvalidated`;
   `sqlite/effects/production.rs:469`). The audit of the new connection saves a
   checkpoint; for the old one, kept as a monitor of outside changes, that is an
   outside change. `docs/BUILD_AN_APP.md:496-497` says that commit uncertainty
   "retains the bounded reopen and full-audit recovery path".
3. **Claims on the stability pool may exceed it** (run `pool_cover`, property
   `AlwaysCovered`; `core-apps/zusd-v1/src/stability.rs:284`). An offset rounds
   the loss per unit up and hands the excess, `error_loss`, to the next offset,
   which takes that much less from the whole pool. By then the excess itself has
   shrunk with the pool, so more is given back than was taken, and the
   compounded deposits can exceed `total`. `offset` does not look at the book;
   `validate_book` then refuses every deposit, withdrawal and claim with
   `Conservation`. In the assembled application
   (`application/transition.rs:326`) the liquidation itself is refused. With the
   real constants one deposit of 2001 zUSD and offsets of 557 and 561 zUSD leave
   80 atoms too much. `NO_FREE_VALUE.md:22-25` counts compounded principal by
   "current individual floors", and `tests/adversarial.rs:435-438` unwraps the
   liabilities after a liquidation. `PrincipalWithinRounding` bounds the excess.

## 6. What is not modelled

The repository has some 590,000 lines of implementation. Most of it is not a
system with steps: generated contracts of the core applications, a
specification compiler, evaluators and synthesis, proofs for other provers,
retained copies of earlier crates that serve as oracles, and the command line.
A TLA+ model of those would be a second compiler or a copy of generated text;
the share of the lines these modules stand for is therefore small, and is the
part in which processes, files, failures and long sequences of commands meet.

- *Pure parts* (canonical encodings, hashing, cryptography, the decision core,
  composition, laws, synthesis, compilers): no state of their own.
- *Transcripts, replay, law checks*: functions of one recorded run.
- *V1 SQLite and in-memory shells*: superseded by V2.
- *Collections*: an index rebuilt from the committed state.
- *Lineage, upgrade, migration*: planned, see below.
- *Core applications* other than the pool: one deterministic step per command;
  the rest of zUSD (vaults, liquidation, redemption, staking) is planned.
- *Command line and its stores* (knowledge store, loop commands, sessions),
  adapters, templates: file handling around the crates above.
- *Within modelled components*: the exploration's own search and minimisation,
  the content of V2 checkpoints and opening at one, the production terminal's
  send, the relay's transcript, checksums and sizes, HTTP and credentials of the
  ingress and its two reporting reads, the native worker's process supervision
  and the dispatcher's configuration namespace, wallets, prices and integer
  widths of the pool.

Two limits of the ingress are in the model and excepted from `Served`. Over an
exclusive terminal the second finding applies: its first Reopen invalidates it
(`closed`), and the endpoint stays unavailable until it is opened anew. Over any
other, a COMMIT that took effect behind an error leaves the handle's anchor
behind; the run's recovery reopens it, but when the retry budget is spent before
it can, no later request reopens, and the tip is refused as Concurrent until
another connection writes or the process is started anew (`behind`).

The clock epochs that a delivery run compares are left out: one epoch is all
there is. The environment of `OutboxDelivery` wakes a wait at its deadline or
later, or interrupts it, and draws within the range it is asked for, as the
repository's terminals do; the program's refusal of an early wake or of a draw
out of range is not exercised.

`PROJECT.json` gives the status of every component.

## 7. Plan

In order of what a caller depends on:

1. *Done.* `CommitProgram`, `CommitRecovery`, `PublishOnce`; `DeliveryProgram`,
   `OutboxDelivery`, `EffectPolicy`; `SqliteShell`, `AtomicStore`,
   `SqliteRecovery`; `DurableRelay`; `DurableIngress`, `IntentDispatcher`,
   `StabilityPool`. Proofs of their safety properties and of the refinements.
2. `SqliteShell`: opening at a retained checkpoint, the memory destination, the
   upgrade transaction and its refusal of handles of the old program.
3. zUSD: redistribution sums of the vaults and their composition with the pool
   in a liquidation.
