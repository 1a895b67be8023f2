--------------------------- MODULE StabilityPool ----------------------------
(***************************************************************************)
(* The stability pool of the zUSD core application, zusd-v1 stability.rs:  *)
(* deposits that absorb liquidated debt and gain its collateral, a funded  *)
(* token reward, and front ends that share it.                             *)
(*                                                                         *)
(* A deposit is never updated by an offset.  It keeps a snapshot of the    *)
(* product P and the sums S and G, and its principal and gains are         *)
(* computed from what they have become; P moves to a finer scale when it   *)
(* gets small and to a new epoch when the pool is used up.                 *)
(*                                                                         *)
(* A command is one step; a refused one changes nothing and is not a step. *)
(* Wallets, prices and the vault inventory of the withdrawal guard only    *)
(* refuse, and are left out.  Offset debts and collateral are what         *)
(* liquidation.rs hands to the pool.  Sums fit their widths: the bounds of *)
(* the model are far below them.                                           *)
(***************************************************************************)
EXTENDS Integers, Sequences, FiniteSets, Functions

CONSTANTS
    Q, SCALE,       \* fixed-point unit and scale step
    Owners,         \* depositors and front ends
    NoTag,          \* a deposit without a front end
    Amounts,        \* amounts deposited
    Parts,          \* amounts asked for in a withdrawal
    Debts,          \* debts of liquidated vaults
    Collaterals,    \* collateral that comes with an offset
    Drips,          \* token issuance of a command
    Kickbacks,      \* shares front ends leave to their depositors
    FundedCap,      \* tokens funded in all
    MaxHistory,     \* Bounds.history
    MaxEpochs,      \* Bounds.epochs
    MaxDeposits,    \* Bounds.deposits
    MaxFronts,      \* Bounds.front_ends
    MaxOffsets,     \* offsets and changes of a behaviour
    MaxChanges

ASSUME PoolAssumption ==
    /\ SCALE \in Nat \ {0, 1} /\ Q = SCALE * SCALE
    /\ NoTag \notin Owners
    /\ Amounts \cup Debts \subseteq Nat \ {0}
    /\ Parts \cup Collaterals \cup Drips \subseteq Nat
    /\ Kickbacks \subseteq 0 .. Q
    /\ {FundedCap, MaxHistory, MaxEpochs, MaxDeposits, MaxFronts, MaxOffsets, MaxChanges} \subseteq Nat

VARIABLES
    pool,       \* State: totals, P, errors, stock, and S and G of each epoch and scale
    deposits,   \* the deposits, by owner
    fronts,     \* the front ends, by owner
    offsets,    \* offsets so far
    changes,    \* changes so far
    peak,       \* history: the largest total an offset has met
    moved       \* history: principal each owner has paid in, less what it got back

book == <<pool, deposits, fronts>>
vars == <<book, offsets, changes, peak, moved>>

NoSums == [s |-> 0, g |-> 0]

Init ==
    /\ pool = [total |-> 0, p |-> Q, epoch |-> 0, scale |-> 0, errS |-> 0, errLoss |-> 0,
               errG |-> 0, collateral |-> 0, remaining |-> FundedCap, allocated |-> 0,
               missed |-> 0, paid |-> 0, cells |-> << <<NoSums>> >>]
    /\ deposits = << >> /\ fronts = << >>
    /\ offsets = 0 /\ changes = 0
    /\ peak = 0 /\ moved = [o \in Owners |-> 0]

-----------------------------------------------------------------------------
(* Snapshots, principal and gains. *)

\* A scale nobody has reached has no sums yet.
Cell(s, epoch, scale) ==
    IF scale < Len(s.cells[epoch + 1]) THEN s.cells[epoch + 1][scale + 1] ELSE NoSums

Current(s) ==
    LET now == Cell(s, s.epoch, s.scale)
    IN  [p |-> s.p, s |-> now.s, g |-> now.g, epoch |-> s.epoch, scale |-> s.scale]

\* Mutant: a change of scale is not undone.
CompoundedUnscaled(s, initial, snap) ==
    IF snap.epoch < s.epoch \/ s.scale - snap.scale >= 2 THEN 0
    ELSE LET result == (initial * s.p) \div snap.p
         IN  IF result < initial \div SCALE THEN 0 ELSE result

\* What offsets have left of a deposit.
Compounded(s, initial, snap) ==
    IF snap.epoch < s.epoch \/ s.scale - snap.scale >= 2 THEN 0
    ELSE LET unit == IF s.scale = snap.scale THEN snap.p ELSE snap.p * SCALE
             result == (initial * s.p) \div unit
         IN  IF result < initial \div SCALE THEN 0 ELSE result

\* A gain from its sum at the snapshot's scale and at the next one.
Gain(initial, snap, before, first, second) ==
    ((first - before + second \div SCALE) * initial) \div (snap.p * Q)

CollateralGain(s, initial, snap) ==
    Gain(initial, snap, snap.s, Cell(s, snap.epoch, snap.scale).s,
         Cell(s, snap.epoch, snap.scale + 1).s)

TokenGain(s, initial, snap) ==
    Gain(initial, snap, snap.g, Cell(s, snap.epoch, snap.scale).g,
         Cell(s, snap.epoch, snap.scale + 1).g)

Kickback(fs, tag) == IF tag = NoTag THEN Q ELSE fs[tag].kickback

-----------------------------------------------------------------------------
(* validate_book. *)

Sum(f) == FoldFunction(+, 0, f)

PrincipalOf(s, ds) ==
    Sum([o \in DOMAIN ds |-> Compounded(s, ds[o].initial, ds[o].snapshot)])

StakeOf(s, fs) ==
    Sum([o \in DOMAIN fs |-> Compounded(s, fs[o].initial, fs[o].snapshot)])

CollateralOf(s, ds) ==
    Sum([o \in DOMAIN ds |-> CollateralGain(s, ds[o].initial, ds[o].snapshot)])

TokensOf(s, ds, fs) ==
    Sum([o \in DOMAIN ds |-> (TokenGain(s, ds[o].initial, ds[o].snapshot)
                                * Kickback(fs, ds[o].tag)) \div Q])
      + Sum([o \in DOMAIN fs |-> (TokenGain(s, fs[o].initial, fs[o].snapshot)
                                    * (Q - fs[o].kickback)) \div Q])

\* The claims on the pool are covered; otherwise Failure::Conservation.
Covers(s, ds, fs) ==
    /\ PrincipalOf(s, ds) <= s.total
    /\ StakeOf(s, fs) <= s.total
    /\ CollateralOf(s, ds) <= s.collateral
    /\ TokensOf(s, ds, fs) <= s.allocated - s.paid

-----------------------------------------------------------------------------
(* Issuance and offset. *)

\* accumulator: what each unit of the pool gets, and what is left over.
Each(amount, error, total) == (amount * Q + error) \div total
Left(amount, error, total) == (amount * Q + error) % total

\* Tokens for an empty pool are missed.
Issue(s, amount) ==
    IF amount = 0 THEN s
    ELSE IF s.total = 0 THEN [s EXCEPT !.remaining = @ - amount, !.missed = @ + amount]
    ELSE [s EXCEPT !.remaining = @ - amount,
                   !.allocated = @ + amount,
                   !.errG = Left(amount, @, s.total),
                   !.cells[s.epoch + 1][s.scale + 1].g = @ + Each(amount, s.errG, s.total) * s.p]

\* Rounded up, less what earlier offsets took too much.
Loss(s, debt) == IF debt = s.total THEN Q ELSE (debt * Q - s.errLoss) \div s.total + 1

\* Mutant: an overcharge that was given back is kept for the next time too.
LossErrorKept(s, debt) ==
    IF debt = s.total THEN 0
    ELSE s.errLoss + Loss(s, debt) * s.total - (debt * Q - s.errLoss)

LossError(s, debt) ==
    IF debt = s.total THEN 0 ELSE Loss(s, debt) * s.total - (debt * Q - s.errLoss)

\* Mutant: the new epoch takes over the cell of the old one.
NextEpochInPlace(s) ==
    [s EXCEPT !.epoch = @ + 1, !.scale = 0, !.p = Q,
              !.cells = [Append(@, <<NoSums>>) EXCEPT ![s.epoch + 1] = <<NoSums>>]]

NextEpoch(s) ==
    [s EXCEPT !.epoch = @ + 1, !.scale = 0, !.p = Q, !.cells = Append(@, <<NoSums>>)]

NextScale(s, factor) ==
    [s EXCEPT !.scale = @ + 1, !.p = (@ * factor * SCALE) \div Q,
              !.cells[s.epoch + 1] = Append(@, NoSums)]

\* P times the factor, in a new epoch or scale if it gets too small.
Shrink(s, factor) ==
    IF factor = 0 THEN NextEpoch(s)
    ELSE IF (s.p * factor) \div Q < SCALE THEN NextScale(s, factor)
    ELSE [s EXCEPT !.p = (@ * factor) \div Q]

Cells(s) == Sum([e \in 1 .. Len(s.cells) |-> Len(s.cells[e])])

\* The collateral is shared out at the P from before the loss.
Absorb(s, debt, collateral) ==
    LET gained == [s EXCEPT
                     !.errS = Left(collateral, @, s.total),
                     !.cells[s.epoch + 1][s.scale + 1].s =
                         @ + Each(collateral, s.errS, s.total) * s.p,
                     !.errLoss = LossError(s, debt)]
        shrunk == Shrink(gained, Q - Loss(s, debt))
    IN  [shrunk EXCEPT !.total = @ - debt, !.collateral = @ + collateral]

\* offset_inner; a debt the pool cannot take in full takes all of it.
Offset(debt, collateral, amount) ==
    LET s == Issue(pool, amount)
        after == Absorb(s, debt, collateral)
    IN  /\ offsets < MaxOffsets
        /\ pool.total > 0 /\ debt <= pool.total
        /\ amount <= pool.remaining
        /\ debt = pool.total \/ debt * Q >= pool.errLoss
        /\ Loss(s, debt) <= Q
        /\ Len(after.cells) <= MaxEpochs /\ Cells(after) <= MaxHistory
        /\ after.p > 0
        /\ pool' = after
        /\ offsets' = offsets + 1
        /\ peak' = IF pool.total > peak THEN pool.total ELSE peak
        /\ UNCHANGED <<deposits, fronts, changes, moved>>

-----------------------------------------------------------------------------
(* change. *)

Put(f, o, value) == [x \in DOMAIN f \cup {o} |-> IF x = o THEN value ELSE f[x]]
Without(f, o) == [x \in DOMAIN f \ {o} |-> f[x]]

\* The deposit is paid out its gains, changed by what comes in and goes out,
\* and starts again at a current snapshot; so does its front end.
Change(actor, input, wanted, tag, amount) ==
    LET s == Issue(pool, amount)
        held == actor \in DOMAIN deposits
        old == deposits[actor]
        tagged == IF held THEN old.tag ELSE tag
        share == Kickback(fronts, tagged)
        principal == IF held THEN Compounded(s, old.initial, old.snapshot) ELSE 0
        gain == IF held THEN CollateralGain(s, old.initial, old.snapshot) ELSE 0
        tokens == IF held THEN (TokenGain(s, old.initial, old.snapshot) * share) \div Q ELSE 0
        output == IF wanted < principal THEN wanted ELSE principal
        front == fronts[tagged]
        stake == IF tagged = NoTag THEN 0 ELSE Compounded(s, front.initial, front.snapshot)
        fee == IF tagged = NoTag THEN 0
               ELSE (TokenGain(s, front.initial, front.snapshot) * (Q - share)) \div Q
        rest == principal + input - output
        after == [s EXCEPT !.total = @ + input - output,
                           !.collateral = @ - gain,
                           !.paid = @ + tokens + fee]
        others == Without(deposits, actor)
    IN  /\ changes < MaxChanges
        /\ amount <= pool.remaining
        /\ Covers(pool, deposits, fronts)
        /\ gain <= pool.collateral
        /\ tagged # NoTag => stake + input >= output
        /\ rest > 0 => Cardinality(DOMAIN others) < MaxDeposits
        /\ pool' = after
        /\ fronts' = IF tagged = NoTag THEN fronts
                     ELSE Put(fronts, tagged, [front EXCEPT !.initial = stake + input - output,
                                                            !.snapshot = Current(after)])
        /\ deposits' = IF rest = 0 THEN others
                       ELSE Put(others, actor, [initial |-> rest, tag |-> tagged,
                                                snapshot |-> Current(after)])
        /\ Covers(pool', deposits', fronts')
        /\ moved' = [moved EXCEPT ![actor] = @ + input - output]
        /\ changes' = changes + 1
        /\ UNCHANGED <<offsets, peak>>

Deposit(actor, input, tag, amount) ==
    /\ actor \notin DOMAIN fronts
    /\ tag \in DOMAIN fronts \cup {NoTag}
    /\ Change(actor, input, 0, tag, amount)

Withdraw(actor, wanted, amount) ==
    /\ actor \in DOMAIN deposits
    /\ Change(actor, 0, wanted, NoTag, amount)

\* Claim pays the gains out; MoveGainToVault pays them into a vault, when
\* there are any.  The pool sees no difference.
Claim(actor, amount) == Withdraw(actor, 0, amount)

RegisterFrontEnd(actor, kickback) ==
    /\ changes < MaxChanges
    /\ Covers(pool, deposits, fronts)
    /\ actor \notin DOMAIN fronts \cup DOMAIN deposits
    /\ Cardinality(DOMAIN fronts) < MaxFronts
    /\ fronts' = Put(fronts, actor, [kickback |-> kickback, initial |-> 0,
                                     snapshot |-> Current(pool)])
    /\ changes' = changes + 1
    /\ UNCHANGED <<pool, deposits, offsets, peak, moved>>

-----------------------------------------------------------------------------
\* Debts the pool may be asked to take: a vault's, or all it can.
Takes == {debt \in Debts : debt <= pool.total} \cup {pool.total}

Next ==
    \/ \E o \in Owners, amount \in Drips :
         \/ \E input \in Amounts, tag \in Owners \cup {NoTag} : Deposit(o, input, tag, amount)
         \/ \E wanted \in Parts : Withdraw(o, wanted, amount)
         \/ Claim(o, amount)
    \/ \E o \in Owners, kickback \in Kickbacks : RegisterFrontEnd(o, kickback)
    \/ \E debt \in Takes, collateral \in Collaterals, amount \in Drips :
         Offset(debt, collateral, amount)

Spec == Init /\ [][Next]_vars
-----------------------------------------------------------------------------
(* Properties. *)

\* However offsets round, and over changes of scale and epoch, what the
\* depositors may claim of the principal exceeds the pool by no more than one
\* unit in Q of the largest pool an offset has met; the same of the stakes of
\* the front ends.
PrincipalWithinRounding ==
    /\ PrincipalOf(pool, deposits) * Q <= pool.total * Q + peak
    /\ StakeOf(pool, fronts) * Q <= pool.total * Q + peak

\* Nobody gets back more principal than was paid in, by any sequence of
\* deposits, withdrawals and offsets.
NoPrincipalGain ==
    \A o \in Owners :
        moved[o] >= IF o \in DOMAIN deposits
                    THEN Compounded(pool, deposits[o].initial, deposits[o].snapshot) ELSE 0

\* A deposit another owner's command or an offset leaves alone keeps its
\* collateral and token gains or gains more, over the end of its scale and
\* its epoch; a command leaves its principal as it is, an offset may lower it.
ClaimsUntouched ==
    [][\A o \in DOMAIN deposits \cap DOMAIN deposits' :
          deposits'[o] = deposits[o] =>
              LET d == deposits[o]
                  principal == Compounded(pool, d.initial, d.snapshot)
                  after == Compounded(pool', d.initial, d.snapshot)
              IN  /\ CollateralGain(pool', d.initial, d.snapshot)
                       >= CollateralGain(pool, d.initial, d.snapshot)
                  /\ TokenGain(pool', d.initial, d.snapshot)
                       >= TokenGain(pool, d.initial, d.snapshot)
                  /\ IF offsets' = offsets THEN after = principal ELSE after <= principal]_vars

\* The claims on the pool are covered after every accepted command, so that
\* the next deposit, withdrawal or claim is not refused for the state it finds.
AlwaysCovered == Covers(pool, deposits, fronts)
=============================================================================
