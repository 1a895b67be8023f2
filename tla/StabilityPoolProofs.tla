------------------------ MODULE StabilityPoolProofs -------------------------
(***************************************************************************)
(* For any owners, amounts, debts and issuance of StabilityPool: nobody    *)
(* gets more principal back than was paid in, no command and no offset     *)
(* lowers what it leaves alone, and however offsets round, the principal   *)
(* the depositors, and the front ends, may claim exceeds the pool by at    *)
(* most one unit in Q of the largest pool an offset has met.               *)
(***************************************************************************)
EXTENDS StabilityPool, SumTheorems, SequenceTheorems

CellSums == [s: Nat, g: Nat]

Pools ==
    [total: Nat, p: Nat \ {0}, epoch: Nat, scale: Nat, errS: Nat, errLoss: Nat, errG: Nat,
     collateral: Int, remaining: Int, allocated: Int, missed: Int, paid: Int,
     cells: Seq(Seq(CellSums))]

\* The pool has a cell for its epoch and scale, the last of all.
SoundPool(s) ==
    /\ s \in Pools
    /\ Len(s.cells) = s.epoch + 1 /\ Len(s.cells[s.epoch + 1]) = s.scale + 1

Snapshots == [p: Nat \ {0}, s: Nat, g: Nat, epoch: Nat, scale: Nat]

\* A snapshot was taken of this pool, or of an earlier state of it.
Taken(s, snap) ==
    /\ snap \in Snapshots
    /\ snap.epoch <= s.epoch
    /\ snap.epoch = s.epoch => snap.scale <= s.scale

\* The sums of the scales of an epoch, and of all epochs, are as before or larger.
RowGrows(r, q) ==
    /\ Len(r) <= Len(q)
    /\ \A k \in 1 .. Len(r) : r[k].s <= q[k].s /\ r[k].g <= q[k].g

CellsGrow(c, d) == Len(c) <= Len(d) /\ \A e \in 1 .. Len(c) : RowGrows(c[e], d[e])

\* t is the pool s after an issuance, or after a change of its balances.
SameProduct(s, t) ==
    t.p = s.p /\ t.epoch = s.epoch /\ t.scale = s.scale /\ t.errLoss = s.errLoss

-----------------------------------------------------------------------------
(* Arithmetic. *)

\* Q and SCALE are positive, and Q is the larger.
LEMMA Units ==
    /\ SCALE \in Nat /\ SCALE >= 2 /\ Q \in Nat /\ Q >= SCALE /\ Q > 0
<1>1. SCALE \in Nat /\ SCALE >= 2 /\ Q = SCALE * SCALE
  BY PoolAssumption
<1>2. SCALE * SCALE >= SCALE * 2 /\ SCALE * SCALE \in Nat
  BY <1>1
<1> QED BY <1>1, <1>2

\* The quotient of integers by a positive number: rounded down, and monotone.
LEMMA Floor ==
    ASSUME NEW a \in Int, NEW b \in Nat \ {0}
    PROVE  /\ a \div b \in Int /\ b * (a \div b) <= a /\ a < b * (a \div b) + b
           /\ a >= 0 => a \div b \in Nat
OBVIOUS

LEMMA FloorMonotone ==
    ASSUME NEW a \in Int, NEW c \in Int, a <= c, NEW b \in Nat \ {0}
    PROVE  a \div b <= c \div b
OBVIOUS

LEMMA FloorExact ==
    ASSUME NEW a \in Int, NEW b \in Nat \ {0}
    PROVE  (a * b) \div b = a
OBVIOUS

\* A bound on a quotient is a bound on the product.
LEMMA FloorAtMost ==
    ASSUME NEW a \in Int, NEW c \in Int, NEW b \in Nat \ {0}, a <= c * b
    PROVE  a \div b <= c
<1>1. a \div b <= (c * b) \div b
  BY FloorMonotone
<1> QED BY <1>1, FloorExact, Floor

LEMMA ProductMonotone ==
    ASSUME NEW a \in Int, NEW b \in Int, a <= b, NEW c \in Nat
    PROVE  a * c <= b * c /\ c * a <= c * b /\ a * c \in Int /\ b * c \in Int
OBVIOUS

LEMMA ProductNat ==
    ASSUME NEW a \in Nat, NEW b \in Nat
    PROVE  a * b \in Nat /\ (a # 0 /\ b # 0 => a * b # 0)
OBVIOUS

\* A positive factor on both sides.
LEMMA Cancel ==
    ASSUME NEW a \in Int, NEW b \in Int, NEW c \in Nat \ {0}, a * c <= b * c
    PROVE  a <= b
OBVIOUS

-----------------------------------------------------------------------------
(* What offsets leave of an account. *)

\* An account that offsets have not used up, and the unit of its snapshot.
Live(s, snap) == ~(snap.epoch < s.epoch \/ s.scale - snap.scale >= 2)
Unit(s, snap) == IF s.scale = snap.scale THEN snap.p ELSE snap.p * SCALE

\* The principal of an account is a natural number, nothing once it is used
\* up, and no more than its share of P.
LEMMA CompoundedBounds ==
    ASSUME NEW s, SoundPool(s), NEW i \in Nat, NEW snap \in Snapshots
    PROVE  /\ Compounded(s, i, snap) \in Nat
           /\ ~Live(s, snap) => Compounded(s, i, snap) = 0
           /\ Unit(s, snap) \in Nat \ {0}
           /\ Live(s, snap) => Compounded(s, i, snap) * Unit(s, snap) <= i * s.p
<1>1. s.p \in Nat \ {0} /\ snap.p \in Nat \ {0}
  BY DEF SoundPool, Pools, Snapshots
<1>2. Unit(s, snap) \in Nat \ {0}
  BY <1>1, Units DEF Unit
<1> DEFINE u == Unit(s, snap)
           r == (i * s.p) \div u
<1>3. Compounded(s, i, snap) = IF ~Live(s, snap) THEN 0
                               ELSE IF r < i \div SCALE THEN 0 ELSE r
  BY DEF Compounded, Unit, Live
<1>4. i * s.p \in Nat
  BY <1>1
<1> HIDE DEF u
<1>5. u \in Nat \ {0}
  BY <1>2 DEF u
<1>6. r \in Nat /\ u * r <= i * s.p
  BY <1>4, <1>5, Floor
<1> HIDE DEF r
<1>7. r * u <= i * s.p /\ 0 * u <= i * s.p
  BY <1>4, <1>5, <1>6
<1> QED BY <1>2, <1>3, <1>6, <1>7 DEF u

\* An account opened at the current snapshot holds what was put in.
LEMMA CompoundedNow ==
    ASSUME NEW s, SoundPool(s), NEW i \in Nat, NEW snap \in Snapshots,
           snap.p = s.p, snap.epoch = s.epoch, snap.scale = s.scale
    PROVE  Compounded(s, i, snap) = i
<1>1. s.p \in Nat \ {0} /\ s.epoch \in Nat /\ s.scale \in Nat
  BY DEF SoundPool, Pools
<1>2. (i * s.p) \div s.p = i
  BY <1>1, FloorExact
<1>3. i \div SCALE <= i
  <2>1. i <= i * SCALE
    BY Units
  <2> QED BY <2>1, Units, FloorAtMost
<1>4. i \div SCALE \in Int
  BY Units, Floor
<1> QED BY <1>1, <1>2, <1>3, <1>4 DEF Compounded

\* Issuance and changes of balances leave every principal as it is.
LEMMA CompoundedSame ==
    ASSUME NEW s, NEW t, SameProduct(s, t), NEW i, NEW snap
    PROVE  /\ Compounded(t, i, snap) = Compounded(s, i, snap)
           /\ Live(t, snap) = Live(s, snap) /\ Unit(t, snap) = Unit(s, snap)
           /\ Taken(t, snap) = Taken(s, snap)
BY DEF SameProduct, Compounded, Live, Unit, Taken

\* The pool after an offset: a new epoch, a new scale, or a smaller P; P times
\* the factor that is left, rounded down.
Falls(s, t, factor) ==
    /\ factor \in 0 .. Q
    /\ \/ t.epoch = s.epoch + 1
       \/ /\ t.epoch = s.epoch /\ t.scale = s.scale + 1
          /\ t.p * Q <= s.p * factor * SCALE
       \/ /\ t.epoch = s.epoch /\ t.scale = s.scale
          /\ t.p * Q <= s.p * factor

\* An offset leaves no account more than it had.
LEMMA CompoundedFalls ==
    ASSUME NEW s, SoundPool(s), NEW t, SoundPool(t), NEW factor, Falls(s, t, factor),
           NEW i \in Nat, NEW snap, Taken(s, snap)
    PROVE  Taken(t, snap) /\ Compounded(t, i, snap) <= Compounded(s, i, snap)
<1>1. /\ s.p \in Nat \ {0} /\ s.epoch \in Nat /\ s.scale \in Nat
      /\ t.p \in Nat \ {0} /\ t.epoch \in Nat /\ t.scale \in Nat
  BY DEF SoundPool, Pools
<1>2. /\ snap \in Snapshots /\ snap.p \in Nat \ {0} /\ snap.epoch \in Nat /\ snap.scale \in Nat
      /\ snap.epoch <= s.epoch /\ (snap.epoch = s.epoch => snap.scale <= s.scale)
  BY DEF Taken, Snapshots
<1>3. factor \in 0 .. Q /\ factor \in Nat /\ factor <= Q
  BY Units DEF Falls
<1>4. Compounded(s, i, snap) \in Nat /\ Compounded(t, i, snap) \in Nat
  BY <1>2, CompoundedBounds
<1>5. CASE ~Live(t, snap)
  <2>1. Compounded(t, i, snap) = 0
    BY <1>2, <1>5, CompoundedBounds
  <2>2. Taken(t, snap)
    BY <1>1, <1>2, <1>3 DEF Falls, Taken
  <2> QED BY <1>4, <2>1, <2>2
<1>6. CASE Live(t, snap)
  <2>0. t.epoch = s.epoch /\ snap.epoch = s.epoch
    BY <1>1, <1>2, <1>6 DEF Live, Falls
  <2> DEFINE quotient(x, u) == (i * x) \div u
             least == i \div SCALE
  <2>1. least \in Int
    BY Units, Floor
  <2>2. CASE t.scale = s.scale + 1
    <3>1. snap.scale = s.scale /\ Live(s, snap)
      BY <1>1, <1>2, <1>6, <2>0, <2>2 DEF Live
    <3>2. t.p * Q <= s.p * factor * SCALE
      BY <1>1, <2>0, <2>2 DEF Falls
    <3>3. s.p * SCALE \in Nat /\ (s.p * SCALE) * factor <= (s.p * SCALE) * Q
      BY <1>1, <1>3, Units, ProductMonotone
    <3>4. s.p * factor * SCALE = (s.p * SCALE) * factor
      BY <1>1, <1>3, Units
    <3>5. t.p * Q <= (s.p * SCALE) * Q
      BY <1>1, <1>3, <3>2, <3>3, <3>4, Units
    <3>6. t.p <= s.p * SCALE
      BY <1>1, <3>3, <3>5, Units, Cancel
    <3>7. i * t.p <= i * (s.p * SCALE)
      BY <1>1, <3>3, <3>6, ProductMonotone
    <3> DEFINE a == quotient(s.p, snap.p)
    <3>8. a \in Nat /\ snap.p * a <= i * s.p /\ i * s.p < snap.p * a + snap.p /\ i * s.p \in Nat
      <4> DEFINE x == i * s.p
                 u == snap.p
      <4>1. x \in Nat /\ x \in Int /\ x >= 0
        BY <1>1
      <4>2. u \in Nat \ {0}
        BY <1>2
      <4> HIDE DEF x, u
      <4>3. x \div u \in Nat /\ u * (x \div u) <= x /\ x < u * (x \div u) + u
        BY <4>1, <4>2, Floor
      <4> QED BY <4>1, <4>3 DEF x, u
    <3> HIDE DEF a
    <3> DEFINE b == quotient(t.p, snap.p * SCALE)
    <3>9. snap.p * SCALE \in Nat \ {0} /\ i * t.p \in Nat
      BY <1>1, <1>2, Units
    <3>10. b \in Nat /\ (snap.p * SCALE) * b <= i * t.p
      BY <3>9, Floor
    <3> HIDE DEF b
    <3>11. b <= a
      <4>1. (snap.p * SCALE) * b <= i * (s.p * SCALE)
        BY <1>1, <3>3, <3>7, <3>9, <3>10
      <4>2. i * (s.p * SCALE) = (i * s.p) * SCALE /\ (snap.p * SCALE) * b = (snap.p * b) * SCALE
        BY <1>1, <1>2, <3>10, Units
      <4>3. snap.p * b <= i * s.p
        <5>1. (snap.p * b) * SCALE <= (i * s.p) * SCALE
          BY <4>1, <4>2
        <5>2. snap.p * b \in Int /\ i * s.p \in Int
          BY <1>2, <3>8, <3>10
        <5> QED BY <5>1, <5>2, Units, Cancel
      <4>4. snap.p * b < snap.p * (a + 1)
        BY <1>2, <3>8, <3>10, <4>3
      <4> QED BY <1>2, <3>8, <3>10, <4>4
    <3>12. Compounded(s, i, snap) = IF a < least THEN 0 ELSE a
      BY <3>1 DEF Compounded, Live, a
    <3>13. Compounded(t, i, snap) = IF b < least THEN 0 ELSE b
      BY <1>1, <1>2, <1>6, <2>2, <3>1 DEF Compounded, Live, b
    <3>14. Taken(t, snap)
      BY <1>1, <1>2, <2>0, <3>1, <2>2 DEF Taken
    <3> HIDE DEF least
    <3> QED BY <2>1, <3>8, <3>10, <3>11, <3>12, <3>13, <3>14
  <2>3. CASE t.scale = s.scale
    <3>1. Live(s, snap) /\ Unit(s, snap) = Unit(t, snap)
      BY <1>1, <1>2, <1>6, <2>0, <2>3 DEF Live, Unit
    <3>2. t.p * Q <= s.p * factor
      BY <1>1, <2>0, <2>3 DEF Falls
    <3>3. s.p * factor <= s.p * Q /\ s.p * factor \in Int
      BY <1>1, <1>3, Units, ProductMonotone
    <3>4. t.p <= s.p
      BY <1>1, <3>2, <3>3, Units, Cancel
    <3>5. i * t.p <= i * s.p /\ i * t.p \in Int /\ i * s.p \in Int
      BY <1>1, <3>4, ProductMonotone
    <3> DEFINE u == Unit(s, snap)
               a == quotient(s.p, u)
               b == quotient(t.p, u)
    <3>6. u \in Nat \ {0}
      BY <1>2, CompoundedBounds
    <3>7. Compounded(s, i, snap) = IF a < least THEN 0 ELSE a
      BY <3>1 DEF Compounded, Live, Unit
    <3>8. Compounded(t, i, snap) = IF b < least THEN 0 ELSE b
      BY <1>6, <3>1 DEF Compounded, Live, Unit
    <3> HIDE DEF u
    <3>9. b <= a /\ a \in Nat /\ b \in Nat
      <4>1. i * t.p \in Nat /\ i * s.p \in Nat
        BY <1>1
      <4> QED BY <3>5, <3>6, <4>1, Floor, FloorMonotone
    <3>10. Taken(t, snap)
      BY <1>1, <1>2, <2>0, <2>3 DEF Taken
    <3> HIDE DEF a, b, least
    <3> QED BY <2>1, <3>7, <3>8, <3>9, <3>10
  <2> QED BY <1>1, <2>0, <2>2, <2>3 DEF Falls
<1> QED BY <1>5, <1>6

-----------------------------------------------------------------------------
(* The sums of the epochs and scales. *)

\* The cells of an epoch.
LEMMA RowCells ==
    ASSUME NEW r \in Seq(CellSums)
    PROVE  /\ Len(r) \in Nat
           /\ \A k \in 1 .. Len(r) : r[k] \in CellSums /\ r[k].s \in Nat /\ r[k].g \in Nat
<1>1. Len(r) \in Nat /\ \A k \in 1 .. Len(r) : r[k] \in CellSums
  OBVIOUS
<1> QED BY <1>1 DEF CellSums

\* An epoch that keeps its cells grows, and growth is transitive.
LEMMA RowKept ==
    ASSUME NEW r \in Seq(CellSums), NEW q, Len(q) >= Len(r), \A k \in 1 .. Len(r) : q[k] = r[k]
    PROVE  RowGrows(r, q)
<1>1. Len(r) <= Len(q)
  BY RowCells
<1>2. \A k \in 1 .. Len(r) : r[k].s \in Nat /\ r[k].g \in Nat
  BY RowCells
<1> QED BY <1>1, <1>2 DEF RowGrows

LEMMA RowSteps ==
    ASSUME NEW r \in Seq(CellSums), NEW q \in Seq(CellSums), NEW o \in Seq(CellSums),
           RowGrows(r, q), RowGrows(q, o)
    PROVE  RowGrows(r, o)
<1>1. Len(r) \in Nat /\ Len(q) \in Nat /\ Len(o) \in Nat
  BY RowCells
<1>2. Len(r) <= Len(q) /\ Len(q) <= Len(o)
  BY DEF RowGrows
<1>3. ASSUME NEW k \in 1 .. Len(r) PROVE r[k].s <= o[k].s /\ r[k].g <= o[k].g
  <2>1. k \in 1 .. Len(q) /\ k \in 1 .. Len(o)
    BY <1>1, <1>2
  <2>2. /\ r[k].s \in Nat /\ q[k].s \in Nat /\ o[k].s \in Nat
        /\ r[k].g \in Nat /\ q[k].g \in Nat /\ o[k].g \in Nat
    BY <2>1, RowCells
  <2>3. r[k].s <= q[k].s /\ r[k].g <= q[k].g /\ q[k].s <= o[k].s /\ q[k].g <= o[k].g
    BY <2>1 DEF RowGrows
  <2> QED BY <2>2, <2>3
<1>4. Len(r) <= Len(o)
  BY <1>1, <1>2
<1> QED BY <1>3, <1>4 DEF RowGrows

\* Sums grow by steps.
LEMMA GrowthSteps ==
    ASSUME NEW c \in Seq(Seq(CellSums)), NEW d \in Seq(Seq(CellSums)), NEW f \in Seq(Seq(CellSums)),
           CellsGrow(c, d), CellsGrow(d, f)
    PROVE  CellsGrow(c, f)
<1>1. Len(c) \in Nat /\ Len(d) \in Nat /\ Len(f) \in Nat
  OBVIOUS
<1>2. Len(c) <= Len(d) /\ Len(d) <= Len(f)
  BY DEF CellsGrow
<1>3. ASSUME NEW e \in 1 .. Len(c) PROVE RowGrows(c[e], f[e])
  <2>1. e \in 1 .. Len(d) /\ e \in 1 .. Len(f)
    BY <1>1, <1>2
  <2>2. c[e] \in Seq(CellSums) /\ d[e] \in Seq(CellSums) /\ f[e] \in Seq(CellSums)
    BY <2>1
  <2>3. RowGrows(c[e], d[e]) /\ RowGrows(d[e], f[e])
    BY <2>1 DEF CellsGrow
  <2> QED BY <2>2, <2>3, RowSteps
<1>4. Len(c) <= Len(f)
  BY <1>1, <1>2
<1> QED BY <1>3, <1>4 DEF CellsGrow

\* Sums that stay as they are.
LEMMA CellsStay ==
    ASSUME NEW c \in Seq(Seq(CellSums))
    PROVE  CellsGrow(c, c)
<1>1. ASSUME NEW e \in 1 .. Len(c) PROVE RowGrows(c[e], c[e])
  <2>1. c[e] \in Seq(CellSums)
    OBVIOUS
  <2>2. Len(c[e]) >= Len(c[e])
    BY <2>1, RowCells
  <2> QED BY <2>1, <2>2, RowKept
<1>2. Len(c) <= Len(c)
  OBVIOUS
<1> QED BY <1>1, <1>2 DEF CellsGrow

\* One epoch is replaced by one that grew.
LEMMA EpochGrown ==
    ASSUME NEW c \in Seq(Seq(CellSums)), NEW e \in 1 .. Len(c),
           NEW row \in Seq(CellSums), RowGrows(c[e], row), NEW d, d = [c EXCEPT ![e] = row]
    PROVE  d \in Seq(Seq(CellSums)) /\ Len(d) = Len(c) /\ d[e] = row /\ CellsGrow(c, d)
<1>1. /\ d \in Seq(Seq(CellSums)) /\ Len(d) = Len(c) /\ Len(c) \in Nat
      /\ d[e] = row /\ \A j \in 1 .. Len(c) : j # e => d[j] = c[j]
  OBVIOUS
<1>2. ASSUME NEW j \in 1 .. Len(c) PROVE RowGrows(c[j], d[j])
  <2>1. CASE j = e
    BY <1>1, <2>1
  <2>2. CASE j # e
    <3>1. c[j] \in Seq(CellSums) /\ d[j] = c[j]
      BY <1>1, <2>2
    <3>2. Len(c[j]) >= Len(c[j])
      BY <3>1, RowCells
    <3> QED BY <3>1, <3>2, RowKept
  <2> QED BY <2>1, <2>2
<1>3. Len(c) <= Len(d)
  BY <1>1
<1> QED BY <1>1, <1>2, <1>3 DEF CellsGrow

\* One cell is replaced by a larger one.
Raised(c, e, k, new, d) ==
    /\ c \in Seq(Seq(CellSums)) /\ e \in 1 .. Len(c) /\ k \in 1 .. Len(c[e])
    /\ new \in CellSums /\ c[e][k].s <= new.s /\ c[e][k].g <= new.g
    /\ d = [c EXCEPT ![e] = [@ EXCEPT ![k] = new]]

LEMMA CellRaised ==
    ASSUME NEW c, NEW e, NEW k, NEW new, NEW d, Raised(c, e, k, new, d)
    PROVE  /\ d \in Seq(Seq(CellSums)) /\ Len(d) = Len(c) /\ Len(d[e]) = Len(c[e])
           /\ CellsGrow(c, d)
<1>0. /\ c \in Seq(Seq(CellSums)) /\ e \in 1 .. Len(c) /\ k \in 1 .. Len(c[e])
      /\ new \in CellSums /\ c[e][k].s <= new.s /\ c[e][k].g <= new.g
      /\ d = [c EXCEPT ![e] = [@ EXCEPT ![k] = new]]
  BY DEF Raised
<1> DEFINE row == [c[e] EXCEPT ![k] = new]
<1>1. c[e] \in Seq(CellSums)
  BY <1>0
<1>2. /\ row \in Seq(CellSums) /\ Len(row) = Len(c[e]) /\ Len(row) \in Nat
      /\ row[k] = new /\ \A j \in 1 .. Len(c[e]) : j # k => row[j] = c[e][j]
  BY <1>0, <1>1
<1>3. d = [c EXCEPT ![e] = row]
  BY <1>0
<1> HIDE DEF row
<1>4. \A j \in 1 .. Len(c[e]) : c[e][j].s \in Nat /\ c[e][j].g \in Nat
  BY <1>1, RowCells
<1>5. \A j \in 1 .. Len(c[e]) : c[e][j].s <= row[j].s /\ c[e][j].g <= row[j].g
  <2> TAKE j \in 1 .. Len(c[e])
  <2>1. CASE j = k
    BY <1>0, <1>2, <2>1
  <2>2. CASE j # k
    BY <1>2, <1>4, <2>2
  <2> QED BY <2>1, <2>2
<1>6. RowGrows(c[e], row)
  BY <1>2, <1>5 DEF RowGrows
<1>7. d \in Seq(Seq(CellSums)) /\ Len(d) = Len(c) /\ d[e] = row /\ CellsGrow(c, d)
  BY <1>0, <1>2, <1>3, <1>6, EpochGrown, Zenon
<1> QED BY <1>2, <1>7

\* A new epoch and a new scale add a cell of their own.
LEMMA EpochAppended ==
    ASSUME NEW c \in Seq(Seq(CellSums))
    PROVE  /\ Append(c, <<NoSums>>) \in Seq(Seq(CellSums))
           /\ Len(Append(c, <<NoSums>>)) = Len(c) + 1
           /\ Len(Append(c, <<NoSums>>)[Len(c) + 1]) = 1
           /\ CellsGrow(c, Append(c, <<NoSums>>))
<1> DEFINE d == Append(c, <<NoSums>>)
<1>1. <<NoSums>> \in Seq(CellSums) /\ Len(<<NoSums>>) = 1
  BY DEF NoSums, CellSums
<1>2. /\ d \in Seq(Seq(CellSums)) /\ Len(d) = Len(c) + 1 /\ d[Len(c) + 1] = <<NoSums>>
      /\ \A j \in 1 .. Len(c) : d[j] = c[j]
  BY <1>1
<1> HIDE DEF d
<1>3. ASSUME NEW j \in 1 .. Len(c) PROVE RowGrows(c[j], d[j])
  <2>1. c[j] \in Seq(CellSums) /\ d[j] = c[j]
    BY <1>2
  <2>2. Len(d[j]) >= Len(c[j])
    BY <2>1, RowCells
  <2> QED BY <2>1, <2>2, RowKept
<1>4. Len(c) <= Len(d)
  BY <1>2
<1>5. CellsGrow(c, d)
  BY <1>3, <1>4 DEF CellsGrow
<1> QED BY <1>1, <1>2, <1>5 DEF d

Extended(c, e, d) ==
    /\ c \in Seq(Seq(CellSums)) /\ e \in 1 .. Len(c)
    /\ d = [c EXCEPT ![e] = Append(@, NoSums)]

LEMMA ScaleAppended ==
    ASSUME NEW c, NEW e, NEW d, Extended(c, e, d)
    PROVE  /\ d \in Seq(Seq(CellSums)) /\ Len(d) = Len(c) /\ Len(d[e]) = Len(c[e]) + 1
           /\ CellsGrow(c, d)
<1>0. /\ c \in Seq(Seq(CellSums)) /\ e \in 1 .. Len(c)
      /\ d = [c EXCEPT ![e] = Append(@, NoSums)]
  BY DEF Extended
<1> DEFINE row == Append(c[e], NoSums)
<1>1. c[e] \in Seq(CellSums) /\ NoSums \in CellSums
  BY <1>0 DEF NoSums, CellSums
<1>2. /\ row \in Seq(CellSums) /\ Len(row) = Len(c[e]) + 1 /\ Len(row) >= Len(c[e])
      /\ \A j \in 1 .. Len(c[e]) : row[j] = c[e][j]
  BY <1>1
<1>3. d = [c EXCEPT ![e] = row]
  BY <1>0
<1> HIDE DEF row
<1>4. RowGrows(c[e], row)
  BY <1>1, <1>2, RowKept
<1>5. d \in Seq(Seq(CellSums)) /\ Len(d) = Len(c) /\ d[e] = row /\ CellsGrow(c, d)
  BY <1>0, <1>2, <1>3, <1>4, EpochGrown, Zenon
<1> QED BY <1>2, <1>5

\* The cell of an epoch the pool has met, and that it only grows.
LEMMA CellGrows ==
    ASSUME NEW s, SoundPool(s), NEW t, SoundPool(t), CellsGrow(s.cells, t.cells),
           NEW e \in Nat, e <= s.epoch, NEW k \in Nat
    PROVE  /\ Cell(s, e, k).s \in Nat /\ Cell(s, e, k).g \in Nat
           /\ Cell(t, e, k).s \in Nat /\ Cell(t, e, k).g \in Nat
           /\ Cell(s, e, k).s <= Cell(t, e, k).s /\ Cell(s, e, k).g <= Cell(t, e, k).g
<1> DEFINE c == s.cells
           d == t.cells
<1>1. /\ c \in Seq(Seq(CellSums)) /\ d \in Seq(Seq(CellSums)) /\ CellsGrow(c, d)
      /\ Len(c) = s.epoch + 1 /\ s.epoch \in Nat
      /\ Cell(s, e, k) = (IF k < Len(c[e + 1]) THEN c[e + 1][k + 1] ELSE NoSums)
      /\ Cell(t, e, k) = (IF k < Len(d[e + 1]) THEN d[e + 1][k + 1] ELSE NoSums)
  BY DEF SoundPool, Pools, Cell
<1> HIDE DEF c, d
<1>2. Len(c) <= Len(d) /\ Len(d) \in Nat
  BY <1>1 DEF CellsGrow
<1>3. e + 1 \in 1 .. Len(c) /\ e + 1 \in 1 .. Len(d)
  <2>1. Len(c) \in Nat /\ e + 1 \in Nat /\ e + 1 >= 1 /\ e + 1 <= Len(c)
    BY <1>1
  <2> QED BY <1>2, <2>1
<1>4. c[e + 1] \in Seq(CellSums) /\ d[e + 1] \in Seq(CellSums) /\ RowGrows(c[e + 1], d[e + 1])
  <2>1. RowGrows(c[e + 1], d[e + 1])
    BY <1>1, <1>3 DEF CellsGrow
  <2> QED BY <1>1, <1>3, <2>1, ElementOfSeq
<1> DEFINE r == c[e + 1]
           q == d[e + 1]
<1>5. r \in Seq(CellSums) /\ q \in Seq(CellSums) /\ RowGrows(r, q)
  BY <1>4
<1>6. /\ Cell(s, e, k) = (IF k < Len(r) THEN r[k + 1] ELSE NoSums)
      /\ Cell(t, e, k) = (IF k < Len(q) THEN q[k + 1] ELSE NoSums)
  BY <1>1
<1> HIDE DEF r, q
<1>7. Len(r) \in Nat /\ Len(q) \in Nat /\ Len(r) <= Len(q)
  <2>1. Len(r) \in Nat /\ Len(q) \in Nat
    BY <1>5, RowCells, Zenon
  <2> QED BY <1>5, <2>1 DEF RowGrows
<1>8. NoSums.s = 0 /\ NoSums.g = 0
  BY DEF NoSums
<1>9. CASE k < Len(r)
  <2>1. k < Len(q) /\ k + 1 \in 1 .. Len(r) /\ k + 1 \in 1 .. Len(q)
    BY <1>7, <1>9
  <2>2. r[k + 1].s \in Nat /\ r[k + 1].g \in Nat /\ q[k + 1].s \in Nat /\ q[k + 1].g \in Nat
    BY <1>5, <2>1, RowCells
  <2>3. r[k + 1].s <= q[k + 1].s /\ r[k + 1].g <= q[k + 1].g
    BY <1>5, <2>1 DEF RowGrows
  <2> QED BY <1>6, <1>9, <2>1, <2>2, <2>3
<1>10. CASE ~(k < Len(r)) /\ k < Len(q)
  <2>1. k + 1 \in 1 .. Len(q)
    BY <1>7, <1>10
  <2>2. q[k + 1].s \in Nat /\ q[k + 1].g \in Nat
    BY <1>5, <2>1, RowCells
  <2> QED BY <1>6, <1>8, <1>10, <2>2
<1>11. CASE ~(k < Len(r)) /\ ~(k < Len(q))
  BY <1>6, <1>8, <1>11
<1> QED BY <1>9, <1>10, <1>11

\* A gain is monotone in both of its sums.
LEMMA GainMonotone ==
    ASSUME NEW i \in Nat, NEW snap \in Snapshots, NEW before \in Nat,
           NEW first \in Nat, NEW second \in Nat, NEW first2 \in Nat, NEW second2 \in Nat,
           first <= first2, second <= second2
    PROVE  Gain(i, snap, before, first2, second2) >= Gain(i, snap, before, first, second)
<1>1. second \div SCALE <= second2 \div SCALE /\ second \div SCALE \in Int /\ second2 \div SCALE \in Int
  BY Units, Floor, FloorMonotone
<1> DEFINE a == first - before + second \div SCALE
           b == first2 - before + second2 \div SCALE
           u == snap.p * Q
<1>2. a <= b /\ a \in Int /\ b \in Int
  BY <1>1
<1>3. u \in Nat \ {0}
  <2>1. snap.p \in Nat \ {0}
    BY DEF Snapshots
  <2> QED BY <2>1, Units, ProductNat
<1>4. Gain(i, snap, before, first2, second2) = (b * i) \div u
  BY DEF Gain
<1>5. Gain(i, snap, before, first, second) = (a * i) \div u
  BY DEF Gain
<1> HIDE DEF a, b, u
<1>6. a * i <= b * i /\ a * i \in Int /\ b * i \in Int
  BY <1>2, ProductMonotone
<1>7. (a * i) \div u <= (b * i) \div u /\ (a * i) \div u \in Int /\ (b * i) \div u \in Int
  BY <1>3, <1>6, Floor, FloorMonotone
<1> QED BY <1>4, <1>5, <1>7

\* What a snapshot's holder has gained, it keeps.
LEMMA GainsKept ==
    ASSUME NEW s, SoundPool(s), NEW t, SoundPool(t), CellsGrow(s.cells, t.cells),
           NEW i \in Nat, NEW snap, Taken(s, snap)
    PROVE  /\ CollateralGain(t, i, snap) >= CollateralGain(s, i, snap)
           /\ TokenGain(t, i, snap) >= TokenGain(s, i, snap)
<1>1. /\ snap \in Snapshots /\ snap.s \in Nat /\ snap.g \in Nat /\ snap.epoch \in Nat
      /\ snap.scale \in Nat /\ snap.scale + 1 \in Nat /\ snap.epoch <= s.epoch
  BY DEF Taken, Snapshots
<1> DEFINE C(k) == Cell(s, snap.epoch, k)
           D(k) == Cell(t, snap.epoch, k)
<1>2. \A k \in Nat : /\ C(k).s \in Nat /\ C(k).g \in Nat /\ D(k).s \in Nat /\ D(k).g \in Nat
                     /\ C(k).s <= D(k).s /\ C(k).g <= D(k).g
  BY <1>1, CellGrows
<1>3. /\ CollateralGain(s, i, snap) = Gain(i, snap, snap.s, C(snap.scale).s, C(snap.scale + 1).s)
      /\ CollateralGain(t, i, snap) = Gain(i, snap, snap.s, D(snap.scale).s, D(snap.scale + 1).s)
      /\ TokenGain(s, i, snap) = Gain(i, snap, snap.g, C(snap.scale).g, C(snap.scale + 1).g)
      /\ TokenGain(t, i, snap) = Gain(i, snap, snap.g, D(snap.scale).g, D(snap.scale + 1).g)
  BY DEF CollateralGain, TokenGain
<1> HIDE DEF C, D
<1>4. Gain(i, snap, snap.s, D(snap.scale).s, D(snap.scale + 1).s)
        >= Gain(i, snap, snap.s, C(snap.scale).s, C(snap.scale + 1).s)
  BY <1>1, <1>2, GainMonotone
<1>5. Gain(i, snap, snap.g, D(snap.scale).g, D(snap.scale + 1).g)
        >= Gain(i, snap, snap.g, C(snap.scale).g, C(snap.scale + 1).g)
  BY <1>1, <1>2, GainMonotone
<1> QED BY <1>3, <1>4, <1>5

-----------------------------------------------------------------------------
(* Issuance. *)

\* accumulator: a share and what is left are natural numbers.
LEMMA Shares ==
    ASSUME NEW amount \in Nat, NEW error \in Nat, NEW total \in Nat \ {0}
    PROVE  Each(amount, error, total) \in Nat /\ Left(amount, error, total) \in Nat
<1> DEFINE x == amount * Q + error
<1>1. x \in Nat
  BY Units
<1> HIDE DEF x
<1>2. x \div total \in Nat /\ x % total \in Nat
  BY <1>1
<1> QED BY <1>2 DEF x, Each, Left

\* The fields of a pool.
LEMMA PoolFields ==
    ASSUME NEW s \in Pools
    PROVE  /\ s.total \in Nat /\ s.p \in Nat \ {0} /\ s.epoch \in Nat /\ s.scale \in Nat
           /\ s.errS \in Nat /\ s.errLoss \in Nat /\ s.errG \in Nat /\ s.collateral \in Int
           /\ s.remaining \in Int /\ s.allocated \in Int /\ s.missed \in Int /\ s.paid \in Int
           /\ s.cells \in Seq(Seq(CellSums))
BY DEF Pools

\* A sound pool, and its current cell.
LEMMA SoundParts ==
    ASSUME NEW s, SoundPool(s)
    PROVE  /\ s \in Pools /\ s.total \in Nat /\ s.p \in Nat \ {0} /\ s.epoch \in Nat
           /\ s.scale \in Nat /\ s.errS \in Nat /\ s.errLoss \in Nat /\ s.errG \in Nat
           /\ s.cells \in Seq(Seq(CellSums)) /\ s.epoch + 1 \in 1 .. Len(s.cells)
           /\ s.cells[s.epoch + 1] \in Seq(CellSums)
           /\ s.scale + 1 \in 1 .. Len(s.cells[s.epoch + 1])
           /\ Len(s.cells) = s.epoch + 1 /\ Len(s.cells[s.epoch + 1]) = s.scale + 1
<1>1. s \in Pools /\ Len(s.cells) = s.epoch + 1 /\ Len(s.cells[s.epoch + 1]) = s.scale + 1
  BY DEF SoundPool
<1>2. /\ s.total \in Nat /\ s.p \in Nat \ {0} /\ s.epoch \in Nat /\ s.scale \in Nat
      /\ s.errS \in Nat /\ s.errLoss \in Nat /\ s.errG \in Nat /\ s.cells \in Seq(Seq(CellSums))
  BY <1>1, PoolFields
<1>3. s.epoch + 1 \in 1 .. (s.epoch + 1) /\ s.scale + 1 \in 1 .. (s.scale + 1)
  BY <1>2
<1>4. s.epoch + 1 \in 1 .. Len(s.cells) /\ s.scale + 1 \in 1 .. Len(s.cells[s.epoch + 1])
  BY <1>1, <1>3
<1>5. s.cells[s.epoch + 1] \in Seq(CellSums)
  BY <1>2, <1>4, ElementOfSeq
<1> QED BY <1>1, <1>2, <1>4, <1>5

\* Issuance keeps the pool sound and everything but the token sums.
LEMMA IssueSound ==
    ASSUME NEW s, SoundPool(s), NEW amount \in Nat
    PROVE  /\ SoundPool(Issue(s, amount)) /\ SameProduct(s, Issue(s, amount))
           /\ Issue(s, amount).total = s.total /\ Issue(s, amount).collateral = s.collateral
           /\ CellsGrow(s.cells, Issue(s, amount).cells)
<1> DEFINE t == Issue(s, amount)
           a == s.epoch + 1
           b == s.scale + 1
<1>0. /\ s \in Pools /\ s.cells \in Seq(Seq(CellSums)) /\ a \in 1 .. Len(s.cells)
      /\ b \in 1 .. Len(s.cells[a]) /\ s.total \in Nat /\ s.p \in Nat /\ s.errG \in Nat
      /\ Len(s.cells) = a /\ Len(s.cells[a]) = b /\ s.cells[a] \in Seq(CellSums)
  BY SoundParts
<1>1. CASE amount = 0 \/ s.total = 0
  <2>1. /\ t.cells = s.cells /\ t.epoch = s.epoch /\ t.scale = s.scale /\ t.p = s.p
        /\ t.errLoss = s.errLoss /\ t.total = s.total /\ t.collateral = s.collateral
    BY <1>0, <1>1 DEF Issue, Pools
  <2>2. t \in Pools
    <3>1. CASE amount = 0
      BY <1>0, <3>1 DEF Issue
    <3>2. CASE amount # 0
      <4>1. t = [total |-> s.total, p |-> s.p, epoch |-> s.epoch, scale |-> s.scale,
                 errS |-> s.errS, errLoss |-> s.errLoss, errG |-> s.errG,
                 collateral |-> s.collateral, remaining |-> s.remaining - amount,
                 allocated |-> s.allocated, missed |-> s.missed + amount,
                 paid |-> s.paid, cells |-> s.cells]
        BY <1>0, <1>1, <3>2 DEF Issue, Pools
      <4>2. s \in Pools
        BY <1>0
      <4> QED BY <4>1, <4>2 DEF Pools
    <3> QED BY <3>1, <3>2
  <2>3. CellsGrow(s.cells, s.cells)
    BY <1>0, CellsStay
  <2> HIDE DEF t
  <2>4. SoundPool(t) /\ SameProduct(s, t)
    BY <1>0, <2>1, <2>2 DEF SoundPool, SameProduct
  <2> QED BY <2>1, <2>3, <2>4 DEF t
<1>2. CASE amount # 0 /\ s.total # 0
  <2> DEFINE v == Each(amount, s.errG, s.total) * s.p
             old == s.cells[a][b]
             new == [old EXCEPT !.g = old.g + v]
             d == [s.cells EXCEPT ![a] = [s.cells[a] EXCEPT ![b] = new]]
             left == Left(amount, s.errG, s.total)
  <2>1. Each(amount, s.errG, s.total) \in Nat /\ left \in Nat
    BY <1>0, <1>2, Shares
  <2>2. v \in Nat
    BY <1>0, <2>1
  <2>3. old \in CellSums
    BY <1>0, RowCells
  <2>4. t.cells = d
    BY <1>0, <1>2 DEF Issue, Pools
  <2>5. t = [total |-> s.total, p |-> s.p, epoch |-> s.epoch, scale |-> s.scale,
             errS |-> s.errS, errLoss |-> s.errLoss, errG |-> left,
             collateral |-> s.collateral, remaining |-> s.remaining - amount,
             allocated |-> s.allocated + amount, missed |-> s.missed,
             paid |-> s.paid, cells |-> t.cells]
    BY <1>0, <1>2 DEF Issue, Pools
  <2> HIDE DEF t, v, left
  <2>6. new \in CellSums /\ old.s <= new.s /\ old.g <= new.g
    <3> HIDE DEF old
    <3> QED BY <2>2, <2>3 DEF CellSums
  <2> HIDE DEF new
  <2>7. /\ d \in Seq(Seq(CellSums)) /\ Len(d) = Len(s.cells) /\ Len(d[a]) = Len(s.cells[a])
        /\ CellsGrow(s.cells, d)
    <3>1. d = [s.cells EXCEPT ![a] = [@ EXCEPT ![b] = new]]
      OBVIOUS
    <3>2. s.cells[a][b].s <= new.s /\ s.cells[a][b].g <= new.g /\ new \in CellSums
      BY <2>6
    <3>3. s.cells \in Seq(Seq(CellSums)) /\ a \in 1 .. Len(s.cells) /\ b \in 1 .. Len(s.cells[a])
      BY <1>0
    <3> HIDE DEF d, a, b
    <3>4. Raised(s.cells, a, b, new, d)
      BY <3>1, <3>2, <3>3 DEF Raised
    <3> QED BY <3>4, CellRaised, Zenon
  <2> HIDE DEF d, old
  <2>8. t \in Pools
    <3>1. s.remaining - amount \in Int /\ s.allocated + amount \in Int /\ t.cells \in Seq(Seq(CellSums))
      BY <1>0, <2>4, <2>7, PoolFields
    <3>2. s \in Pools /\ left \in Nat
      BY <1>0, <2>1
    <3> QED BY <2>5, <3>1, <3>2 DEF Pools
  <2>9. /\ t.epoch = s.epoch /\ t.scale = s.scale /\ t.p = s.p
        /\ t.errLoss = s.errLoss /\ t.total = s.total /\ t.collateral = s.collateral
    BY <2>5
  <2>10. SoundPool(t) /\ SameProduct(s, t)
    BY <1>0, <2>4, <2>7, <2>8, <2>9 DEF SoundPool, SameProduct
  <2>11. t = Issue(s, amount)
    BY DEF t
  <2> QED BY <2>4, <2>7, <2>9, <2>10, <2>11
<1> QED BY <1>0, <1>1, <1>2

-----------------------------------------------------------------------------
(* Offsets. *)

\* The loss per unit and the overcharge that is kept: what the pool is charged
\* is the debt, less the overcharge before it, and the new overcharge.
LEMMA LossFacts ==
    ASSUME NEW s, SoundPool(s), s.total > 0, NEW debt \in Nat, debt <= s.total,
           debt = s.total \/ debt * Q >= s.errLoss, Loss(s, debt) <= Q
    PROVE  /\ Loss(s, debt) \in 0 .. Q /\ Q - Loss(s, debt) \in 0 .. Q
           /\ LossError(s, debt) \in 0 .. s.total
           /\ debt = s.total => Q - Loss(s, debt) = 0 /\ LossError(s, debt) = 0
           /\ debt # s.total =>
                Loss(s, debt) * s.total = debt * Q - s.errLoss + LossError(s, debt)
<1>1. s.total \in Nat \ {0} /\ s.errLoss \in Nat
  BY SoundParts
<1>2. CASE debt = s.total
  <2>1. Loss(s, debt) = Q /\ LossError(s, debt) = 0
    BY <1>2 DEF Loss, LossError
  <2> QED BY <1>1, <1>2, <2>1, Units
<1>3. CASE debt # s.total
  <2> DEFINE e == debt * Q - s.errLoss
             n == s.total
             q == e \div n
  <2>1. e \in Nat /\ n \in Nat \ {0} /\ n \in Nat
    BY <1>1, <1>3, Units
  <2>2. Loss(s, debt) = q + 1 /\ LossError(s, debt) = Loss(s, debt) * n - e
    BY <1>3 DEF Loss, LossError
  <2> HIDE DEF e, n
  <2>3. q \in Nat /\ n * q <= e /\ e < n * q + n
    BY <2>1, Floor
  <2> HIDE DEF q
  <2>4. (q + 1) * n = n * q + n /\ n * q \in Nat
    BY <2>1, <2>3
  <2>5. LossError(s, debt) = n * q + n - e
    <3>1. LossError(s, debt) = (q + 1) * n - e
      BY <2>2
    <3> QED BY <2>1, <2>3, <2>4, <3>1
  <2>6. LossError(s, debt) \in 0 .. n
    BY <2>1, <2>3, <2>4, <2>5
  <2>7. Loss(s, debt) \in 0 .. Q /\ Q - Loss(s, debt) \in 0 .. Q
    BY <2>2, <2>3, Units
  <2>8. Loss(s, debt) * n = e + LossError(s, debt)
    BY <2>1, <2>2, <2>4, <2>5
  <2> QED BY <1>3, <2>6, <2>7, <2>8 DEF e, n
<1> QED BY <1>2, <1>3

\* The collateral's share is added to the current cell.
Gained(s, collateral, errLoss) ==
    [s EXCEPT !.errS = Left(collateral, @, s.total),
              !.cells[s.epoch + 1][s.scale + 1].s =
                  @ + Each(collateral, s.errS, s.total) * s.p,
              !.errLoss = errLoss]

LEMMA GainedSound ==
    ASSUME NEW s, SoundPool(s), s.total > 0, NEW collateral \in Nat, NEW errLoss \in Nat, NEW g,
           g = Gained(s, collateral, errLoss)
    PROVE  /\ SoundPool(g) /\ CellsGrow(s.cells, g.cells)
           /\ g.p = s.p /\ g.epoch = s.epoch /\ g.scale = s.scale
           /\ g.errLoss = errLoss /\ g.total = s.total /\ g.collateral = s.collateral
<1> DEFINE a == s.epoch + 1
           b == s.scale + 1
           v == Each(collateral, s.errS, s.total) * s.p
           old == s.cells[a][b]
           new == [old EXCEPT !.s = old.s + v]
           d == [s.cells EXCEPT ![a] = [s.cells[a] EXCEPT ![b] = new]]
           left == Left(collateral, s.errS, s.total)
<1>0. /\ s \in Pools /\ s.cells \in Seq(Seq(CellSums)) /\ a \in 1 .. Len(s.cells)
      /\ b \in 1 .. Len(s.cells[a]) /\ s.total \in Nat \ {0} /\ s.p \in Nat /\ s.errS \in Nat
      /\ Len(s.cells) = a /\ Len(s.cells[a]) = b /\ s.cells[a] \in Seq(CellSums)
  BY SoundParts
<1>1. Each(collateral, s.errS, s.total) \in Nat /\ left \in Nat
  BY <1>0, Shares
<1>2. v \in Nat
  BY <1>0, <1>1
<1>3. old \in CellSums
  BY <1>0, RowCells
<1>4. g.cells = d
  BY <1>0 DEF Pools, Gained
<1>5. g = [total |-> s.total, p |-> s.p, epoch |-> s.epoch, scale |-> s.scale,
           errS |-> left, errLoss |-> errLoss, errG |-> s.errG,
           collateral |-> s.collateral, remaining |-> s.remaining,
           allocated |-> s.allocated, missed |-> s.missed,
           paid |-> s.paid, cells |-> g.cells]
  BY <1>0 DEF Pools, Gained
<1> HIDE DEF v, left
<1>6. new \in CellSums /\ old.s <= new.s /\ old.g <= new.g
  <2> HIDE DEF old
  <2> QED BY <1>2, <1>3 DEF CellSums
<1> HIDE DEF new
<1>7. /\ d \in Seq(Seq(CellSums)) /\ Len(d) = Len(s.cells) /\ Len(d[a]) = Len(s.cells[a])
      /\ CellsGrow(s.cells, d)
  <2>1. d = [s.cells EXCEPT ![a] = [@ EXCEPT ![b] = new]]
    OBVIOUS
  <2>2. s.cells[a][b].s <= new.s /\ s.cells[a][b].g <= new.g /\ new \in CellSums
    BY <1>6
  <2>3. s.cells \in Seq(Seq(CellSums)) /\ a \in 1 .. Len(s.cells) /\ b \in 1 .. Len(s.cells[a])
    BY <1>0
  <2> HIDE DEF d, a, b
  <2>4. Raised(s.cells, a, b, new, d)
    BY <2>1, <2>2, <2>3 DEF Raised
  <2> QED BY <2>4, CellRaised, Zenon
<1> HIDE DEF d, old
<1>8. g \in Pools
  <2>1. g.cells \in Seq(Seq(CellSums)) /\ s \in Pools /\ left \in Nat
    BY <1>0, <1>1, <1>4, <1>7
  <2> QED BY <1>5, <2>1 DEF Pools
<1>9. /\ g.epoch = s.epoch /\ g.scale = s.scale /\ g.p = s.p
      /\ g.errLoss = errLoss /\ g.total = s.total /\ g.collateral = s.collateral
  BY <1>5
<1>10. SoundPool(g)
  BY <1>0, <1>4, <1>7, <1>8, <1>9 DEF SoundPool
<1> QED BY <1>4, <1>7, <1>9, <1>10

\* The pool after P has shrunk, unless P is used up.
LEMMA ShrinkSound ==
    ASSUME NEW s, SoundPool(s), NEW factor \in 0 .. Q, Shrink(s, factor).p > 0
    PROVE  /\ SoundPool(Shrink(s, factor)) /\ CellsGrow(s.cells, Shrink(s, factor).cells)
           /\ Falls(s, Shrink(s, factor), factor)
           /\ factor = 0 => Shrink(s, factor).epoch = s.epoch + 1
           /\ Shrink(s, factor).errLoss = s.errLoss /\ Shrink(s, factor).total = s.total
           /\ Shrink(s, factor).collateral = s.collateral
<1> DEFINE t == Shrink(s, factor)
           a == s.epoch + 1
<1>0. /\ s \in Pools /\ s.cells \in Seq(Seq(CellSums)) /\ a \in 1 .. Len(s.cells)
      /\ s.p \in Nat \ {0} /\ s.epoch \in Nat /\ s.scale \in Nat
      /\ Len(s.cells) = a /\ Len(s.cells[a]) = s.scale + 1 /\ factor \in Nat
  BY SoundParts, Units
<1>1. CASE factor = 0
  <2> DEFINE d == Append(s.cells, <<NoSums>>)
  <2>1. t = [total |-> s.total, p |-> Q, epoch |-> s.epoch + 1, scale |-> 0,
             errS |-> s.errS, errLoss |-> s.errLoss, errG |-> s.errG,
             collateral |-> s.collateral, remaining |-> s.remaining,
             allocated |-> s.allocated, missed |-> s.missed, paid |-> s.paid, cells |-> d]
    BY <1>0, <1>1 DEF Shrink, NextEpoch, Pools
  <2>2. /\ d \in Seq(Seq(CellSums)) /\ Len(d) = Len(s.cells) + 1 /\ Len(d[Len(s.cells) + 1]) = 1
        /\ CellsGrow(s.cells, d)
    BY <1>0, EpochAppended
  <2> HIDE DEF t, d
  <2>3. t \in Pools
    <3>1. s \in Pools /\ d \in Seq(Seq(CellSums)) /\ Q \in Nat \ {0} /\ s.epoch + 1 \in Nat
      BY <1>0, <2>2, Units
    <3> QED BY <2>1, <3>1 DEF Pools
  <2>4. /\ t.cells = d /\ t.epoch = s.epoch + 1 /\ t.scale = 0 /\ t.errLoss = s.errLoss
        /\ t.total = s.total /\ t.collateral = s.collateral
    BY <2>1
  <2>5. SoundPool(t) /\ Falls(s, t, factor)
    BY <1>0, <2>2, <2>3, <2>4 DEF SoundPool, Falls
  <2> QED BY <2>2, <2>4, <2>5 DEF t
<1>2. CASE factor # 0 /\ (s.p * factor) \div Q < SCALE
  <2> DEFINE d == [s.cells EXCEPT ![a] = Append(s.cells[a], NoSums)]
             x == s.p * factor * SCALE
             p == x \div Q
  <2>1. t = [total |-> s.total, p |-> p, epoch |-> s.epoch, scale |-> s.scale + 1,
             errS |-> s.errS, errLoss |-> s.errLoss, errG |-> s.errG,
             collateral |-> s.collateral, remaining |-> s.remaining,
             allocated |-> s.allocated, missed |-> s.missed, paid |-> s.paid, cells |-> d]
    BY <1>0, <1>2 DEF Shrink, NextScale, Pools
  <2>2. /\ d \in Seq(Seq(CellSums)) /\ Len(d) = Len(s.cells) /\ Len(d[a]) = Len(s.cells[a]) + 1
        /\ CellsGrow(s.cells, d)
    <3>1. d = [s.cells EXCEPT ![a] = Append(@, NoSums)]
      OBVIOUS
    <3>2. s.cells \in Seq(Seq(CellSums)) /\ a \in 1 .. Len(s.cells)
      BY <1>0
    <3> HIDE DEF a, d
    <3>3. Extended(s.cells, a, d)
      BY <3>1, <3>2 DEF Extended
    <3> QED BY <3>3, ScaleAppended, Zenon
  <2>3. x \in Nat
    BY <1>0, Units
  <2> HIDE DEF x, d
  <2>4. p \in Nat /\ Q * p <= x
    BY <2>3, Units, Floor
  <2> HIDE DEF p
  <2>5. t.p = p
    BY <2>1
  <2>6. p > 0 /\ p \in Nat \ {0}
    BY <2>4, <2>5
  <2> HIDE DEF t
  <2>7. t \in Pools
    <3>1. s \in Pools /\ d \in Seq(Seq(CellSums)) /\ p \in Nat \ {0} /\ s.scale + 1 \in Nat
      BY <1>0, <2>2, <2>6
    <3> QED BY <2>1, <3>1 DEF Pools
  <2>8. /\ t.cells = d /\ t.epoch = s.epoch /\ t.scale = s.scale + 1 /\ t.errLoss = s.errLoss
        /\ t.total = s.total /\ t.collateral = s.collateral
    BY <2>1
  <2>9. SoundPool(t)
    BY <1>0, <2>2, <2>7, <2>8 DEF SoundPool
  <2>10. t.p * Q <= s.p * factor * SCALE
    BY <2>4, <2>5, Units DEF x
  <2>11. Falls(s, t, factor)
    BY <2>8, <2>10 DEF Falls
  <2> QED BY <1>2, <2>2, <2>8, <2>9, <2>11 DEF t
<1>3. CASE factor # 0 /\ ~((s.p * factor) \div Q < SCALE)
  <2> DEFINE x == s.p * factor
             p == x \div Q
  <2>1. t = [total |-> s.total, p |-> p, epoch |-> s.epoch, scale |-> s.scale,
             errS |-> s.errS, errLoss |-> s.errLoss, errG |-> s.errG,
             collateral |-> s.collateral, remaining |-> s.remaining,
             allocated |-> s.allocated, missed |-> s.missed, paid |-> s.paid, cells |-> s.cells]
    BY <1>0, <1>3 DEF Shrink, Pools
  <2>2. CellsGrow(s.cells, s.cells)
    BY <1>0, CellsStay
  <2>3. x \in Nat
    BY <1>0
  <2> HIDE DEF x
  <2>4. p \in Nat /\ Q * p <= x
    BY <2>3, Units, Floor
  <2> HIDE DEF p
  <2>5. t.p = p
    BY <2>1
  <2>6. p > 0 /\ p \in Nat \ {0}
    BY <2>4, <2>5
  <2> HIDE DEF t
  <2>7. t \in Pools
    <3>1. s \in Pools /\ p \in Nat \ {0}
      BY <1>0, <2>6
    <3> QED BY <2>1, <3>1 DEF Pools
  <2>8. /\ t.cells = s.cells /\ t.epoch = s.epoch /\ t.scale = s.scale /\ t.errLoss = s.errLoss
        /\ t.total = s.total /\ t.collateral = s.collateral
    BY <2>1
  <2>9. SoundPool(t)
    BY <1>0, <2>7, <2>8 DEF SoundPool
  <2>10. t.p * Q <= s.p * factor
    BY <2>4, <2>5, Units DEF x
  <2>11. Falls(s, t, factor)
    BY <2>8, <2>10 DEF Falls
  <2> QED BY <1>3, <2>2, <2>8, <2>9, <2>11 DEF t
<1> QED BY <1>1, <1>2, <1>3

\* A pool that only its balances have changed.
Balanced(s, total, collateral, paid) ==
    [s EXCEPT !.total = total, !.collateral = collateral, !.paid = paid]

LEMMA BalancesSound ==
    ASSUME NEW s, SoundPool(s), NEW total \in Nat, NEW collateral \in Int, NEW paid \in Int, NEW t,
           t = Balanced(s, total, collateral, paid)
    PROVE  /\ SoundPool(t) /\ SameProduct(s, t) /\ t.total = total
           /\ t.collateral = collateral /\ t.cells = s.cells
<1>0. s \in Pools
  BY DEF SoundPool
<1>1. t = [total |-> total, p |-> s.p, epoch |-> s.epoch, scale |-> s.scale,
           errS |-> s.errS, errLoss |-> s.errLoss, errG |-> s.errG,
           collateral |-> collateral, remaining |-> s.remaining,
           allocated |-> s.allocated, missed |-> s.missed, paid |-> paid, cells |-> s.cells]
  BY <1>0 DEF Pools, Balanced
<1>2. t \in Pools
  BY <1>0, <1>1 DEF Pools
<1>3. /\ t.total = total /\ t.p = s.p /\ t.epoch = s.epoch /\ t.scale = s.scale
      /\ t.errLoss = s.errLoss /\ t.collateral = collateral /\ t.cells = s.cells
  BY <1>1
<1> QED BY <1>2, <1>3 DEF SoundPool, SameProduct

\* What an offset the code accepts does to the pool.
Absorbs(s, debt, t) ==
    /\ SoundPool(t) /\ CellsGrow(s.cells, t.cells)
    /\ Falls(s, t, Q - Loss(s, debt))
    /\ Q - Loss(s, debt) = 0 => t.epoch = s.epoch + 1
    /\ t.total = s.total - debt /\ t.errLoss = LossError(s, debt)

LEMMA AbsorbSound ==
    ASSUME NEW s, SoundPool(s), s.total > 0, NEW debt \in Nat, debt <= s.total,
           debt = s.total \/ debt * Q >= s.errLoss, Loss(s, debt) <= Q,
           NEW collateral \in Nat, Absorb(s, debt, collateral).p > 0
    PROVE  Absorbs(s, debt, Absorb(s, debt, collateral))
<1> DEFINE factor == Q - Loss(s, debt)
           errLoss == LossError(s, debt)
           g == Gained(s, collateral, errLoss)
           h == Shrink(g, factor)
           t == Absorb(s, debt, collateral)
<1>0. s.total \in Nat
  BY SoundParts
<1>1. factor \in 0 .. Q /\ errLoss \in Nat
  <2>1. factor \in 0 .. Q /\ errLoss \in 0 .. s.total
    BY LossFacts
  <2> QED BY <1>0, <2>1
<1>2. t = [h EXCEPT !.total = @ - debt, !.collateral = @ + collateral]
  BY DEF Absorb, Gained
<1> HIDE DEF factor, errLoss, t
<1>3. /\ SoundPool(g) /\ CellsGrow(s.cells, g.cells)
      /\ g.p = s.p /\ g.epoch = s.epoch /\ g.scale = s.scale
      /\ g.errLoss = errLoss /\ g.total = s.total /\ g.collateral = s.collateral
  BY <1>1, GainedSound
<1> HIDE DEF g
<1>4. t.p = h.p
  <2> HIDE DEF h
  <2> QED BY <1>2
<1>5. h.p > 0
  BY <1>4 DEF t
<1>6. /\ SoundPool(h) /\ CellsGrow(g.cells, h.cells) /\ Falls(g, h, factor)
      /\ factor = 0 => h.epoch = g.epoch + 1
      /\ h.errLoss = g.errLoss /\ h.total = g.total /\ h.collateral = g.collateral
  BY <1>1, <1>3, <1>5, ShrinkSound
<1> HIDE DEF h
<1>7. CellsGrow(s.cells, h.cells)
  <2>1. s.cells \in Seq(Seq(CellSums)) /\ g.cells \in Seq(Seq(CellSums)) /\ h.cells \in Seq(Seq(CellSums))
    BY <1>3, <1>6, SoundParts
  <2> QED BY <1>3, <1>6, <2>1, GrowthSteps
<1>8. h \in Pools /\ h.total = s.total /\ h.collateral \in Int
  BY <1>3, <1>6, PoolFields DEF SoundPool
<1>9. t = Balanced(h, s.total - debt, h.collateral + collateral, h.paid)
  BY <1>2, <1>8 DEF Pools, Balanced
<1>10. /\ SoundPool(t) /\ SameProduct(h, t) /\ t.total = s.total - debt /\ t.cells = h.cells
  <2>1. s.total - debt \in Nat /\ h.collateral + collateral \in Int /\ h.paid \in Int
    BY <1>0, <1>8, PoolFields
  <2> QED BY <1>6, <1>9, <2>1, BalancesSound
<1>11. Falls(s, t, factor)
  <2>1. h.p = t.p /\ h.epoch = t.epoch /\ h.scale = t.scale
    BY <1>10 DEF SameProduct
  <2> QED BY <1>3, <1>6, <2>1 DEF Falls
<1>12. factor = 0 => t.epoch = s.epoch + 1
  BY <1>3, <1>6, <1>10 DEF SameProduct
<1>13. t.errLoss = errLoss
  BY <1>3, <1>6, <1>10 DEF SameProduct
<1> QED BY <1>7, <1>10, <1>11, <1>12, <1>13 DEF Absorbs, factor, errLoss, t

-----------------------------------------------------------------------------
(* The principal of a family of accounts, and what backs it. *)

\* Accounts opened at snapshots of the pool.
SoundAccounts(s, acc) ==
    /\ IsFiniteSet(DOMAIN acc)
    /\ \A o \in DOMAIN acc : acc[o].initial \in Nat /\ Taken(s, acc[o].snapshot)

\* The exact share v[o] / D of each account: at least what P leaves of it, and
\* together no more than the pool, the rounding of its largest offset, and
\* less what has been overcharged.
Backing(s, acc, most, D, v) ==
    /\ D \in Nat \ {0} /\ v \in [DOMAIN acc -> Nat]
    /\ \A o \in DOMAIN acc :
         Live(s, acc[o].snapshot) =>
             D * (acc[o].initial * s.p) <= v[o] * Unit(s, acc[o].snapshot)
    /\ Q * Total(v) <= D * (s.total * Q + most - s.errLoss)

Backed(s, acc, most) == \E D, v : Backing(s, acc, most, D, v)

Principals(s, acc) == [o \in DOMAIN acc |-> Compounded(s, acc[o].initial, acc[o].snapshot)]

\* No account may claim more than its exact share.
LEMMA ClaimWithinShare ==
    ASSUME NEW s, SoundPool(s), NEW acc, SoundAccounts(s, acc), NEW most, NEW D, NEW v,
           Backing(s, acc, most, D, v), NEW o \in DOMAIN acc
    PROVE  /\ Compounded(s, acc[o].initial, acc[o].snapshot) \in Nat /\ v[o] \in Nat
           /\ D * Compounded(s, acc[o].initial, acc[o].snapshot) <= v[o]
<1> DEFINE i == acc[o].initial
           snap == acc[o].snapshot
           c == Compounded(s, i, snap)
           u == Unit(s, snap)
<1>1. i \in Nat /\ snap \in Snapshots
  BY DEF SoundAccounts, Taken
<1>2. D \in Nat \ {0} /\ v[o] \in Nat /\ (Live(s, snap) => D * (i * s.p) <= v[o] * u)
  BY DEF Backing
<1>3. s.p \in Nat
  BY SoundParts
<1> HIDE DEF i, snap
<1>4. /\ c \in Nat /\ u \in Nat \ {0} /\ (~Live(s, snap) => c = 0)
      /\ Live(s, snap) => c * u <= i * s.p
  BY <1>1, CompoundedBounds
<1> HIDE DEF c, u
<1>5. CASE ~Live(s, snap)
  <2>1. D * c = 0
    BY <1>2, <1>4, <1>5
  <2> QED BY <1>2, <1>4, <2>1 DEF c, i, snap
<1>6. CASE Live(s, snap)
  <2>1. c * u \in Int /\ i * s.p \in Int
    BY <1>1, <1>3, <1>4
  <2>2. D * (c * u) <= D * (i * s.p) /\ D * (c * u) \in Int /\ D * (i * s.p) \in Int
    BY <1>2, <1>4, <1>6, <2>1, ProductMonotone
  <2>3. D * (c * u) = (D * c) * u /\ D * c \in Int /\ v[o] * u \in Int
    BY <1>2, <1>4
  <2>4. (D * c) * u <= v[o] * u
    BY <1>2, <1>6, <2>2, <2>3
  <2>5. D * c <= v[o]
    BY <1>2, <1>4, <2>3, <2>4, Cancel
  <2> QED BY <1>2, <1>4, <2>5 DEF c, i, snap
<1> QED BY <1>5, <1>6

\* The accounts together may claim what backs them.
LEMMA ClaimsBacked ==
    ASSUME NEW s, SoundPool(s), NEW acc, SoundAccounts(s, acc), NEW most \in Nat, Backed(s, acc, most)
    PROVE  /\ Total(Principals(s, acc)) \in Nat
           /\ Total(Principals(s, acc)) * Q <= s.total * Q + most
<1>1. PICK D, v : Backing(s, acc, most, D, v)
  BY DEF Backed
<1> DEFINE c == Principals(s, acc)
           S == DOMAIN acc
           rest == s.total * Q + most - s.errLoss
<1>2. /\ D \in Nat \ {0} /\ D \in Int /\ v \in [S -> Nat] /\ v \in [S -> Int]
      /\ Q * Total(v) <= D * rest
  BY <1>1 DEF Backing
<1>3. IsFiniteSet(S)
  BY DEF SoundAccounts
<1>4. \A o \in S : c[o] \in Nat /\ D * c[o] <= v[o]
  <2> TAKE o \in S
  <2>1. c[o] = Compounded(s, acc[o].initial, acc[o].snapshot)
    BY DEF Principals
  <2> HIDE DEF c
  <2> QED BY <1>1, <2>1, ClaimWithinShare
<1>5. c = [o \in S |-> c[o]]
  BY DEF Principals
<1>6. s.total \in Nat /\ s.errLoss \in Nat
  BY SoundParts
<1> HIDE DEF c, S
<1>7. c \in [S -> Nat] /\ c \in [S -> Int]
  BY <1>4, <1>5
<1>8. Total(c) \in Nat /\ Total(v) \in Nat
  <2>1. S \in SUBSET S
    OBVIOUS
  <2> QED BY <1>2, <1>3, <1>7, <2>1, PartsWithinSum
<1>9. D * Total(c) <= 1 * Total(v)
  <2>1. \A o \in S : D * c[o] <= 1 * v[o]
    BY <1>2, <1>4
  <2>2. 1 \in Int
    OBVIOUS
  <2> QED BY <1>2, <1>3, <1>7, <2>1, <2>2, SumsCompare
<1>10. rest \in Int
  BY <1>6, Units
<1> HIDE DEF rest
<1> DEFINE C == Total(c)
           V == Total(v)
<1>11. C \in Nat /\ V \in Nat /\ D * C <= V /\ Q * V <= D * rest
  BY <1>2, <1>8, <1>9
<1> HIDE DEF C, V
<1>12. Q * (D * C) <= Q * V /\ Q * (D * C) \in Int /\ Q * V \in Int /\ D * rest \in Int
  BY <1>2, <1>10, <1>11, Units
<1>13. Q * (D * C) = (C * Q) * D /\ D * rest = rest * D /\ C * Q \in Int
  BY <1>2, <1>10, <1>11, Units
<1>14. (C * Q) * D <= rest * D
  BY <1>11, <1>12, <1>13
<1>15. C * Q <= rest
  BY <1>2, <1>10, <1>13, <1>14, Cancel
<1>16. rest <= s.total * Q + most /\ s.total * Q + most \in Int
  BY <1>6, Units DEF rest
<1> QED BY <1>8, <1>10, <1>13, <1>15, <1>16 DEF C, c

\* Only the product, the total and the overcharge matter.
LEMMA BackedSame ==
    ASSUME NEW s, NEW t, SameProduct(s, t), t.total = s.total, NEW acc, NEW most
    PROVE  /\ Backed(s, acc, most) => Backed(t, acc, most)
           /\ SoundAccounts(s, acc) => SoundAccounts(t, acc)
<1>1. t.p = s.p /\ t.errLoss = s.errLoss
  BY DEF SameProduct
<1>2. \A snap : Live(t, snap) = Live(s, snap) /\ Unit(t, snap) = Unit(s, snap) /\ Taken(t, snap) = Taken(s, snap)
  BY DEF SameProduct, Live, Unit, Taken
<1>3. SoundAccounts(s, acc) => SoundAccounts(t, acc)
  BY <1>2 DEF SoundAccounts
<1>4. ASSUME NEW D, NEW v, Backing(s, acc, most, D, v) PROVE Backing(t, acc, most, D, v)
  BY <1>1, <1>2, <1>4 DEF Backing
<1> QED BY <1>3, <1>4 DEF Backed

\* The bound on the shares after an offset: they are scaled by factor / Q, the
\* pool by at least as much, and the part of the rounding that is scaled away
\* was not yet charged.
LEMMA OffsetArithmetic ==
    ASSUME NEW n \in Nat, NEW debt \in Nat, NEW loss \in 0 .. Q, NEW e \in Nat, NEW e2 \in Nat,
           NEW most \in Nat, NEW most2 \in Nat, e <= most, most <= most2,
           loss * n = debt * Q - e + e2,
           NEW D \in Nat \ {0}, NEW V \in Nat, NEW W \in Nat,
           Q * V <= D * (n * Q + most - e), W <= (Q - loss) * V
    PROVE  Q * W <= (D * Q) * ((n - debt) * Q + most2 - e2)
<1> DEFINE f == Q - loss
           a == n * Q + most - e
           b == (n - debt) * Q + most2 - e2
<1>1. Q \in Nat /\ loss \in Nat /\ f \in Nat /\ f <= Q
  BY Units
<1>2. a \in Int /\ b \in Int
  BY <1>1
<1>3. f * a <= Q * b
  <2>1. f * a = Q * (Q * n) - Q * (loss * n) + f * (most - e)
    <3>1. f * a = f * (n * Q) + f * (most - e)
      BY <1>1
    <3>2. f * (n * Q) = Q * (Q * n) - Q * (loss * n)
      BY <1>1
    <3>3. f * (n * Q) \in Int /\ f * (most - e) \in Int
      BY <1>1
    <3> QED BY <3>1, <3>2, <3>3
  <2>2. f * (most - e) <= Q * (most - e)
    <3>1. most - e \in Nat
      OBVIOUS
    <3> QED BY <1>1, <3>1, ProductMonotone
  <2>3. Q * (most - e) <= Q * (most2 - e)
    <3>1. most - e \in Int /\ most2 - e \in Int /\ most - e <= most2 - e
      OBVIOUS
    <3> QED BY <1>1, <3>1, ProductMonotone
  <2>4. Q * (loss * n) = Q * (debt * Q - e + e2)
    OBVIOUS
  <2>5. Q * b = Q * (Q * n) - Q * (debt * Q - e + e2) + Q * (most2 - e)
    BY <1>1
  <2>6. /\ Q * (Q * n) \in Int /\ Q * (debt * Q - e + e2) \in Int /\ f * (most - e) \in Int
        /\ Q * (most - e) \in Int /\ Q * (most2 - e) \in Int
    BY <1>1
  <2> HIDE DEF f, a, b
  <2> QED BY <2>1, <2>2, <2>3, <2>4, <2>5, <2>6
<1> HIDE DEF f, a, b
<1>4. W <= f * V /\ Q * V <= D * a
  BY DEF f, a
<1>5. Q * W <= Q * (f * V) /\ Q * (f * V) = f * (Q * V) /\ Q * W \in Int /\ f * (Q * V) \in Int
  BY <1>1, <1>4
<1>6. f * (Q * V) <= f * (D * a) /\ f * (D * a) = D * (f * a) /\ D * (f * a) \in Int
  <2>1. Q * V \in Int /\ D * a \in Int
    BY <1>1, <1>2
  <2>2. f * (Q * V) <= f * (D * a)
    BY <1>1, <1>4, <2>1, ProductMonotone
  <2> QED BY <1>1, <1>2, <2>2
<1>7. D * (f * a) <= D * (Q * b) /\ D * (Q * b) = (D * Q) * b /\ (D * Q) * b \in Int
  <2>1. f * a \in Int /\ Q * b \in Int /\ D \in Nat
    BY <1>1, <1>2
  <2>2. D * (f * a) <= D * (Q * b)
    BY <1>3, <2>1, ProductMonotone
  <2> QED BY <1>1, <1>2, <2>2
<1>8. Q * W <= (D * Q) * b
  BY <1>5, <1>6, <1>7
<1> QED BY <1>8 DEF b

\* An account after an offset: its exact share is scaled by factor / Q.
LEMMA ShareScaled ==
    ASSUME NEW s, SoundPool(s), NEW t, SoundPool(t), NEW factor, Falls(s, t, factor),
           NEW i \in Nat, NEW snap, Taken(s, snap), Live(t, snap),
           NEW D \in Nat \ {0}, NEW w \in Nat,
           Live(s, snap) => D * (i * s.p) <= w * Unit(s, snap)
    PROVE  (D * Q) * (i * t.p) <= (w * factor) * Unit(t, snap)
<1>1. /\ s.p \in Nat \ {0} /\ s.epoch \in Nat /\ s.scale \in Nat
      /\ t.p \in Nat \ {0} /\ t.epoch \in Nat /\ t.scale \in Nat
  BY SoundParts
<1>2. /\ snap \in Snapshots /\ snap.p \in Nat \ {0} /\ snap.epoch \in Nat /\ snap.scale \in Nat
      /\ snap.epoch <= s.epoch /\ (snap.epoch = s.epoch => snap.scale <= s.scale)
  BY DEF Taken, Snapshots
<1>3. factor \in Nat /\ Q \in Nat /\ SCALE \in Nat
  BY Units DEF Falls
<1>4. t.epoch = s.epoch /\ snap.epoch = s.epoch
  BY <1>1, <1>2 DEF Live, Falls
<1> DEFINE u == Unit(s, snap)
<1>5. u \in Nat
  BY <1>2, CompoundedBounds
\* From D i p <= w u, and t.p Q <= p factor k, to the scaled inequality.
<1>6. ASSUME NEW k \in Nat, D * (i * s.p) <= w * u, t.p * Q <= s.p * factor * k
      PROVE  (D * Q) * (i * t.p) <= (w * factor) * (u * k)
  <2> HIDE DEF u
  <2> DEFINE m == factor * k
             x == D * i
  <2>1. m \in Nat /\ x \in Nat /\ t.p * Q \in Int /\ s.p * m \in Int
    BY <1>1, <1>3
  <2>2. t.p * Q <= s.p * m
    BY <1>1, <1>3, <1>6
  <2>3. (D * Q) * (i * t.p) = x * (t.p * Q)
    BY <1>1, <1>3
  <2>4. (D * (i * s.p)) * m = x * (s.p * m) /\ D * (i * s.p) \in Int
    BY <1>1, <1>3
  <2>5. (w * u) * m = (w * factor) * (u * k) /\ w * u \in Int
    BY <1>3, <1>5
  <2> HIDE DEF m, x
  <2>6. x * (t.p * Q) <= x * (s.p * m) /\ x * (t.p * Q) \in Int /\ x * (s.p * m) \in Int
    BY <2>1, <2>2, ProductMonotone
  <2>7. (D * (i * s.p)) * m <= (w * u) * m /\ (w * u) * m \in Int
    BY <1>6, <2>1, <2>4, <2>5, ProductMonotone
  <2> QED BY <2>3, <2>4, <2>5, <2>6, <2>7
<1>7. CASE t.scale = s.scale + 1
  <2>1. snap.scale = s.scale /\ Live(s, snap)
    BY <1>1, <1>2, <1>4, <1>7 DEF Live
  <2>2. Unit(t, snap) = u * SCALE
    BY <1>1, <1>7, <2>1 DEF Unit
  <2>3. t.p * Q <= s.p * factor * SCALE
    BY <1>1, <1>4, <1>7 DEF Falls
  <2> HIDE DEF u
  <2> QED BY <1>3, <1>6, <2>1, <2>2, <2>3 DEF u
<1>8. CASE t.scale = s.scale
  <2>1. Live(s, snap) /\ Unit(t, snap) = u
    BY <1>4, <1>8 DEF Live, Unit
  <2>2. t.p * Q <= s.p * factor * 1 /\ u * 1 = u
    BY <1>1, <1>3, <1>4, <1>5, <1>8 DEF Falls
  <2>3. D * (i * s.p) <= w * u
    BY <2>1
  <2> HIDE DEF u
  <2>4. (D * Q) * (i * t.p) <= (w * factor) * (u * 1)
    BY <1>6, <2>2, <2>3
  <2> QED BY <2>1, <2>2, <2>4
<1> QED BY <1>1, <1>4, <1>7, <1>8 DEF Falls

\* An offset leaves the accounts backed, by what is left of the pool.
LEMMA BackedOffset ==
    ASSUME NEW s, SoundPool(s), s.total > 0, NEW debt \in Nat, debt <= s.total,
           debt = s.total \/ debt * Q >= s.errLoss, Loss(s, debt) <= Q,
           NEW t, Absorbs(s, debt, t),
           NEW acc, SoundAccounts(s, acc), NEW most \in Nat, s.errLoss <= most,
           Backed(s, acc, most), NEW most2 \in Nat, most <= most2, s.total <= most2
    PROVE  Backed(t, acc, most2) /\ SoundAccounts(t, acc) /\ t.errLoss <= most2
<1>1. /\ SoundPool(t) /\ Falls(s, t, Q - Loss(s, debt))
      /\ Q - Loss(s, debt) = 0 => t.epoch = s.epoch + 1
      /\ t.total = s.total - debt /\ t.errLoss = LossError(s, debt)
  BY DEF Absorbs
<1>2. /\ Loss(s, debt) \in 0 .. Q /\ Q - Loss(s, debt) \in 0 .. Q
      /\ LossError(s, debt) \in 0 .. s.total
      /\ debt = s.total => Q - Loss(s, debt) = 0 /\ LossError(s, debt) = 0
      /\ debt # s.total => Loss(s, debt) * s.total = debt * Q - s.errLoss + LossError(s, debt)
  BY LossFacts
<1>3. s.total \in Nat /\ s.errLoss \in Nat /\ s.epoch \in Nat /\ t.p \in Nat
  BY <1>1, SoundParts
<1> DEFINE S == DOMAIN acc
           loss == Loss(s, debt)
           f == Q - loss
           e2 == LossError(s, debt)
<1>4. /\ IsFiniteSet(S)
      /\ \A o \in S : acc[o].initial \in Nat /\ Taken(s, acc[o].snapshot)
  BY DEF SoundAccounts
<1>5. SoundAccounts(t, acc)
  BY <1>1, <1>4, CompoundedFalls DEF SoundAccounts
<1>6. e2 \in Nat /\ e2 <= s.total /\ e2 <= most2 /\ f \in Nat /\ loss \in 0 .. Q
  BY <1>2, <1>3, Units
<1>7. CASE f = 0
  <2> DEFINE v == [o \in S |-> 0]
  <2>1. t.epoch = s.epoch + 1
    BY <1>1, <1>7
  <2>2. \A o \in S : ~Live(t, acc[o].snapshot)
    <3> TAKE o \in S
    <3>1. acc[o].snapshot.epoch \in Nat /\ acc[o].snapshot.epoch <= s.epoch
      BY <1>4 DEF Taken, Snapshots
    <3> QED BY <1>3, <2>1, <3>1 DEF Live
  <2>3. v \in [S -> Nat] /\ v \in [S -> Int]
    OBVIOUS
  <2>4. Total(v) = 0
    <3>1. \A o \in S : 1 * v[o] <= 0 * v[o]
      OBVIOUS
    <3>2. 1 \in Int /\ 0 \in Int /\ S \in SUBSET S
      OBVIOUS
    <3> HIDE DEF v
    <3>3. 1 * Total(v) <= 0 * Total(v)
      BY <1>4, <2>3, <3>1, <3>2, SumsCompare
    <3>4. Total(v) \in Nat
      BY <1>4, <2>3, <3>2, PartsWithinSum
    <3> QED BY <3>3, <3>4
  <2> HIDE DEF v
  <2>5. Q * Total(v) <= 1 * (t.total * Q + most2 - t.errLoss)
    <3>1. t.total \in Nat /\ t.errLoss = e2
      BY <1>1, <1>3
    <3>2. t.total * Q \in Nat
      BY <3>1, Units
    <3> HIDE DEF e2
    <3> QED BY <1>6, <2>4, <3>1, <3>2, Units
  <2>6. Backing(t, acc, most2, 1, v)
    BY <2>2, <2>3, <2>5 DEF Backing
  <2> QED BY <1>1, <1>5, <1>6, <2>6 DEF Backed
<1>8. CASE f # 0
  <2>0. debt # s.total /\ loss * s.total = debt * Q - s.errLoss + e2
    BY <1>2, <1>8
  <2>1. PICK D, v : Backing(s, acc, most, D, v)
    BY DEF Backed
  <2>2. /\ D \in Nat \ {0} /\ v \in [S -> Nat] /\ v \in [S -> Int]
        /\ \A o \in S : Live(s, acc[o].snapshot) =>
                            D * (acc[o].initial * s.p) <= v[o] * Unit(s, acc[o].snapshot)
        /\ Q * Total(v) <= D * (s.total * Q + most - s.errLoss)
    BY <2>1 DEF Backing
  <2> DEFINE w == [o \in S |-> v[o] * f]
  <2>3. \A o \in S : v[o] \in Nat /\ w[o] = v[o] * f /\ w[o] \in Nat
    BY <1>6, <2>2
  <2>4. w \in [S -> Nat] /\ w \in [S -> Int]
    BY <2>3
  <2>5. \A o \in S : Live(t, acc[o].snapshot) =>
                         (D * Q) * (acc[o].initial * t.p) <= w[o] * Unit(t, acc[o].snapshot)
    <3> TAKE o \in S
    <3> HAVE Live(t, acc[o].snapshot)
    <3> DEFINE i == acc[o].initial
               snap == acc[o].snapshot
    <3>1. i \in Nat /\ Taken(s, snap) /\ (Live(s, snap) => D * (i * s.p) <= v[o] * Unit(s, snap))
      BY <1>4, <2>2
    <3>2. Falls(s, t, f) /\ Live(t, snap) /\ SoundPool(t) /\ v[o] \in Nat /\ D \in Nat \ {0}
      BY <1>1, <2>2, <2>3
    <3> HIDE DEF i, snap, f, w
    <3>3. (D * Q) * (i * t.p) <= (v[o] * f) * Unit(t, snap)
      BY <3>1, <3>2, ShareScaled
    <3> QED BY <2>3, <3>3 DEF i, snap
  <2> HIDE DEF w, f
  <2>6. Total(w) \in Nat /\ Total(v) \in Nat
    <3>1. S \in SUBSET S
      OBVIOUS
    <3> QED BY <1>4, <2>2, <2>4, <3>1, PartsWithinSum
  <2>7. 1 * Total(w) <= f * Total(v)
    <3>1. \A o \in S : 1 * w[o] <= f * v[o]
      BY <1>6, <2>3
    <3>2. 1 \in Int /\ f \in Int
      BY <1>6
    <3> QED BY <1>4, <2>2, <2>4, <3>1, <3>2, SumsCompare
  <2>8. Q * Total(w) <= (D * Q) * ((s.total - debt) * Q + most2 - e2)
    <3>1. Total(w) <= (Q - loss) * Total(v)
      BY <2>6, <2>7 DEF f
    <3> HIDE DEF loss, e2
    <3> QED BY <1>3, <1>6, <2>0, <2>2, <2>6, <3>1, OffsetArithmetic
  <2>9. D * Q \in Nat \ {0}
    BY <2>2, Units, ProductNat
  <2>10. Backing(t, acc, most2, D * Q, w)
    BY <1>1, <2>4, <2>5, <2>8, <2>9 DEF Backing
  <2> QED BY <1>1, <1>5, <1>6, <2>10 DEF Backed
<1> QED BY <1>7, <1>8

\* The account of a is opened, changed by what comes in and goes out, or
\* closed; the others stay.
Replaced(s, t, acc, acc2, a, old, input, output) ==
    /\ SameProduct(s, t) /\ t.total = s.total + input - output
    /\ DOMAIN acc2 \ {a} = DOMAIN acc \ {a}
    /\ \A o \in DOMAIN acc \ {a} :
         acc2[o].initial = acc[o].initial /\ acc2[o].snapshot = acc[o].snapshot
    /\ old = IF a \in DOMAIN acc THEN Compounded(s, acc[a].initial, acc[a].snapshot) ELSE 0
    /\ a \in DOMAIN acc2 =>
         /\ acc2[a].initial = old + input - output /\ acc2[a].snapshot \in Snapshots
         /\ acc2[a].snapshot.p = t.p /\ acc2[a].snapshot.epoch = t.epoch
         /\ acc2[a].snapshot.scale = t.scale
    /\ a \notin DOMAIN acc2 => old + input - output = 0

\* The total and the account move by the same amount, and the accounts stay
\* backed.
LEMMA BackedReplaced ==
    ASSUME NEW s, SoundPool(s), NEW t, SoundPool(t), NEW acc, SoundAccounts(s, acc), NEW acc2,
           NEW a, NEW old, NEW input \in Nat, NEW output \in Nat, old + input - output \in Nat,
           Replaced(s, t, acc, acc2, a, old, input, output),
           NEW most \in Nat, Backed(s, acc, most)
    PROVE  Backed(t, acc2, most) /\ SoundAccounts(t, acc2)
<1> DEFINE S == DOMAIN acc
           S2 == DOMAIN acc2
           R == S \ {a}
           rest == old + input - output
<1>1. /\ SameProduct(s, t) /\ t.total = s.total + input - output /\ S2 \ {a} = R
      /\ \A o \in R : acc2[o].initial = acc[o].initial /\ acc2[o].snapshot = acc[o].snapshot
      /\ old = IF a \in S THEN Compounded(s, acc[a].initial, acc[a].snapshot) ELSE 0
      /\ a \notin S2 => rest = 0
  BY DEF Replaced
<1>2. a \in S2 => /\ acc2[a].initial = rest /\ acc2[a].snapshot \in Snapshots
                  /\ acc2[a].snapshot.p = t.p /\ acc2[a].snapshot.epoch = t.epoch
                  /\ acc2[a].snapshot.scale = t.scale
  BY DEF Replaced
<1>3. /\ IsFiniteSet(S)
      /\ \A o \in S : acc[o].initial \in Nat /\ Taken(s, acc[o].snapshot)
  BY DEF SoundAccounts
<1>4. IsFiniteSet(R) /\ IsFiniteSet(S2)
  <2>1. IsFiniteSet(R) /\ IsFiniteSet(S \cup {a})
    BY <1>3, FS_RemoveElement, FS_AddElement
  <2>2. S2 \in SUBSET (S \cup {a})
    BY <1>1
  <2> QED BY <2>1, <2>2, FS_Subset
<1>5. /\ t.p = s.p /\ t.epoch = s.epoch /\ t.scale = s.scale /\ t.errLoss = s.errLoss
      /\ \A snap : Live(t, snap) = Live(s, snap) /\ Unit(t, snap) = Unit(s, snap)
                   /\ Taken(t, snap) = Taken(s, snap)
  BY <1>1 DEF SameProduct, Live, Unit, Taken
<1>6. s.total \in Nat /\ s.errLoss \in Nat /\ s.p \in Nat /\ s.epoch \in Nat /\ s.scale \in Nat
  BY SoundParts
<1>7. rest \in Nat
  OBVIOUS
<1>8. SoundAccounts(t, acc2)
  <2>1. ASSUME NEW o \in S2 PROVE acc2[o].initial \in Nat /\ Taken(t, acc2[o].snapshot)
    <3>1. CASE o = a
      BY <1>2, <1>5, <1>6, <1>7, <3>1 DEF Taken
    <3>2. CASE o # a
      <4>1. o \in R
        BY <1>1, <3>2
      <4> QED BY <1>1, <1>3, <1>5, <4>1
    <3> QED BY <3>1, <3>2
  <2> QED BY <1>4, <2>1 DEF SoundAccounts
<1>9. PICK D, v : Backing(s, acc, most, D, v)
  BY DEF Backed
<1>10. /\ D \in Nat \ {0} /\ D \in Nat /\ v \in [S -> Nat] /\ v \in [S -> Int]
       /\ \A o \in S : Live(s, acc[o].snapshot) =>
                           D * (acc[o].initial * s.p) <= v[o] * Unit(s, acc[o].snapshot)
       /\ Q * Total(v) <= D * (s.total * Q + most - s.errLoss)
  BY <1>9 DEF Backing
<1> DEFINE w == [o \in S2 |-> IF o = a THEN D * rest ELSE v[o]]
           T == Total(On(v, R))
<1>11. old \in Nat /\ Total(v) >= D * old + T /\ T \in Nat /\ Total(v) \in Nat
  <2>1. R \in SUBSET S
    OBVIOUS
  <2>2. T \in Nat /\ Total(v) \in Nat /\ T <= Total(v)
    BY <1>3, <1>10, <2>1, PartsWithinSum
  <2>3. CASE a \in S
    <3>1. old \in Nat /\ v[a] \in Nat /\ D * old <= v[a]
      BY <1>1, <1>9, <2>3, ClaimWithinShare
    <3>2. Total(v) = v[a] + T
      BY <1>3, <1>10, <2>3, SumWithout
    <3>3. D * old \in Nat
      BY <1>10, <3>1
    <3> HIDE DEF T
    <3> QED BY <2>2, <3>1, <3>2, <3>3
  <2>4. CASE a \notin S
    <3>1. old = 0 /\ D * old = 0
      BY <1>1, <1>10, <2>4
    <3> HIDE DEF T
    <3> QED BY <2>2, <3>1
  <2> QED BY <2>3, <2>4
<1>12. D * rest \in Nat
  BY <1>7, <1>10
<1>13. w \in [S2 -> Nat] /\ w \in [S2 -> Int] /\ (a \in S2 => w[a] = D * rest) /\ On(w, R) = On(v, R)
  <2>1. \A o \in S2 : o # a => o \in R /\ v[o] \in Nat
    BY <1>1, <1>10
  <2>2. \A o \in R : o \in S2 /\ o # a /\ w[o] = v[o]
    BY <1>1
  <2> HIDE DEF rest
  <2> QED BY <1>12, <2>1, <2>2 DEF On
<1>14. Total(w) <= D * rest + T /\ Total(w) \in Nat
  <2> HIDE DEF w, rest
  <2>1. CASE a \in S2
    <3>1. Total(w) = w[a] + Total(On(w, S2 \ {a}))
      BY <1>4, <1>13, <2>1, SumWithout
    <3>2. Total(w) = D * rest + T
      BY <1>1, <1>13, <2>1, <3>1
    <3> HIDE DEF T
    <3> QED BY <1>11, <1>12, <3>2
  <2>2. CASE a \notin S2
    <3>1. S2 = R /\ rest = 0
      BY <1>1, <2>2
    <3>2. On(w, R) = w
      BY <1>13, <3>1 DEF On
    <3>3. Total(w) = T
      BY <1>13, <3>2
    <3> HIDE DEF T
    <3> QED BY <1>11, <1>12, <3>3
  <2> QED BY <2>1, <2>2
<1>15. \A o \in S2 : Live(t, acc2[o].snapshot) =>
                         D * (acc2[o].initial * t.p) <= w[o] * Unit(t, acc2[o].snapshot)
  <2> TAKE o \in S2
  <2> HAVE Live(t, acc2[o].snapshot)
  <2>1. CASE o = a
    <3>1. w[o] = D * rest /\ acc2[o].initial = rest
      BY <1>2, <1>13, <2>1
    <3>2. Unit(t, acc2[o].snapshot) = t.p
      BY <1>2, <2>1 DEF Unit
    <3>3. D * (rest * t.p) = (D * rest) * t.p /\ D * (rest * t.p) \in Int
      BY <1>5, <1>6, <1>7, <1>10
    <3> QED BY <3>1, <3>2, <3>3
  <2>2. CASE o # a
    <3>1. o \in R /\ w[o] = v[o] /\ o \in S
      BY <1>1, <2>2
    <3>2. acc2[o].initial = acc[o].initial /\ acc2[o].snapshot = acc[o].snapshot
      BY <1>1, <3>1
    <3> HIDE DEF w, rest
    <3> QED BY <1>5, <1>10, <3>1, <3>2
  <2> QED BY <2>1, <2>2
<1>16. Q * Total(w) <= D * (t.total * Q + most - t.errLoss)
  <2> DEFINE W == Total(w)
             V == Total(v)
             n == s.total
             e == s.errLoss
             move == input - output
  <2>1. /\ W \in Nat /\ V \in Nat /\ T \in Nat /\ old \in Nat /\ W <= D * rest + T
        /\ D * old + T <= V /\ Q * V <= D * (n * Q + most - e) /\ n \in Nat /\ e \in Nat
        /\ rest = old + move /\ move \in Int
    BY <1>6, <1>10, <1>11, <1>14
  <2>2. t.total = n + move /\ t.errLoss = e
    BY <1>1, <1>5, <1>6
  <2> HIDE DEF W, V, n, e, T, rest, move
  <2>3. D * rest = D * old + D * move /\ D * old \in Int /\ D * move \in Int
    BY <1>10, <2>1
  <2>4. W <= V + D * move
    BY <2>1, <2>3
  <2>5. Q * W <= Q * (V + D * move)
    BY <2>1, <2>3, <2>4, Units, ProductMonotone
  <2>6. Q * (V + D * move) = Q * V + Q * (D * move) /\ Q * V \in Int /\ Q * (D * move) \in Int
    BY <2>1, <2>3, Units
  <2>7. Q * (D * move) = D * (move * Q)
    BY <1>10, <2>1, Units
  <2>8. D * ((n + move) * Q + most - e) = D * (n * Q + most - e) + D * (move * Q)
    <3>1. (n + move) * Q + most - e = (n * Q + most - e) + move * Q
      BY <2>1, Units
    <3>2. n * Q + most - e \in Int /\ move * Q \in Int
      BY <2>1, Units
    <3> QED BY <1>10, <3>1, <3>2
  <2>9. D * (n * Q + most - e) \in Int /\ D * (move * Q) \in Int /\ Q * W \in Int
    BY <1>10, <2>1, Units
  <2>10. Q * W <= D * ((n + move) * Q + most - e)
    BY <2>1, <2>5, <2>6, <2>7, <2>8, <2>9
  <2> QED BY <2>2, <2>10 DEF W
<1>17. Backing(t, acc2, most, D, w)
  <2> HIDE DEF w
  <2> QED BY <1>10, <1>13, <1>15, <1>16 DEF Backing
<1> QED BY <1>8, <1>17 DEF Backed

-----------------------------------------------------------------------------
(* The inductive invariant. *)

DepositType == [initial: Nat, tag: Owners \cup {NoTag}, snapshot: Snapshots]
FrontType == [kickback: Int, initial: Nat, snapshot: Snapshots]

\* The stakes of the front ends, and beside them the deposits without one: a
\* change moves the total by as much as one of these.
Stakes(ds, fs) ==
    [o \in DOMAIN fs \cup {d \in DOMAIN ds : ds[d].tag = NoTag} |->
        IF o \in DOMAIN fs THEN fs[o] ELSE ds[o]]

\* Deposits and front ends are of different owners, and a deposit's front end
\* is registered.
SoundOwners(ds, fs) ==
    /\ DOMAIN ds \subseteq Owners /\ \A o \in DOMAIN ds : ds[o] \in DepositType
    /\ DOMAIN fs \subseteq Owners /\ \A o \in DOMAIN fs : fs[o] \in FrontType
    /\ \A o \in DOMAIN ds : o \notin DOMAIN fs /\ ds[o].tag \in DOMAIN fs \cup {NoTag}

SoundBook(s, ds, fs, most) ==
    /\ SoundPool(s) /\ most \in Nat /\ s.errLoss <= most
    /\ SoundOwners(ds, fs)
    /\ SoundAccounts(s, ds) /\ Backed(s, ds, most)
    /\ SoundAccounts(s, Stakes(ds, fs)) /\ Backed(s, Stakes(ds, fs), most)

IInv ==
    /\ SoundBook(pool, deposits, fronts, peak)
    /\ moved \in [Owners -> Int]
    /\ NoPrincipalGain

\* What ClaimsUntouched says of one step.
Untouched ==
    \A o \in DOMAIN deposits \cap DOMAIN deposits' :
        deposits'[o] = deposits[o] =>
            LET d == deposits[o]
                principal == Compounded(pool, d.initial, d.snapshot)
                after == Compounded(pool', d.initial, d.snapshot)
            IN  /\ CollateralGain(pool', d.initial, d.snapshot)
                     >= CollateralGain(pool, d.initial, d.snapshot)
                /\ TokenGain(pool', d.initial, d.snapshot)
                     >= TokenGain(pool, d.initial, d.snapshot)
                /\ IF offsets' = offsets THEN after = principal ELSE after <= principal

Kept == IInv' /\ Untouched

\* What the invariant says of one deposit.
LEMMA DepositFacts ==
    ASSUME IInv, NEW o \in DOMAIN deposits
    PROVE  /\ SoundPool(pool) /\ deposits[o] \in DepositType /\ deposits[o].initial \in Nat
           /\ Taken(pool, deposits[o].snapshot) /\ deposits[o].snapshot \in Snapshots
           /\ Compounded(pool, deposits[o].initial, deposits[o].snapshot) \in Nat
<1>1. SoundPool(pool) /\ SoundOwners(deposits, fronts) /\ SoundAccounts(pool, deposits)
  BY DEF IInv, SoundBook
<1>2. /\ deposits[o] \in DepositType /\ deposits[o].initial \in Nat
      /\ Taken(pool, deposits[o].snapshot) /\ deposits[o].snapshot \in Snapshots
  BY <1>1 DEF SoundOwners, SoundAccounts, Taken
<1> QED BY <1>1, <1>2, CompoundedBounds

\* A step that lets the sums grow and leaves or, by an offset, lowers the
\* principals leaves deposits untouched.
LEMMA GrowthUntouched ==
    ASSUME IInv, SoundPool(pool'), CellsGrow(pool.cells, pool'.cells),
           \A o \in DOMAIN deposits :
               LET d == deposits[o]
                   principal == Compounded(pool, d.initial, d.snapshot)
                   after == Compounded(pool', d.initial, d.snapshot)
               IN  IF offsets' = offsets THEN after = principal ELSE after <= principal
    PROVE  Untouched
<1>1. ASSUME NEW o \in DOMAIN deposits
      PROVE  /\ CollateralGain(pool', deposits[o].initial, deposits[o].snapshot)
                  >= CollateralGain(pool, deposits[o].initial, deposits[o].snapshot)
             /\ TokenGain(pool', deposits[o].initial, deposits[o].snapshot)
                  >= TokenGain(pool, deposits[o].initial, deposits[o].snapshot)
  <2>1. SoundPool(pool) /\ deposits[o].initial \in Nat /\ Taken(pool, deposits[o].snapshot)
    BY DepositFacts
  <2> QED BY <2>1, GainsKept
<1> QED BY <1>1 DEF Untouched

\* The initial pool.
LEMMA InitIInv ==
    ASSUME Init
    PROVE  IInv
<1>1. /\ pool = [total |-> 0, p |-> Q, epoch |-> 0, scale |-> 0, errS |-> 0, errLoss |-> 0,
                 errG |-> 0, collateral |-> 0, remaining |-> FundedCap, allocated |-> 0,
                 missed |-> 0, paid |-> 0, cells |-> << <<NoSums>> >>]
      /\ DOMAIN deposits = {} /\ DOMAIN fronts = {} /\ peak = 0
      /\ moved = [o \in Owners |-> 0]
  BY DEF Init
<1>2. SoundPool(pool)
  <2>1. << <<NoSums>> >> \in Seq(Seq(CellSums))
    <3>1. <<NoSums>> \in Seq(CellSums)
      BY DEF NoSums, CellSums
    <3> QED BY <3>1
  <2>2. FundedCap \in Int /\ Q \in Nat \ {0}
    BY PoolAssumption, Units
  <2>3. pool \in Pools
    <3> DEFINE c == << <<NoSums>> >>
    <3>1. c \in Seq(Seq(CellSums))
      BY <2>1
    <3>2. pool = [total |-> 0, p |-> Q, epoch |-> 0, scale |-> 0, errS |-> 0, errLoss |-> 0,
                  errG |-> 0, collateral |-> 0, remaining |-> FundedCap, allocated |-> 0,
                  missed |-> 0, paid |-> 0, cells |-> c]
      BY <1>1
    <3> HIDE DEF c
    <3> QED BY <2>2, <3>1, <3>2 DEF Pools
  <2>4. pool.cells = << <<NoSums>> >> /\ pool.epoch = 0 /\ pool.scale = 0
    BY <1>1
  <2>5. Len(<< <<NoSums>> >>) = 1 /\ << <<NoSums>> >>[1] = <<NoSums>> /\ Len(<<NoSums>>) = 1
    OBVIOUS
  <2> QED BY <2>3, <2>4, <2>5 DEF SoundPool
<1>3. ASSUME NEW acc, DOMAIN acc = {} PROVE SoundAccounts(pool, acc) /\ Backed(pool, acc, 0)
  <2>1. IsFiniteSet({})
    BY FS_EmptySet
  <2> DEFINE f == [x \in {} |-> 0]
  <2>2. f \in [{} -> Int] /\ f \in [{} -> Nat]
    OBVIOUS
  <2> HIDE DEF f
  <2>3. Total(On(f, {})) = 0 /\ On(f, {}) = f
    BY <2>1, <2>2, SumOfParts
  <2>4. Total(f) = 0
    BY <2>3
  <2>5. pool.total = 0 /\ pool.errLoss = 0
    BY <1>1
  <2>6. Q * Total(f) <= 1 * (pool.total * Q + 0 - pool.errLoss)
    BY <2>4, <2>5, Units
  <2>7. Backing(pool, acc, 0, 1, f)
    BY <1>3, <2>2, <2>6 DEF Backing
  <2> QED BY <1>3, <2>1, <2>7 DEF SoundAccounts, Backed
<1>4. DOMAIN Stakes(deposits, fronts) = {}
  BY <1>1 DEF Stakes
<1>5. SoundOwners(deposits, fronts)
  BY <1>1 DEF SoundOwners
<1>6. pool.errLoss <= peak /\ peak \in Nat
  BY <1>1
<1>7. SoundBook(pool, deposits, fronts, peak)
  BY <1>1, <1>2, <1>3, <1>4, <1>5, <1>6 DEF SoundBook
<1>8. moved \in [Owners -> Int] /\ NoPrincipalGain
  BY <1>1 DEF NoPrincipalGain
<1> QED BY <1>7, <1>8 DEF IInv

\* An offset.
LEMMA OffsetKeeps ==
    ASSUME IInv, NEW debt \in Nat, NEW collateral \in Nat, NEW amount \in Nat,
           Offset(debt, collateral, amount)
    PROVE  Kept
<1> DEFINE s == Issue(pool, amount)
           t == Absorb(s, debt, collateral)
<1>1. /\ pool.total > 0 /\ debt <= pool.total
      /\ debt = pool.total \/ debt * Q >= pool.errLoss
      /\ Loss(s, debt) <= Q /\ t.p > 0
      /\ pool' = t /\ offsets' = offsets + 1
      /\ peak' = (IF pool.total > peak THEN pool.total ELSE peak)
      /\ deposits' = deposits /\ fronts' = fronts /\ moved' = moved
  BY DEF Offset
<1>2. /\ SoundPool(pool) /\ peak \in Nat /\ pool.errLoss <= peak
      /\ SoundOwners(deposits, fronts)
      /\ SoundAccounts(pool, deposits) /\ Backed(pool, deposits, peak)
      /\ SoundAccounts(pool, Stakes(deposits, fronts)) /\ Backed(pool, Stakes(deposits, fronts), peak)
      /\ moved \in [Owners -> Int] /\ NoPrincipalGain
  BY DEF IInv, SoundBook
<1> HIDE DEF t, s
<1>3. /\ SoundPool(s) /\ SameProduct(pool, s) /\ s.total = pool.total
      /\ CellsGrow(pool.cells, s.cells)
  BY <1>2, IssueSound DEF s
<1>4. s.total > 0 /\ debt <= s.total /\ (debt = s.total \/ debt * Q >= s.errLoss) /\ s.errLoss <= peak
  BY <1>1, <1>2, <1>3 DEF SameProduct
<1>5. Absorbs(s, debt, t)
  BY <1>1, <1>3, <1>4, AbsorbSound DEF t
<1>6. /\ SoundPool(t) /\ CellsGrow(s.cells, t.cells) /\ Falls(s, t, Q - Loss(s, debt))
  BY <1>5 DEF Absorbs
<1>7. peak' \in Nat /\ peak <= peak' /\ s.total <= peak'
  <2>1. pool.total \in Nat
    BY <1>2, SoundParts
  <2> QED BY <1>1, <1>2, <1>3, <2>1
<1>8. /\ SoundAccounts(s, deposits) /\ Backed(s, deposits, peak)
      /\ SoundAccounts(s, Stakes(deposits, fronts)) /\ Backed(s, Stakes(deposits, fronts), peak)
  BY <1>2, <1>3, BackedSame
<1>9. Backed(t, deposits, peak') /\ SoundAccounts(t, deposits) /\ t.errLoss <= peak'
  BY <1>1, <1>2, <1>3, <1>4, <1>5, <1>7, <1>8, BackedOffset
<1>10. Backed(t, Stakes(deposits, fronts), peak') /\ SoundAccounts(t, Stakes(deposits, fronts))
  BY <1>1, <1>2, <1>3, <1>4, <1>5, <1>7, <1>8, BackedOffset
<1>11. SoundBook(t, deposits, fronts, peak')
  BY <1>2, <1>6, <1>7, <1>9, <1>10 DEF SoundBook
<1>12. CellsGrow(pool.cells, t.cells)
  <2>1. pool.cells \in Seq(Seq(CellSums)) /\ s.cells \in Seq(Seq(CellSums)) /\ t.cells \in Seq(Seq(CellSums))
    BY <1>2, <1>3, <1>6, SoundParts
  <2> QED BY <1>3, <1>6, <2>1, GrowthSteps
<1>13. ASSUME NEW o \in DOMAIN deposits
       PROVE  /\ Compounded(t, deposits[o].initial, deposits[o].snapshot)
                   <= Compounded(pool, deposits[o].initial, deposits[o].snapshot)
              /\ Compounded(t, deposits[o].initial, deposits[o].snapshot) \in Nat
              /\ Compounded(pool, deposits[o].initial, deposits[o].snapshot) \in Nat
  <2> DEFINE i == deposits[o].initial
             snap == deposits[o].snapshot
  <2>1. i \in Nat /\ Taken(pool, snap) /\ snap \in Snapshots /\ Compounded(pool, i, snap) \in Nat
    BY DepositFacts
  <2> HIDE DEF i, snap
  <2>2. Compounded(s, i, snap) = Compounded(pool, i, snap) /\ Taken(s, snap)
    BY <1>3, <2>1, CompoundedSame
  <2>3. Compounded(t, i, snap) <= Compounded(s, i, snap)
    BY <1>3, <1>6, <2>1, <2>2, CompoundedFalls
  <2>4. Compounded(t, i, snap) \in Nat
    BY <1>6, <2>1, CompoundedBounds
  <2> QED BY <2>1, <2>2, <2>3, <2>4 DEF i, snap
<1>14. NoPrincipalGain'
  <2> SUFFICES ASSUME NEW o \in Owners
               PROVE  moved[o] >= IF o \in DOMAIN deposits
                                  THEN Compounded(t, deposits[o].initial, deposits[o].snapshot)
                                  ELSE 0
    BY <1>1 DEF NoPrincipalGain
  <2>1. moved[o] \in Int
    BY <1>2
  <2>2. moved[o] >= IF o \in DOMAIN deposits
                    THEN Compounded(pool, deposits[o].initial, deposits[o].snapshot) ELSE 0
    BY <1>2 DEF NoPrincipalGain
  <2> QED BY <1>13, <2>1, <2>2
<1>15. IInv'
  BY <1>1, <1>2, <1>11, <1>14 DEF IInv
<1>16. Untouched
  BY <1>1, <1>6, <1>12, <1>13, GrowthUntouched
<1> QED BY <1>15, <1>16 DEF Kept

\* A gain is an integer.
LEMMA GainTyped ==
    ASSUME NEW s, SoundPool(s), NEW i \in Nat, NEW snap, Taken(s, snap)
    PROVE  CollateralGain(s, i, snap) \in Int /\ TokenGain(s, i, snap) \in Int
<1>1. /\ snap.s \in Nat /\ snap.g \in Nat /\ snap.epoch \in Nat /\ snap.p \in Nat \ {0}
      /\ snap.scale \in Nat /\ snap.scale + 1 \in Nat /\ snap.epoch <= s.epoch
  BY DEF Taken, Snapshots
<1>2. CellsGrow(s.cells, s.cells)
  BY SoundParts, CellsStay
<1> DEFINE C(k) == Cell(s, snap.epoch, k)
<1>3. \A k \in Nat : C(k).s \in Nat /\ C(k).g \in Nat
  BY <1>1, <1>2, CellGrows
<1>4. ASSUME NEW before \in Nat, NEW first \in Nat, NEW second \in Nat
      PROVE  Gain(i, snap, before, first, second) \in Int
  <2> DEFINE a == (first - before + second \div SCALE) * i
             u == snap.p * Q
  <2>1. second \div SCALE \in Int
    BY Units, Floor
  <2>2. first - before + second \div SCALE \in Int
    BY <2>1
  <2>3. a \in Int /\ u \in Nat \ {0}
    BY <1>1, <2>2, Units, ProductNat
  <2>4. Gain(i, snap, before, first, second) = a \div u
    BY DEF Gain
  <2> HIDE DEF a, u
  <2> QED BY <2>3, <2>4, Floor
<1>5. /\ CollateralGain(s, i, snap) = Gain(i, snap, snap.s, C(snap.scale).s, C(snap.scale + 1).s)
      /\ TokenGain(s, i, snap) = Gain(i, snap, snap.g, C(snap.scale).g, C(snap.scale + 1).g)
  BY DEF CollateralGain, TokenGain
<1> HIDE DEF C
<1>6. /\ C(snap.scale).s \in Nat /\ C(snap.scale).g \in Nat
      /\ C(snap.scale + 1).s \in Nat /\ C(snap.scale + 1).g \in Nat
  BY <1>1, <1>3
<1>7. Gain(i, snap, snap.s, C(snap.scale).s, C(snap.scale + 1).s) \in Int
  BY <1>1, <1>4, <1>6
<1>8. Gain(i, snap, snap.g, C(snap.scale).g, C(snap.scale + 1).g) \in Int
  BY <1>1, <1>4, <1>6
<1> QED BY <1>5, <1>7, <1>8

\* The snapshot a change leaves.
LEMMA CurrentSnapshot ==
    ASSUME NEW s, SoundPool(s)
    PROVE  /\ Current(s) \in Snapshots /\ Current(s).p = s.p
           /\ Current(s).epoch = s.epoch /\ Current(s).scale = s.scale
<1>1. s.p \in Nat \ {0} /\ s.epoch \in Nat /\ s.scale \in Nat /\ CellsGrow(s.cells, s.cells)
  BY SoundParts, CellsStay
<1> DEFINE now == Cell(s, s.epoch, s.scale)
<1>2. now.s \in Nat /\ now.g \in Nat
  BY <1>1, CellGrows
<1>3. Current(s) = [p |-> s.p, s |-> now.s, g |-> now.g, epoch |-> s.epoch, scale |-> s.scale]
  BY DEF Current
<1> HIDE DEF now
<1> QED BY <1>1, <1>2, <1>3 DEF Snapshots

\* A pool whose claims are covered holds the principal of each of its accounts.
LEMMA HeldByPool ==
    ASSUME NEW s, SoundPool(s), NEW acc, SoundAccounts(s, acc), PrincipalOf(s, acc) <= s.total,
           NEW o \in DOMAIN acc
    PROVE  Compounded(s, acc[o].initial, acc[o].snapshot) <= s.total
<1> DEFINE c == Principals(s, acc)
           S == DOMAIN acc
<1>1. IsFiniteSet(S) /\ \A x \in S : acc[x].initial \in Nat /\ acc[x].snapshot \in Snapshots
  BY DEF SoundAccounts, Taken
<1>2. \A x \in S : c[x] \in Nat
  BY <1>1, CompoundedBounds DEF Principals
<1>3. c = [x \in S |-> c[x]] /\ c[o] = Compounded(s, acc[o].initial, acc[o].snapshot)
  BY DEF Principals
<1>4. PrincipalOf(s, acc) = Total(c)
  BY DEF PrincipalOf, Sum, Total, Principals
<1>5. s.total \in Nat
  BY SoundParts
<1> HIDE DEF c, S
<1>6. c \in [S -> Nat] /\ c \in [S -> Int] /\ o \in S
  BY <1>2, <1>3 DEF S
<1>7. Total(c) = c[o] + Total(On(c, S \ {o}))
  BY <1>1, <1>6, SumWithout
<1>8. Total(On(c, S \ {o})) \in Nat
  <2>1. S \ {o} \in SUBSET S
    OBVIOUS
  <2> QED BY <1>1, <1>6, <2>1, PartsWithinSum
<1>9. c[o] \in Nat
  BY <1>6
<1> QED BY <1>3, <1>4, <1>5, <1>7, <1>8, <1>9

\* A deposit, a withdrawal or a claim.
LEMMA ChangeKeeps ==
    ASSUME IInv, NEW actor \in Owners, actor \notin DOMAIN fronts, NEW input \in Nat,
           NEW wanted \in Nat, NEW tag \in DOMAIN fronts \cup {NoTag}, NEW amount \in Nat,
           Change(actor, input, wanted, tag, amount)
    PROVE  Kept
<1> DEFINE s == Issue(pool, amount)
           held == actor \in DOMAIN deposits
           old == deposits[actor]
           tagged == IF held THEN old.tag ELSE tag
           share == Kickback(fronts, tagged)
           principal == IF held THEN Compounded(s, old.initial, old.snapshot) ELSE 0
           gain == IF held THEN CollateralGain(s, old.initial, old.snapshot) ELSE 0
           tokens == IF held THEN (TokenGain(s, old.initial, old.snapshot) * share) \div Q ELSE 0
           output == IF wanted < principal THEN wanted ELSE principal
           front == fronts[tagged]
           stake == IF tagged = NoTag THEN 0 ELSE Compounded(s, front.initial, front.snapshot)
           fee == IF tagged = NoTag THEN 0
                  ELSE (TokenGain(s, front.initial, front.snapshot) * (Q - share)) \div Q
           rest == principal + input - output
           others == Without(deposits, actor)
           after == [s EXCEPT !.total = @ + input - output, !.collateral = @ - gain,
                              !.paid = @ + tokens + fee]
<1>1. /\ Covers(pool, deposits, fronts)
      /\ tagged # NoTag => stake + input >= output
      /\ pool' = after
      /\ deposits' = IF rest = 0 THEN others
                     ELSE Put(others, actor, [initial |-> rest, tag |-> tagged,
                                              snapshot |-> Current(after)])
      /\ moved' = [moved EXCEPT ![actor] = moved[actor] + input - output]
      /\ UNCHANGED <<offsets, peak>>
  BY DEF Change
<1>2. fronts' = IF tagged = NoTag THEN fronts
                ELSE Put(fronts, tagged, [front EXCEPT !.initial = stake + input - output,
                                                       !.snapshot = Current(after)])
  BY DEF Change
<1>3. /\ SoundPool(pool) /\ peak \in Nat /\ pool.errLoss <= peak
      /\ SoundOwners(deposits, fronts)
      /\ SoundAccounts(pool, deposits) /\ Backed(pool, deposits, peak)
      /\ SoundAccounts(pool, Stakes(deposits, fronts)) /\ Backed(pool, Stakes(deposits, fronts), peak)
      /\ moved \in [Owners -> Int] /\ NoPrincipalGain
  BY DEF IInv, SoundBook
<1>4. /\ SoundPool(s) /\ SameProduct(pool, s) /\ s.total = pool.total
      /\ CellsGrow(pool.cells, s.cells)
  BY <1>3, IssueSound
<1> HIDE DEF s
<1>5. /\ SoundAccounts(s, deposits) /\ Backed(s, deposits, peak)
      /\ SoundAccounts(s, Stakes(deposits, fronts)) /\ Backed(s, Stakes(deposits, fronts), peak)
  BY <1>3, <1>4, BackedSame
<1>6. held => /\ old \in DepositType /\ old.initial \in Nat /\ old.snapshot \in Snapshots
              /\ Taken(s, old.snapshot) /\ old.tag \in DOMAIN fronts \cup {NoTag}
              /\ Compounded(pool, old.initial, old.snapshot) \in Nat
              /\ Compounded(s, old.initial, old.snapshot)
                   = Compounded(pool, old.initial, old.snapshot)
              /\ Compounded(pool, old.initial, old.snapshot) <= pool.total
  <2> SUFFICES ASSUME held
               PROVE  /\ old \in DepositType /\ old.initial \in Nat /\ old.snapshot \in Snapshots
                      /\ Taken(s, old.snapshot) /\ old.tag \in DOMAIN fronts \cup {NoTag}
                      /\ Compounded(pool, old.initial, old.snapshot) \in Nat
                      /\ Compounded(s, old.initial, old.snapshot)
                           = Compounded(pool, old.initial, old.snapshot)
                      /\ Compounded(pool, old.initial, old.snapshot) <= pool.total
    OBVIOUS
  <2>1. /\ old \in DepositType /\ old.initial \in Nat /\ old.snapshot \in Snapshots
        /\ Taken(pool, old.snapshot) /\ Compounded(pool, old.initial, old.snapshot) \in Nat
    BY DepositFacts
  <2>2. old.tag \in DOMAIN fronts \cup {NoTag}
    BY <1>3 DEF SoundOwners
  <2>3. PrincipalOf(pool, deposits) <= pool.total
    BY <1>1 DEF Covers
  <2>4. Compounded(pool, old.initial, old.snapshot) <= pool.total
    BY <1>3, <2>3, HeldByPool
  <2>5. /\ Compounded(s, old.initial, old.snapshot) = Compounded(pool, old.initial, old.snapshot)
        /\ Taken(s, old.snapshot)
    BY <1>4, <2>1, CompoundedSame
  <2> QED BY <2>1, <2>2, <2>4, <2>5
<1>7. /\ principal \in Nat /\ output \in Nat /\ output <= principal /\ principal <= pool.total
      /\ tagged \in DOMAIN fronts \cup {NoTag}
  <2>1. pool.total \in Nat
    BY <1>3, SoundParts
  <2>2. principal \in Nat /\ principal <= pool.total
    BY <1>6, <2>1
  <2>3. tagged \in DOMAIN fronts \cup {NoTag}
    BY <1>6
  <2> HIDE DEF principal, tagged
  <2> QED BY <2>2, <2>3
<1>8. tagged # NoTag =>
        /\ tagged \in DOMAIN fronts /\ front \in FrontType /\ front.initial \in Nat
        /\ front.snapshot \in Snapshots /\ Taken(s, front.snapshot) /\ front.kickback \in Int
        /\ stake \in Nat /\ share = front.kickback
  <2> HIDE DEF tagged
  <2> SUFFICES ASSUME tagged # NoTag
               PROVE  /\ tagged \in DOMAIN fronts /\ front \in FrontType /\ front.initial \in Nat
                      /\ front.snapshot \in Snapshots /\ Taken(s, front.snapshot)
                      /\ front.kickback \in Int /\ stake \in Nat /\ share = front.kickback
    OBVIOUS
  <2>1. tagged \in DOMAIN fronts
    BY <1>7
  <2>2. front \in FrontType /\ front.initial \in Nat /\ front.snapshot \in Snapshots /\ front.kickback \in Int
    BY <1>3, <2>1 DEF SoundOwners, FrontType
  <2>3. tagged \in DOMAIN Stakes(deposits, fronts) /\ Stakes(deposits, fronts)[tagged] = front
    BY <2>1 DEF Stakes
  <2>4. Taken(s, front.snapshot)
    BY <1>5, <2>3 DEF SoundAccounts
  <2>5. stake \in Nat
    BY <1>4, <2>2, CompoundedBounds
  <2>6. share = front.kickback
    BY DEF Kickback
  <2> QED BY <2>1, <2>2, <2>4, <2>5, <2>6
<1>9. share \in Int
  BY <1>8, Units DEF Kickback
<1>10. gain \in Int /\ tokens \in Int /\ fee \in Int
  <2> HIDE DEF share, tagged
  <2>1. ASSUME NEW x \in Int, NEW y \in Int PROVE (x * y) \div Q \in Int
    <3>1. x * y \in Int /\ Q \in Nat \ {0}
      BY Units
    <3> QED BY <3>1, Floor
  <2>2. gain \in Int
    BY <1>4, <1>6, GainTyped
  <2>3. tokens \in Int
    <3>1. held => TokenGain(s, old.initial, old.snapshot) \in Int
      BY <1>4, <1>6, GainTyped
    <3> QED BY <1>9, <2>1, <3>1
  <2>4. fee \in Int
    <3>1. tagged # NoTag => TokenGain(s, front.initial, front.snapshot) \in Int
      BY <1>4, <1>8, GainTyped
    <3>2. Q - share \in Int
      BY <1>9, Units
    <3> QED BY <2>1, <3>1, <3>2
  <2> QED BY <2>2, <2>3, <2>4
<1>11. principal = IF held THEN Compounded(s, old.initial, old.snapshot) ELSE 0
  OBVIOUS
<1>12. tagged # NoTag => stake = Compounded(s, front.initial, front.snapshot)
  OBVIOUS
<1>13. held => tagged = old.tag
  OBVIOUS
<1> HIDE DEF gain, tokens, fee, output, principal, stake, share, tagged
<1>14. after = Balanced(s, s.total + input - output, s.collateral - gain, s.paid + tokens + fee)
  BY <1>4 DEF SoundPool, Pools, Balanced
<1> HIDE DEF after
<1>15. s.total + input - output \in Nat /\ rest \in Nat
  <2>1. s.total \in Nat /\ s.total = pool.total
    BY <1>4, SoundParts
  <2> QED BY <1>7, <2>1
<1>16. /\ SoundPool(after) /\ SameProduct(s, after) /\ after.total = s.total + input - output
       /\ after.cells = s.cells
  <2>1. s.collateral - gain \in Int /\ s.paid + tokens + fee \in Int
    <3>1. s.collateral \in Int /\ s.paid \in Int
      <4>1. s \in Pools
        BY <1>4, SoundParts
      <4> QED BY <4>1, PoolFields
    <3> QED BY <1>10, <3>1
  <2> QED BY <1>4, <1>14, <1>15, <2>1, BalancesSound
<1> DEFINE now == Current(after)
<1>17. now \in Snapshots /\ now.p = after.p /\ now.epoch = after.epoch /\ now.scale = after.scale
  BY <1>16, CurrentSnapshot
<1>18. /\ deposits' = IF rest = 0 THEN others
                      ELSE Put(others, actor, [initial |-> rest, tag |-> tagged, snapshot |-> now])
       /\ fronts' = IF tagged = NoTag THEN fronts
                    ELSE Put(fronts, tagged, [front EXCEPT !.initial = stake + input - output,
                                                           !.snapshot = now])
  BY <1>1, <1>2
<1> HIDE DEF now
<1>19. /\ actor \in DOMAIN deposits' <=> rest # 0
       /\ DOMAIN deposits' \ {actor} = DOMAIN deposits \ {actor}
       /\ \A o \in DOMAIN deposits \ {actor} : deposits'[o] = deposits[o]
       /\ rest # 0 => deposits'[actor] = [initial |-> rest, tag |-> tagged, snapshot |-> now]
  <2> HIDE DEF rest
  <2> QED BY <1>18 DEF Put, Without
<1>20. Replaced(s, after, deposits, deposits', actor, principal, input, output)
  <2>1. principal = IF actor \in DOMAIN deposits
                    THEN Compounded(s, deposits[actor].initial, deposits[actor].snapshot) ELSE 0
    BY <1>11
  <2>2. \A o \in DOMAIN deposits \ {actor} :
          deposits'[o].initial = deposits[o].initial /\ deposits'[o].snapshot = deposits[o].snapshot
    BY <1>19
  <2>3. actor \in DOMAIN deposits' =>
          deposits'[actor].initial = rest /\ deposits'[actor].snapshot = now
    <3> HIDE DEF rest
    <3> QED BY <1>19
  <2>4. actor \notin DOMAIN deposits' => rest = 0
    BY <1>19
  <2> QED BY <1>16, <1>17, <1>19, <2>1, <2>2, <2>3, <2>4 DEF Replaced
<1>21. Backed(after, deposits', peak) /\ SoundAccounts(after, deposits')
  BY <1>3, <1>4, <1>5, <1>7, <1>15, <1>16, <1>20, BackedReplaced
<1>22. SoundOwners(deposits', fronts') /\ DOMAIN fronts' = DOMAIN fronts
  <2>1. DOMAIN fronts' = DOMAIN fronts
    BY <1>7, <1>18 DEF Put
  <2>2. \A o \in DOMAIN fronts : fronts'[o] \in FrontType
    <3>1. CASE tagged = NoTag
      BY <1>3, <1>18, <3>1 DEF SoundOwners
    <3>2. CASE tagged # NoTag
      <4>1. stake + input - output \in Nat
        BY <1>1, <1>7, <1>8, <3>2
      <4> DEFINE new == [front EXCEPT !.initial = stake + input - output, !.snapshot = now]
      <4>2. new \in FrontType
        BY <1>8, <1>17, <3>2, <4>1 DEF FrontType
      <4>3. fronts' = Put(fronts, tagged, new)
        BY <1>18, <3>2
      <4> HIDE DEF new
      <4> QED BY <1>3, <4>2, <4>3 DEF Put, SoundOwners
    <3> QED BY <3>1, <3>2
  <2>3. DOMAIN deposits' \subseteq DOMAIN deposits \cup {actor}
    BY <1>19
  <2>4. ASSUME NEW o \in DOMAIN deposits'
        PROVE  /\ deposits'[o] \in DepositType
               /\ o \notin DOMAIN fronts /\ deposits'[o].tag \in DOMAIN fronts \cup {NoTag}
    <3>1. CASE o = actor
      <4> DEFINE new == [initial |-> rest, tag |-> tagged, snapshot |-> now]
      <4>1. deposits'[o] = new
        BY <1>19, <3>1
      <4>2. tagged \in Owners \cup {NoTag}
        BY <1>3, <1>7 DEF SoundOwners
      <4> HIDE DEF rest
      <4>3. new \in DepositType /\ new.tag = tagged
        BY <1>15, <1>17, <4>2 DEF DepositType
      <4> QED BY <1>7, <3>1, <4>1, <4>3
    <3>2. CASE o # actor
      <4>1. o \in DOMAIN deposits /\ deposits'[o] = deposits[o]
        BY <1>19, <3>2
      <4> QED BY <1>3, <4>1 DEF SoundOwners
    <3> QED BY <3>1, <3>2
  <2> QED BY <1>3, <2>1, <2>2, <2>3, <2>4 DEF SoundOwners
<1> DEFINE A == Stakes(deposits, fronts)
           B == Stakes(deposits', fronts')
<1>23. /\ DOMAIN A = DOMAIN fronts \cup {d \in DOMAIN deposits : deposits[d].tag = NoTag}
       /\ DOMAIN B = DOMAIN fronts \cup {d \in DOMAIN deposits' : deposits'[d].tag = NoTag}
       /\ \A o \in DOMAIN A : A[o] = IF o \in DOMAIN fronts THEN fronts[o] ELSE deposits[o]
       /\ \A o \in DOMAIN B : B[o] = IF o \in DOMAIN fronts THEN fronts'[o] ELSE deposits'[o]
  BY <1>22 DEF Stakes
<1>24. SoundAccounts(s, A) /\ Backed(s, A, peak)
  BY <1>5
<1> HIDE DEF A, B
<1>25. Backed(after, B, peak) /\ SoundAccounts(after, B)
  <2>1. CASE tagged = NoTag
    <3>1. fronts' = fronts
      BY <1>18, <2>1
    <3>2. actor \in DOMAIN A <=> held
      BY <1>13, <1>23, <2>1
    <3>3. actor \in DOMAIN B <=> rest # 0
      BY <1>19, <1>23, <2>1
    <3>4. DOMAIN B \ {actor} = DOMAIN A \ {actor}
      BY <1>19, <1>23
    <3>5. \A o \in DOMAIN A \ {actor} : B[o] = A[o]
      BY <1>19, <1>23, <3>1, <3>4
    <3>6. actor \in DOMAIN A => A[actor] = old
      BY <1>23
    <3>7. actor \in DOMAIN B => B[actor].initial = rest /\ B[actor].snapshot = now
      <4>1. actor \in DOMAIN B => B[actor] = deposits'[actor]
        BY <1>23
      <4> HIDE DEF rest
      <4> QED BY <1>19, <3>3, <4>1
    <3>8. principal = IF actor \in DOMAIN A THEN Compounded(s, A[actor].initial, A[actor].snapshot) ELSE 0
      BY <1>11, <3>2, <3>6
    <3>9. Replaced(s, after, A, B, actor, principal, input, output)
      BY <1>16, <1>17, <3>3, <3>4, <3>5, <3>7, <3>8 DEF Replaced
    <3> QED BY <1>3, <1>4, <1>7, <1>15, <1>16, <1>24, <3>9, BackedReplaced
  <2>2. CASE tagged # NoTag
    <3> DEFINE new == [front EXCEPT !.initial = stake + input - output, !.snapshot = now]
    <3>1. fronts' = Put(fronts, tagged, new)
      BY <1>18, <2>2
    <3>2. new.initial = stake + input - output /\ new.snapshot = now
      BY <1>8, <2>2 DEF FrontType
    <3> HIDE DEF new
    <3>3. tagged \in DOMAIN fronts
      BY <1>8, <2>2
    <3>4. actor \notin DOMAIN A
      BY <1>13, <1>23, <2>2
    <3>5. actor \notin DOMAIN B
      <4>1. actor \in DOMAIN deposits' => deposits'[actor].tag = tagged
        <5> HIDE DEF rest
        <5> QED BY <1>19
      <4> QED BY <1>23, <2>2, <4>1
    <3>6. DOMAIN B = DOMAIN A
      <4>1. \A o : o # actor => (o \in DOMAIN B <=> o \in DOMAIN A)
        BY <1>19, <1>23
      <4> QED BY <1>23, <3>4, <3>5, <4>1
    <3>7. \A o \in DOMAIN A \ {tagged} : B[o] = A[o]
      <4> TAKE o \in DOMAIN A \ {tagged}
      <4>1. o \in DOMAIN B /\ o # actor
        BY <3>4, <3>6
      <4>2. o \in DOMAIN fronts => fronts'[o] = fronts[o]
        BY <3>1 DEF Put
      <4>3. o \notin DOMAIN fronts => deposits'[o] = deposits[o]
        BY <1>19, <1>23, <4>1
      <4> QED BY <1>23, <4>1, <4>2, <4>3
    <3>8. tagged \in DOMAIN A /\ A[tagged] = front /\ tagged \in DOMAIN B /\ B[tagged] = new
      BY <1>23, <3>1, <3>3 DEF Put
    <3>9. stake = IF tagged \in DOMAIN A THEN Compounded(s, A[tagged].initial, A[tagged].snapshot) ELSE 0
      BY <1>12, <2>2, <3>8
    <3>10. Replaced(s, after, A, B, tagged, stake, input, output)
      BY <1>16, <1>17, <3>2, <3>6, <3>7, <3>8, <3>9 DEF Replaced
    <3>11. stake + input - output \in Nat
      BY <1>1, <1>7, <1>8, <2>2
    <3> QED BY <1>3, <1>4, <1>7, <1>16, <1>24, <3>10, <3>11, BackedReplaced
  <2> QED BY <2>1, <2>2
<1>26. pool' = after /\ peak' = peak /\ offsets' = offsets
  BY <1>1
<1>27. after.errLoss <= peak
  BY <1>3, <1>4, <1>16 DEF SameProduct
<1>28. SoundBook(pool', deposits', fronts', peak')
  BY <1>3, <1>16, <1>21, <1>22, <1>25, <1>26, <1>27 DEF SoundBook, B
<1>29. \A i, snap : Compounded(after, i, snap) = Compounded(pool, i, snap)
  <2> TAKE i, snap
  <2>1. Compounded(after, i, snap) = Compounded(s, i, snap)
    BY <1>16, CompoundedSame
  <2>2. Compounded(s, i, snap) = Compounded(pool, i, snap)
    BY <1>4, CompoundedSame
  <2> QED BY <2>1, <2>2
<1>30. moved' \in [Owners -> Int]
  BY <1>1, <1>3, <1>7
<1>31. NoPrincipalGain'
  <2> SUFFICES ASSUME NEW o \in Owners
               PROVE  moved'[o] >= IF o \in DOMAIN deposits'
                                   THEN Compounded(after, deposits'[o].initial, deposits'[o].snapshot)
                                   ELSE 0
    BY <1>26 DEF NoPrincipalGain
  <2>1. moved[o] \in Int
    BY <1>3
  <2>2. moved[o] >= IF o \in DOMAIN deposits
                    THEN Compounded(pool, deposits[o].initial, deposits[o].snapshot) ELSE 0
    BY <1>3 DEF NoPrincipalGain
  <2>3. CASE o = actor
    <3>1. moved'[o] = moved[o] + input - output
      BY <1>1, <1>3, <2>3
    <3>2. moved[o] >= principal
      BY <1>6, <1>11, <2>2, <2>3
    <3>3. moved'[o] >= rest
      BY <1>7, <2>1, <3>1, <3>2
    <3>4. o \in DOMAIN deposits' =>
            Compounded(after, deposits'[o].initial, deposits'[o].snapshot) = rest
      <4>1. o \in DOMAIN deposits' =>
              deposits'[o].initial = rest /\ deposits'[o].snapshot = now
        <5> HIDE DEF rest
        <5> QED BY <1>19, <2>3
      <4>2. Compounded(after, rest, now) = rest
        BY <1>15, <1>16, <1>17, CompoundedNow
      <4> QED BY <4>1, <4>2
    <3>5. rest >= 0
      BY <1>15
    <3>6. moved'[o] \in Int
      BY <1>30
    <3> HIDE DEF rest
    <3> QED BY <1>15, <3>3, <3>4, <3>5, <3>6
  <2>4. CASE o # actor
    <3>1. moved'[o] = moved[o]
      BY <1>1, <1>3, <2>4
    <3>2. o \in DOMAIN deposits' <=> o \in DOMAIN deposits
      BY <1>19, <2>4
    <3>3. o \in DOMAIN deposits => deposits'[o] = deposits[o]
      BY <1>19, <2>4
    <3> QED BY <1>29, <2>2, <3>1, <3>2, <3>3
  <2> QED BY <2>3, <2>4
<1>32. IInv'
  BY <1>28, <1>30, <1>31 DEF IInv
<1>33. Untouched
  <2>1. CellsGrow(pool.cells, pool'.cells)
    BY <1>4, <1>16, <1>26
  <2> QED BY <1>16, <1>26, <1>29, <2>1, GrowthUntouched
<1> QED BY <1>32, <1>33 DEF Kept

\* A front end registers.
LEMMA RegisterKeeps ==
    ASSUME IInv, NEW actor \in Owners, NEW kickback \in Int, RegisterFrontEnd(actor, kickback)
    PROVE  Kept
<1> DEFINE new == [kickback |-> kickback, initial |-> 0, snapshot |-> Current(pool)]
<1>1. /\ actor \notin DOMAIN fronts /\ actor \notin DOMAIN deposits
      /\ fronts' = Put(fronts, actor, new)
      /\ UNCHANGED <<pool, deposits, offsets, peak, moved>>
  BY DEF RegisterFrontEnd
<1>2. /\ SoundPool(pool) /\ peak \in Nat /\ pool.errLoss <= peak
      /\ SoundOwners(deposits, fronts)
      /\ SoundAccounts(pool, deposits) /\ Backed(pool, deposits, peak)
      /\ SoundAccounts(pool, Stakes(deposits, fronts)) /\ Backed(pool, Stakes(deposits, fronts), peak)
      /\ moved \in [Owners -> Int] /\ NoPrincipalGain
  BY DEF IInv, SoundBook
<1>3. /\ Current(pool) \in Snapshots /\ Current(pool).p = pool.p
      /\ Current(pool).epoch = pool.epoch /\ Current(pool).scale = pool.scale
  BY <1>2, CurrentSnapshot
<1>4. new \in FrontType /\ new.initial = 0 /\ new.snapshot = Current(pool)
  BY <1>3 DEF FrontType
<1> HIDE DEF new
<1>5. /\ DOMAIN fronts' = DOMAIN fronts \cup {actor} /\ fronts'[actor] = new
      /\ \A o \in DOMAIN fronts : fronts'[o] = fronts[o]
  BY <1>1 DEF Put
<1>6. SoundOwners(deposits', fronts')
  BY <1>1, <1>2, <1>4, <1>5 DEF SoundOwners
<1> DEFINE A == Stakes(deposits, fronts)
           B == Stakes(deposits', fronts')
<1>7. /\ DOMAIN A = DOMAIN fronts \cup {d \in DOMAIN deposits : deposits[d].tag = NoTag}
      /\ DOMAIN B = DOMAIN fronts \cup {actor} \cup {d \in DOMAIN deposits : deposits[d].tag = NoTag}
      /\ \A o \in DOMAIN A : A[o] = IF o \in DOMAIN fronts THEN fronts[o] ELSE deposits[o]
      /\ \A o \in DOMAIN B : B[o] = IF o \in DOMAIN fronts \cup {actor} THEN fronts'[o] ELSE deposits[o]
  BY <1>1, <1>5 DEF Stakes
<1>8. SoundAccounts(pool, A) /\ Backed(pool, A, peak)
  BY <1>2
<1> HIDE DEF A, B
<1>9. actor \notin DOMAIN A /\ actor \in DOMAIN B /\ B[actor] = new
  BY <1>1, <1>5, <1>7
<1>10. DOMAIN B \ {actor} = DOMAIN A \ {actor} /\ \A o \in DOMAIN A \ {actor} : B[o] = A[o]
  BY <1>5, <1>7
<1>11. Replaced(pool, pool, A, B, actor, 0, 0, 0)
  <2>1. pool.total = pool.total + 0 - 0
    BY <1>2, SoundParts
  <2> QED BY <1>3, <1>4, <1>9, <1>10, <2>1 DEF Replaced, SameProduct
<1>12. Backed(pool, B, peak) /\ SoundAccounts(pool, B)
  <2>1. 0 \in Nat /\ 0 + 0 - 0 \in Nat
    OBVIOUS
  <2> QED BY <1>2, <1>8, <1>11, <2>1, BackedReplaced
<1>13. SoundBook(pool', deposits', fronts', peak')
  BY <1>1, <1>2, <1>6, <1>12 DEF SoundBook, B
<1>14. IInv'
  BY <1>1, <1>2, <1>13 DEF IInv, NoPrincipalGain
<1>15. Untouched
  <2>1. CellsGrow(pool.cells, pool'.cells)
    BY <1>1, <1>2, SoundParts, CellsStay
  <2> QED BY <1>1, <1>2, <2>1, GrowthUntouched
<1> QED BY <1>14, <1>15 DEF Kept

\* A step that leaves the book alone.
LEMMA StutterKeeps ==
    ASSUME IInv, UNCHANGED vars
    PROVE  Kept
<1>1. UNCHANGED <<pool, deposits, fronts, offsets, peak, moved>>
  BY DEF vars, book
<1>2. SoundPool(pool)
  BY DEF IInv, SoundBook
<1>3. CellsGrow(pool.cells, pool'.cells)
  BY <1>1, <1>2, SoundParts, CellsStay
<1>4. IInv'
  BY <1>1 DEF IInv, NoPrincipalGain
<1>5. Untouched
  BY <1>1, <1>2, <1>3, GrowthUntouched
<1> QED BY <1>4, <1>5 DEF Kept

\* Every command keeps the invariant and leaves what it does not change.
LEMMA NextKeeps ==
    ASSUME IInv, [Next]_vars
    PROVE  Kept
<1>0. SoundPool(pool) /\ SoundOwners(deposits, fronts)
  BY DEF IInv, SoundBook
<1>1. ASSUME NEW o \in Owners, NEW amount \in Drips, NEW input \in Amounts,
             NEW tag \in Owners \cup {NoTag}, Deposit(o, input, tag, amount)
      PROVE  Kept
  <2>1. /\ o \notin DOMAIN fronts /\ tag \in DOMAIN fronts \cup {NoTag}
        /\ Change(o, input, 0, tag, amount)
    BY <1>1 DEF Deposit
  <2>2. amount \in Nat /\ input \in Nat /\ 0 \in Nat
    BY PoolAssumption
  <2> QED BY <2>1, <2>2, ChangeKeeps
<1>2. ASSUME NEW o \in Owners, NEW amount \in Drips, NEW wanted \in Nat, Withdraw(o, wanted, amount)
      PROVE  Kept
  <2>1. o \in DOMAIN deposits /\ Change(o, 0, wanted, NoTag, amount)
    BY <1>2 DEF Withdraw
  <2>2. o \notin DOMAIN fronts /\ NoTag \in DOMAIN fronts \cup {NoTag}
    BY <1>0, <2>1 DEF SoundOwners
  <2>3. amount \in Nat /\ 0 \in Nat
    BY PoolAssumption
  <2> QED BY <1>2, <2>1, <2>2, <2>3, ChangeKeeps
<1>3. ASSUME NEW o \in Owners, NEW amount \in Drips, NEW wanted \in Parts, Withdraw(o, wanted, amount)
      PROVE  Kept
  <2>1. wanted \in Nat
    BY PoolAssumption
  <2> QED BY <1>2, <1>3, <2>1
<1>4. ASSUME NEW o \in Owners, NEW amount \in Drips, Claim(o, amount)
      PROVE  Kept
  <2>1. Withdraw(o, 0, amount) /\ 0 \in Nat
    BY <1>4 DEF Claim
  <2> QED BY <1>2, <2>1
<1>5. ASSUME NEW o \in Owners, NEW kickback \in Kickbacks, RegisterFrontEnd(o, kickback)
      PROVE  Kept
  <2>1. kickback \in Int
    <3>1. kickback \in 0 .. Q
      BY PoolAssumption
    <3> QED BY <3>1, Units
  <2> QED BY <1>5, <2>1, RegisterKeeps
<1>6. ASSUME NEW debt \in Takes, NEW collateral \in Collaterals, NEW amount \in Drips,
             Offset(debt, collateral, amount)
      PROVE  Kept
  <2>1. debt \in Nat /\ collateral \in Nat /\ amount \in Nat
    BY <1>0, SoundParts, PoolAssumption DEF Takes
  <2> QED BY <1>6, <2>1, OffsetKeeps
<1>7. CASE UNCHANGED vars
  BY <1>7, StutterKeeps
<1> QED BY <1>1, <1>3, <1>4, <1>5, <1>6, <1>7 DEF Next

\* The invariant holds in every reachable state.
LEMMA AlwaysSound ==
    Spec => []IInv
<1>1. Init => IInv
  BY InitIInv
<1>2. IInv /\ [Next]_vars => IInv'
  BY NextKeeps DEF Kept
<1> QED BY <1>1, <1>2, PTL DEF Spec

-----------------------------------------------------------------------------
(* What the depositors and the front ends may rely on. *)

\* Nobody gets back more principal than was paid in: change pays out no more
\* than compounded leaves of a deposit, restarts what remains at the current
\* snapshot, and no issuance, offset, or command of another owner raises it.
THEOREM PrincipalNeverGained ==
    Spec => []NoPrincipalGain
<1>1. IInv => NoPrincipalGain
  BY DEF IInv
<1> QED BY <1>1, AlwaysSound, PTL

\* A deposit that a step leaves alone keeps its collateral and token gains or
\* gains more: the cells of issue and offset_inner only grow, new ones are
\* appended, and the ones a snapshot points at stay where they are.
THEOREM OthersUntouched ==
    Spec => ClaimsUntouched
<1>1. IInv /\ [Next]_vars => [Untouched]_vars
  BY NextKeeps DEF Kept
<1>2. Spec => [][Untouched]_vars
  BY <1>1, AlwaysSound, PTL DEF Spec
<1> QED BY <1>2 DEF Untouched, ClaimsUntouched

\* The claims on the principal exceed the pool by at most one unit in Q of the
\* largest pool an offset has met: the loss an offset charges is rounded up,
\* and what it took too much is carried in errLoss to the next one.
THEOREM PrincipalCovered ==
    Spec => []PrincipalWithinRounding
<1>1. ASSUME IInv PROVE PrincipalWithinRounding
  <2>1. /\ SoundPool(pool) /\ peak \in Nat /\ SoundOwners(deposits, fronts)
        /\ SoundAccounts(pool, deposits) /\ Backed(pool, deposits, peak)
        /\ SoundAccounts(pool, Stakes(deposits, fronts)) /\ Backed(pool, Stakes(deposits, fronts), peak)
    BY <1>1 DEF IInv, SoundBook
  <2>2. PrincipalOf(pool, deposits) * Q <= pool.total * Q + peak
    <3>1. PrincipalOf(pool, deposits) = Total(Principals(pool, deposits))
      BY DEF PrincipalOf, Sum, Total, Principals
    <3> QED BY <2>1, <3>1, ClaimsBacked
  <2> DEFINE A == Stakes(deposits, fronts)
             c == Principals(pool, A)
             S == DOMAIN A
             F == DOMAIN fronts
  <2>3. Total(c) \in Nat /\ Total(c) * Q <= pool.total * Q + peak
    BY <2>1, ClaimsBacked
  <2>4. F \in SUBSET S /\ \A o \in F : A[o] = fronts[o]
    BY DEF Stakes
  <2>5. IsFiniteSet(S) /\ \A o \in S : A[o].initial \in Nat /\ A[o].snapshot \in Snapshots
    BY <2>1 DEF SoundAccounts, Taken
  <2> HIDE DEF A
  <2>6. \A o \in S : c[o] \in Nat /\ c[o] = Compounded(pool, A[o].initial, A[o].snapshot)
    BY <2>1, <2>5, CompoundedBounds DEF Principals
  <2>7. c = [o \in S |-> c[o]]
    BY DEF Principals
  <2> HIDE DEF c, S, F
  <2>8. c \in [S -> Nat]
    BY <2>6, <2>7
  <2>9. Total(On(c, F)) \in Nat /\ Total(On(c, F)) <= Total(c)
    BY <2>4, <2>5, <2>8, PartsWithinSum
  <2>10. On(c, F) = [o \in F |-> Compounded(pool, fronts[o].initial, fronts[o].snapshot)]
    BY <2>4, <2>6 DEF On
  <2>11. StakeOf(pool, fronts) = Total(On(c, F))
    BY <2>10 DEF StakeOf, Sum, Total, F
  <2>12. StakeOf(pool, fronts) * Q <= Total(c) * Q
    BY <2>3, <2>9, <2>11, Units, ProductMonotone
  <2>13. pool.total * Q + peak \in Int /\ StakeOf(pool, fronts) * Q \in Int /\ Total(c) * Q \in Int
    <3>1. pool.total \in Nat
      BY <2>1, SoundParts
    <3> QED BY <2>1, <2>3, <2>9, <2>11, <3>1, Units
  <2>14. StakeOf(pool, fronts) * Q <= pool.total * Q + peak
    BY <2>3, <2>12, <2>13
  <2> QED BY <2>2, <2>14 DEF PrincipalWithinRounding
<1> QED BY <1>1, AlwaysSound, PTL

=============================================================================
