------------------------- MODULE StockLedger_proofs -------------------------
(***************************************************************************)
(* Proofs about StockLedger, for any number of purchases, issues, units    *)
(* and concurrent calls, any quantities, rates and dates.                  *)
(***************************************************************************)
EXTENDS StockLedger, SumTheorems, TLAPS
-----------------------------------------------------------------------------
(* Sums of quantities.                                                     *)

Quantity(rows) == [row \in rows |-> row.qty]

(* Net is a sum in the sense of SumTheorems.                               *)
LEMMA NetIsSum ==
  ASSUME NEW R, IsFiniteSet(R) PROVE Net(R) = SumFunctionOnSet(Quantity(R), R)
<1> DEFINE f == Quantity(R)
<1>1. PICK h : Adds(f, R, h)
  BY AddsExists
<1>2. \A s \in SUBSET R : s # {} => f[First(s)] = First(s).qty
  <2>1. \A s \in SUBSET R : s # {} => First(s) \in R
    BY FirstIn
  <2> QED BY <2>1 DEF Quantity
<1> HIDE DEF f
<1>3. h = [s \in SUBSET R |-> IF s = {} THEN 0 ELSE First(s).qty + h[s \ {First(s)}]]
  BY <1>1, <1>2 DEF Adds
<1>4. PICK g : /\ g = [s \in SUBSET R |-> IF s = {} THEN 0
                                          ELSE First(s).qty + g[s \ {First(s)}]]
               /\ Net(R) = g[R]
  BY <1>3 DEF Net, MapThenSumSet, MapThenFoldSet, First
<1>5. Adds(f, R, g)
  BY <1>2, <1>4 DEF Adds
<1>6. SumFunctionOnSet(f, R) = g[R]
  BY <1>5, SumUnfold
<1> QED BY <1>4, <1>6 DEF f

(* So is the quantity of some purchases.                                   *)
LEMMA BoughtIsSum ==
  ASSUME NEW b, NEW T, IsFiniteSet(T)
  PROVE  MapThenSumSet(LAMBDA p : b[p].qty, T) = SumFunctionOnSet([p \in T |-> b[p].qty], T)
<1> DEFINE f == [p \in T |-> b[p].qty]
<1>1. PICK h : Adds(f, T, h)
  BY AddsExists
<1>2. \A s \in SUBSET T : s # {} => f[First(s)] = b[First(s)].qty
  <2>1. \A s \in SUBSET T : s # {} => First(s) \in T
    BY FirstIn
  <2> QED BY <2>1
<1> HIDE DEF f
<1>3. h = [s \in SUBSET T |-> IF s = {} THEN 0 ELSE b[First(s)].qty + h[s \ {First(s)}]]
  BY <1>1, <1>2 DEF Adds
<1>4. PICK g : /\ g = [s \in SUBSET T |-> IF s = {} THEN 0
                                          ELSE b[First(s)].qty + g[s \ {First(s)}]]
               /\ MapThenSumSet(LAMBDA p : b[p].qty, T) = g[T]
  BY <1>3 DEF MapThenSumSet, MapThenFoldSet, First
<1>5. Adds(f, T, g)
  BY <1>2, <1>4 DEF Adds
<1>6. SumFunctionOnSet(f, T) = g[T]
  BY <1>5, SumUnfold
<1> QED BY <1>4, <1>6 DEF f

(* Rows that can be summed.                                                *)
Countable(R) == IsFiniteSet(R) /\ \A row \in R : row.qty \in Int

(* No rows come to nothing.                                                *)
LEMMA NetEmpty == Net({}) = 0
BY FS_EmptySet, NetIsSum, SumEmpty

(* The quantities of countable rows have a sum.                            *)
LEMMA NetInt == ASSUME NEW R, Countable(R) PROVE Net(R) \in Int
<1>1. \A row \in R : Quantity(R)[row] \in Int
  BY DEF Countable, Quantity
<1> QED BY <1>1, NetIsSum, SumInt DEF Countable

(* The balance is a sum over any division of the rows.                     *)
LEMMA NetUnion ==
  ASSUME NEW R, NEW Q, Countable(R), Countable(Q), R \cap Q = {}
  PROVE  Countable(R \cup Q) /\ Net(R \cup Q) = Net(R) + Net(Q)
<1>1. Countable(R \cup Q)
  BY FS_Union DEF Countable
<1> DEFINE f == Quantity(R \cup Q)
<1>2. \A row \in R \cup Q : f[row] = row.qty /\ f[row] \in Int
  BY DEF Quantity, Countable
<1> HIDE DEF f
<1>3. SumFunctionOnSet(f, R \cup Q) = SumFunctionOnSet(f, R) + SumFunctionOnSet(f, Q)
  BY <1>2, SumUnion DEF Countable
<1>4. SumFunctionOnSet(f, R) = Net(R)
  <2>1. \A row \in R : f[row] = Quantity(R)[row]
    BY <1>2 DEF Quantity
  <2>2. SumFunctionOnSet(f, R) = SumFunctionOnSet(Quantity(R), R)
    BY <2>1, SumSame DEF Countable
  <2> QED BY <2>2, NetIsSum DEF Countable
<1>5. SumFunctionOnSet(f, Q) = Net(Q)
  <2>1. \A row \in Q : f[row] = Quantity(Q)[row]
    BY <1>2 DEF Quantity
  <2>2. SumFunctionOnSet(f, Q) = SumFunctionOnSet(Quantity(Q), Q)
    BY <2>1, SumSame DEF Countable
  <2> QED BY <2>2, NetIsSum DEF Countable
<1>6. SumFunctionOnSet(f, R \cup Q) = Net(R \cup Q)
  BY <1>1, NetIsSum DEF Countable, f
<1> QED BY <1>1, <1>3, <1>4, <1>5, <1>6

(* A single row counts once.                                               *)
LEMMA NetOne ==
  ASSUME NEW row, row.qty \in Int PROVE Countable({row}) /\ Net({row}) = row.qty
<1> DEFINE R == {row}
           f == Quantity(R)
<1>1. IsFiniteSet(R) /\ row \in R /\ \A x \in R : f[x] \in Int /\ f[x] = x.qty
  BY FS_Singleton DEF Quantity
<1>2. R \ {row} = {}
  OBVIOUS
<1> HIDE DEF f, R
<1>3. SumFunctionOnSet(f, R) = f[row] + SumFunctionOnSet(f, R \ {row})
  BY <1>1, SumTake
<1>4. SumFunctionOnSet(f, R \ {row}) = 0
  BY <1>2, SumEmpty
<1>5. SumFunctionOnSet(f, R) = row.qty
  BY <1>1, <1>3, <1>4
<1>6. Net(R) = row.qty
  BY <1>1, <1>5, NetIsSum DEF f
<1> QED BY <1>1, <1>6 DEF R, Countable

(* Some rows out, others in.                                               *)
LEMMA NetAddRow ==
  ASSUME NEW R, Countable(R), NEW row, row.qty \in Int, row \notin R
  PROVE  Countable(R \cup {row}) /\ Net(R \cup {row}) = Net(R) + row.qty
<1>1. Countable({row}) /\ Net({row}) = row.qty
  BY NetOne
<1> QED BY <1>1, NetUnion

(* Without one of its rows a sum is less by the quantity of that row.      *)
LEMMA NetDropRow ==
  ASSUME NEW R, Countable(R), NEW row \in R
  PROVE  Countable(R \ {row}) /\ Net(R \ {row}) = Net(R) - row.qty
<1>1. Countable(R \ {row}) /\ row.qty \in Int /\ (R \ {row}) \cup {row} = R /\ row \notin R \ {row}
  BY FS_RemoveElement DEF Countable
<1>2. Net((R \ {row}) \cup {row}) = Net(R \ {row}) + row.qty
  BY <1>1, NetAddRow
<1>3. Net(R \ {row}) \in Int
  BY <1>1, NetInt
<1>4. Net(R) = Net(R \ {row}) + row.qty
  BY <1>1, <1>2
<1> QED BY <1>1, <1>3, <1>4

-----------------------------------------------------------------------------
(* The order of the layers.                                                *)

PricedRows == [rate : Nat, left : Nat \ {0}, since : Nat]

(* A finite set of integers that is not empty has a least member.          *)
LEMMA MinIs ==
  ASSUME NEW S, IsFiniteSet(S), S # {}, S \subseteq Int
  PROVE  Min(S) \in S /\ \A y \in S : Min(S) <= y
<1> DEFINE below == [y \in S |-> -y]
<1>1. \A y \in S : below[y] \in Int /\ below[y] = -y
  OBVIOUS
<1> HIDE DEF below
<1>2. PICK m \in S : \A y \in S : below[y] <= below[m]
  BY <1>1, GreatestMember
<1>3. \A y \in S : m <= y
  <2> TAKE y \in S
  <2>1. -y <= -m
    BY <1>1, <1>2
  <2>2. y \in Int /\ m \in Int
    OBVIOUS
  <2> QED BY <2>1, <2>2
<1> QED BY <1>3 DEF Min

(* The lesser of two.                                                      *)
LEMMA MinOfTwo ==
  ASSUME NEW x \in Int, NEW y \in Int
  PROVE  Min({x, y}) = IF x <= y THEN x ELSE y
<1>1. IsFiniteSet({x, y})
  <2>1. {x, y} = {x} \cup {y} /\ IsFiniteSet({x})
    BY FS_Singleton
  <2>2. IsFiniteSet({x} \cup {y})
    BY <2>1, FS_AddElement
  <2> QED BY <2>1, <2>2
<1>2. Min({x, y}) \in {x, y} /\ \A z \in {x, y} : Min({x, y}) <= z
  BY <1>1, MinIs
<1> QED BY <1>2

(* Layers of different rates can be put in order of age.                   *)
Sorted(s) == \A j, k \in DOMAIN s : j < k => Older(s[j], s[k])

Distinct(P) == \A a, b \in P : a.rate = b.rate => a = b

(* Finitely many layers of different rates can be put in the order that    *)
(* FIFO takes them in.                                                     *)
LEMMA OldestFirstExists ==
  ASSUME NEW P, IsFiniteSet(P), P \subseteq PricedRows, Distinct(P)
  PROVE  \E s \in SetToSeqs(P) : Sorted(s)
<1> DEFINE Bad == {T \in SUBSET P : ~ \E s \in SetToSeqs(T) : Sorted(s)}
<1>1. ASSUME Bad # {} PROVE FALSE
  <2>1. PICK T \in Bad : \A U \in SUBSET T : U # T => U \notin Bad
    <3>1. Bad \subseteq SUBSET P
      OBVIOUS
    <3> HIDE DEF Bad
    <3> QED BY <1>1, <3>1, MinimalSubset
  <2>2. T \in SUBSET P /\ IsFiniteSet(T) /\ T \subseteq PricedRows
    BY FS_Subset
  <2>3. T # {}
    <3>1. ASSUME T = {} PROVE FALSE
      <4> DEFINE s == [k \in 1..0 |-> 0]
      <4>1. Cardinality(T) = 0
        BY <3>1, FS_EmptySet
      <4>2. s \in SetToSeqs(T) /\ Sorted(s)
        BY <4>1 DEF SetToSeqs, Sorted
      <4> QED BY <4>2
    <3> QED BY <3>1
  <2>4. PICK m \in T : \A a \in T : a # m => Older(a, m)
    <3> DEFINE since == [a \in T |-> a.since]
    <3>1. \A a \in T : since[a] = a.since /\ since[a] \in Int
      BY <2>2 DEF PricedRows
    <3> HIDE DEF since
    <3>2. PICK b \in T : \A a \in T : since[a] <= since[b]
      BY <2>2, <2>3, <3>1, GreatestMember
    <3> DEFINE Latest == {a \in T : a.since = b.since}
               rate == [a \in Latest |-> a.rate]
    <3>3. IsFiniteSet(Latest) /\ b \in Latest /\ Latest \in SUBSET T
      BY <2>2, FS_Subset
    <3>4. \A a \in Latest : rate[a] = a.rate /\ rate[a] \in Int
      BY <2>2 DEF PricedRows
    <3> HIDE DEF rate, Latest
    <3>5. PICK m \in Latest : \A a \in Latest : rate[a] <= rate[m]
      BY <3>3, <3>4, GreatestMember
    <3>6. m \in T /\ m.since = b.since
      BY <3>3 DEF Latest
    <3>7. ASSUME NEW a \in T, a # m PROVE Older(a, m)
      <4>1. a \in PricedRows /\ m \in PricedRows /\ a.rate # m.rate
        BY <2>2, <3>6, <3>7 DEF Distinct
      <4>2. a.since <= m.since
        BY <3>1, <3>2, <3>6
      <4>3. CASE a.since = m.since
        <5>1. a.rate <= m.rate
          BY <3>3, <3>4, <3>5, <3>6, <4>3 DEF Latest
        <5> QED BY <4>1, <4>3, <5>1 DEF Older, PricedRows
      <4>4. CASE a.since # m.since
        BY <4>1, <4>2, <4>4 DEF Older, PricedRows
      <4> QED BY <4>3, <4>4
    <3> QED BY <3>6, <3>7
  <2> DEFINE U == T \ {m}
             n == Cardinality(U)
  <2>5. U \in SUBSET T /\ U # T /\ U \in SUBSET P /\ IsFiniteSet(U)
    BY <2>2, FS_RemoveElement
  <2>6. n \in Nat /\ Cardinality(T) = n + 1
    <3>1. Cardinality(U) = Cardinality(T) - 1
      BY <2>2, FS_RemoveElement
    <3>2. Cardinality(U) \in Nat /\ Cardinality(T) \in Nat
      BY <2>2, <2>5, FS_CardinalityType
    <3> QED BY <3>1, <3>2
  <2>7. PICK s \in SetToSeqs(U) : Sorted(s)
    BY <2>1, <2>5
  <2> HIDE DEF n
  <2>8. s \in [1..n -> U] /\ \A i, j \in 1..n : i # j => s[i] # s[j]
    BY DEF SetToSeqs, n
  <2> DEFINE z == [k \in 1..(n + 1) |-> IF k = n + 1 THEN m ELSE s[k]]
  <2>9. \A k \in 1..n : k \in 1..(n + 1) /\ z[k] = s[k] /\ z[k] \in T /\ z[k] # m
    BY <2>6, <2>8
  <2>10. n + 1 \in 1..(n + 1) /\ z[n + 1] = m
    BY <2>6
  <2>11. \A k \in 1..(n + 1) : k = n + 1 \/ k \in 1..n
    BY <2>6
  <2>12. DOMAIN z = 1..(n + 1) /\ DOMAIN s = 1..n /\ z = [k \in 1..(n + 1) |-> z[k]]
    BY <2>8
  <2> HIDE DEF z, Bad
  <2>13. z \in SetToSeqs(T)
    <3>1. z \in [1..(n + 1) -> T]
      BY <2>9, <2>10, <2>11, <2>12
    <3>2. ASSUME NEW i \in 1..(n + 1), NEW j \in 1..(n + 1), i # j PROVE z[i] # z[j]
      BY <2>8, <2>9, <2>10, <2>11, <3>2
    <3> QED BY <2>6, <3>1, <3>2 DEF SetToSeqs
  <2>14. Sorted(z)
    <3> SUFFICES ASSUME NEW j \in 1..(n + 1), NEW k \in 1..(n + 1), j < k
                 PROVE  Older(z[j], z[k])
      BY <2>12 DEF Sorted
    <3>1. j \in 1..n
      BY <2>6
    <3>2. CASE k = n + 1
      BY <2>4, <2>9, <2>10, <3>1, <3>2
    <3>3. CASE k \in 1..n
      BY <2>7, <2>9, <2>12, <3>1, <3>3 DEF Sorted
    <3> QED BY <2>11, <3>2, <3>3
  <2>15. T \notin Bad
    BY <2>13, <2>14 DEF Bad
  <2> QED BY <2>15
<1>2. P \notin Bad
  BY <1>1
<1> QED BY <1>2

-----------------------------------------------------------------------------
(* The loop over the layers.                                               *)

(* One round of it.                                                        *)
TakeFrom(layer, acc) ==
  LET take == Min({layer.left, acc.short})
  IN  IF take = 0 THEN acc
      ELSE [short |-> acc.short - take,
            taken |-> Append(acc.taken, [rate |-> layer.rate, qty |-> take])]

Allocations == [short : Nat, taken : Seq([rate : Nat, qty : Nat])]

(* A step of the allocation leaves an allocation.                          *)
LEMMA TakeFromTyped ==
  ASSUME NEW layer \in PricedRows, NEW acc \in Allocations
  PROVE  TakeFrom(layer, acc) \in Allocations
<1> DEFINE take == Min({layer.left, acc.short})
<1>1. layer.left \in Nat /\ acc.short \in Nat /\ layer.rate \in Nat
  BY DEF PricedRows, Allocations
<1>2. take = IF layer.left <= acc.short THEN layer.left ELSE acc.short
  BY <1>1, MinOfTwo
<1> HIDE DEF take
<1>3. take \in Nat /\ acc.short - take \in Nat
  BY <1>1, <1>2
<1>4. Append(acc.taken, [rate |-> layer.rate, qty |-> take]) \in Seq([rate : Nat, qty : Nat])
  BY <1>1, <1>3 DEF Allocations
<1>5. TakeFrom(layer, acc)
        = IF take = 0 THEN acc
          ELSE [short |-> acc.short - take,
                taken |-> Append(acc.taken, [rate |-> layer.rate, qty |-> take])]
  BY DEF TakeFrom, take
<1> QED BY <1>3, <1>4, <1>5 DEF Allocations

(* Max finds the largest of finitely many numbers.                         *)
LEMMA MaxIs ==
  ASSUME NEW S, IsFiniteSet(S), S # {}, S \subseteq Int
  PROVE  Max(S) \in S /\ \A y \in S : y <= Max(S)
<1> DEFINE self == [y \in S |-> y]
<1>1. \A y \in S : self[y] \in Int /\ self[y] = y
  OBVIOUS
<1> HIDE DEF self
<1>2. PICK m \in S : \A y \in S : self[y] <= self[m]
  BY <1>1, GreatestMember
<1>3. \A y \in S : m >= y
  BY <1>1, <1>2
<1> QED BY <1>3 DEF Max

Start(qty) == [short |-> qty, taken |-> <<>>]

(* g[1..k] is what the loop has after k layers.                            *)
Rounds(layers, n, qty, g) ==
  g = [s \in SUBSET (1..n) |->
         IF s = {} THEN Start(qty) ELSE TakeFrom(layers[Max(s)], g[s \ {Max(s)}])]

(* The fold of allocateFifoCost is a row of steps, one for each layer.     *)
LEMMA AllocateIsRounds ==
  ASSUME NEW n \in Nat, NEW layers \in [1..n -> PricedRows], NEW qty \in Nat
  PROVE  \E g : Rounds(layers, n, qty, g) /\ Allocate(layers, qty) = g[1..n]
<1> DEFINE S == 1..n
           pick == [s \in SUBSET S |-> Max(s)]
           step == [e \in S \X Allocations |-> TakeFrom(layers[e[1]], e[2])]
<1>1. IsFiniteSet(S) /\ S \subseteq Int
  BY FS_Interval
<1>2. \A s \in SUBSET S : s # {} => Max(s) \in s
  <2> SUFFICES ASSUME NEW s \in SUBSET S, s # {} PROVE Max(s) \in s
    OBVIOUS
  <2>1. IsFiniteSet(s) /\ s \subseteq Int
    BY <1>1, FS_Subset
  <2> QED BY <2>1, MaxIs
<1>3. Picks(S, pick)
  BY <1>2 DEF Picks
<1>4. Start(qty) \in Allocations
  BY DEF Start, Allocations
<1>5. step \in [S \X Allocations -> Allocations]
  BY TakeFromTyped
<1>6. \A x \in S, acc \in Allocations : step[<<x, acc>>] = TakeFrom(layers[x], acc)
  OBVIOUS
<1>7. \A s \in SUBSET S : pick[s] = Max(s)
  OBVIOUS
<1> HIDE DEF pick, step
<1>8. PICK h : Folds(S, Start(qty), pick, step, h)
  BY <1>1, <1>3, FoldsExists
<1>9. \A s \in SUBSET S : h[s] \in Allocations
  BY <1>1, <1>3, <1>4, <1>5, <1>8, FoldsType
<1>10. \A s \in SUBSET S : s # {} =>
         step[<<pick[s], h[s \ {pick[s]}]>>] = TakeFrom(layers[Max(s)], h[s \ {Max(s)}])
  BY <1>2, <1>6, <1>7, <1>9
<1>11. Rounds(layers, n, qty, h)
  BY <1>8, <1>10 DEF Folds, Rounds
<1> HIDE DEF S
<1>12. DOMAIN layers = 1..n
  OBVIOUS
<1> QED
  BY <1>11, <1>12
  DEF Allocate, FoldLeft, MapThenFoldSet, Rounds, Start, TakeFrom

(* The rows an issue writes for what it takes.                             *)
RowsTaken(kind, i, unit, ts) ==
  {Row(kind, i, 1, "AVAILABLE", unit, t.rate, -t.qty, Today) : t \in ts}

(* Appending to a list adds one member to its set.                         *)
LEMMA ToSetAppend ==
  ASSUME NEW V, NEW s \in Seq(V), NEW x
  PROVE  ToSet(Append(s, x)) = ToSet(s) \cup {x}
<1> DEFINE t == Append(s, x)
           n == Len(s)
<1>1. n \in Nat /\ DOMAIN s = 1..n
  OBVIOUS
<1>2. DOMAIN t = 1..(n + 1) /\ t[n + 1] = x /\ \A j \in 1..n : t[j] = s[j]
  OBVIOUS
<1> HIDE DEF t, n
<1>3. ASSUME NEW y \in ToSet(t) PROVE y \in ToSet(s) \cup {x}
  <2>1. PICK j \in 1..(n + 1) : y = t[j]
    BY <1>2, <1>3 DEF ToSet
  <2>2. j = n + 1 \/ j \in 1..n
    BY <1>1
  <2> QED BY <1>1, <1>2, <2>1, <2>2 DEF ToSet
<1>4. ASSUME NEW y \in ToSet(s) PROVE y \in ToSet(t)
  <2>1. PICK j \in 1..n : y = s[j]
    BY <1>1, <1>4 DEF ToSet
  <2>2. j \in 1..(n + 1) /\ y = t[j]
    BY <1>1, <1>2, <2>1
  <2> QED BY <1>2, <2>2 DEF ToSet
<1>5. n + 1 \in 1..(n + 1)
  BY <1>1
<1>6. x \in ToSet(t)
  BY <1>2, <1>5 DEF ToSet
<1> QED BY <1>3, <1>4, <1>6 DEF t

(* What is recorded as taken from the first n layers.                      *)
Portions(layers, n, took) ==
  {[rate |-> layers[j].rate, qty |-> took[j]] : j \in {j \in 1..n : took[j] > 0}}

(* After k layers, took[j] has been taken from each layer j up to k.       *)
Took(layers, n, k, qty, acc, took) ==
  /\ acc \in Allocations /\ took \in [1..n -> Nat]
  /\ SumFunctionOnSet(took, 1..k) + acc.short = qty
  /\ ToSet(acc.taken) = Portions(layers, k, took)
  /\ \A j \in 1..k : took[j] <= layers[j].left
  /\ \A j \in 1..k : took[j] < layers[j].left => acc.short = 0
  /\ \A i, j \in 1..k : i < j /\ took[j] > 0 => took[i] = layers[i].left

(* Before the first layer nothing is taken.                                *)
LEMMA TookStart ==
  ASSUME NEW n \in Nat, NEW layers \in [1..n -> PricedRows], NEW qty \in Nat
  PROVE  \E took : Took(layers, n, 0, qty, Start(qty), took)
<1> DEFINE took == [j \in 1..n |-> 0]
           zero == 0
           none == 1..zero
<1>1. none = {} /\ took \in [1..n -> Nat]
  OBVIOUS
<1>2. SumFunctionOnSet(took, {}) = 0
  BY SumEmpty
<1>3. ToSet(<<>>) = {}
  BY DEF ToSet
<1>4. Start(qty) \in Allocations /\ Start(qty).short = qty /\ Start(qty).taken = <<>>
  BY DEF Start, Allocations
<1> HIDE DEF took, none
<1>5. SumFunctionOnSet(took, none) + Start(qty).short = qty
  BY <1>1, <1>2, <1>4
<1>6. {[rate |-> layers[j].rate, qty |-> took[j]] : j \in {j \in none : took[j] > 0}} = {}
  BY <1>1
<1>7. Took(layers, n, 0, qty, Start(qty), took)
  BY <1>1, <1>3, <1>4, <1>5, <1>6 DEF Took, Portions, none
<1> QED BY <1>7

(* A layer gives what is still short, as far as it reaches.                *)
LEMMA TookNext ==
  ASSUME NEW n \in Nat, NEW layers \in [1..n -> PricedRows], NEW qty \in Nat,
         NEW k \in 0..(n - 1), NEW acc, NEW took, Took(layers, n, k, qty, acc, took)
  PROVE  \E more : Took(layers, n, k + 1, qty, TakeFrom(layers[k + 1], acc), more)
<1> DEFINE m == k + 1
           layer == layers[m]
           take == Min({layer.left, acc.short})
           next == TakeFrom(layer, acc)
           more == [took EXCEPT ![m] = take]
<1>1. /\ m \in 1..n /\ m \in 1..m /\ layer \in PricedRows /\ m \notin 1..k
      /\ 1..m = (1..k) \cup {m} /\ 1..k \subseteq 1..n
      /\ \A j \in 1..k : j < m /\ j # m /\ j \in Nat
  OBVIOUS
<1>2. acc \in Allocations /\ took \in [1..n -> Nat]
  BY DEF Took
<1>3. layer.left \in Nat /\ acc.short \in Nat /\ layer.rate \in Nat
  BY <1>1, <1>2 DEF PricedRows, Allocations
<1>4. take = IF layer.left <= acc.short THEN layer.left ELSE acc.short
  BY <1>3, MinOfTwo
<1>5. next = IF take = 0 THEN acc
             ELSE [short |-> acc.short - take,
                   taken |-> Append(acc.taken, [rate |-> layer.rate, qty |-> take])]
  BY DEF TakeFrom
<1>6. next \in Allocations
  BY <1>1, <1>2, TakeFromTyped
<1> HIDE DEF m, layer, take, next
<1>7. take \in Nat /\ take <= layer.left /\ take <= acc.short
  BY <1>3, <1>4
<1>8. next.short = acc.short - take /\ (take < layer.left => next.short = 0)
  BY <1>3, <1>4, <1>5, <1>7
<1>9. /\ more \in [1..n -> Nat] /\ more[m] = take
      /\ \A j \in 1..k : more[j] = took[j] /\ more[j] \in Nat
  BY <1>1, <1>2, <1>7
<1> HIDE DEF more
<1>10. SumFunctionOnSet(more, 1..m) + next.short = qty
  <2>1. IsFiniteSet(1..k)
    BY FS_Interval
  <2>2. \A j \in 1..k : more[j] \in Int
    BY <1>9
  <2>3. SumFunctionOnSet(more, (1..k) \cup {m}) = more[m] + SumFunctionOnSet(more, 1..k)
    <3> DEFINE K == 1..k
    <3>1. IsFiniteSet(K) /\ (\A j \in K : more[j] \in Int) /\ m \notin K /\ more[m] \in Int
      BY <1>1, <1>7, <1>9, <2>1, <2>2
    <3> HIDE DEF K
    <3>2. SumFunctionOnSet(more, K \cup {m}) = more[m] + SumFunctionOnSet(more, K)
      BY <3>1, SumAdd
    <3> QED BY <3>2 DEF K
  <2>4. SumFunctionOnSet(more, 1..k) = SumFunctionOnSet(took, 1..k)
    BY <1>9, <2>1, SumSame
  <2>5. SumFunctionOnSet(took, 1..k) \in Int
    BY <2>1, <2>2, <2>4, SumInt
  <2>6. SumFunctionOnSet(took, 1..k) + acc.short = qty
    BY DEF Took
  <2>7. SumFunctionOnSet(more, 1..m) = take + SumFunctionOnSet(took, 1..k)
    BY <1>1, <1>9, <2>3, <2>4
  <2> QED BY <1>3, <1>7, <1>8, <2>5, <2>6, <2>7
<1>11. ToSet(next.taken) = {[rate |-> layers[j].rate, qty |-> more[j]] :
                              j \in {j \in 1..m : more[j] > 0}}
  <2> DEFINE old == {[rate |-> layers[j].rate, qty |-> took[j]] :
                       j \in {j \in 1..k : took[j] > 0}}
             new == {[rate |-> layers[j].rate, qty |-> more[j]] :
                       j \in {j \in 1..m : more[j] > 0}}
  <2>1. ToSet(acc.taken) = old
    BY DEF Took, Portions
  <2>2. CASE take = 0
    <3>1. {j \in 1..m : more[j] > 0} = {j \in 1..k : took[j] > 0}
      BY <1>1, <1>9, <2>2
    <3>2. \A j \in {j \in 1..k : took[j] > 0} : more[j] = took[j]
      BY <1>9
    <3>3. new = old
      BY <3>1, <3>2
    <3> QED BY <1>5, <2>1, <2>2, <3>3
  <2>3. CASE take # 0
    <3> DEFINE t == [rate |-> layer.rate, qty |-> take]
    <3>1. new = old \cup {t}
      <4>1. ASSUME NEW x \in new PROVE x \in old \cup {t}
        <5>1. PICK j \in 1..m : more[j] > 0 /\ x = [rate |-> layers[j].rate, qty |-> more[j]]
          BY <4>1
        <5>2. CASE j = m
          BY <1>9, <5>1, <5>2 DEF layer
        <5>3. CASE j \in 1..k
          BY <1>9, <5>1, <5>3
        <5> QED BY <1>1, <5>1, <5>2, <5>3
      <4>2. ASSUME NEW x \in old PROVE x \in new
        <5>1. PICK j \in 1..k : took[j] > 0 /\ x = [rate |-> layers[j].rate, qty |-> took[j]]
          BY <4>2
        <5>2. j \in 1..m /\ more[j] > 0 /\ x = [rate |-> layers[j].rate, qty |-> more[j]]
          BY <1>1, <1>9, <5>1
        <5> QED BY <5>2
      <4>3. t \in new
        <5>1. m \in 1..m /\ more[m] > 0 /\ t = [rate |-> layers[m].rate, qty |-> more[m]]
          BY <1>1, <1>7, <1>9, <2>3 DEF layer
        <5> QED BY <5>1
      <4> QED BY <4>1, <4>2, <4>3
    <3>2. next.taken = Append(acc.taken, t) /\ acc.taken \in Seq([rate : Nat, qty : Nat])
      BY <1>2, <1>5, <2>3 DEF Allocations
    <3> HIDE DEF t, new, old
    <3>3. ToSet(Append(acc.taken, t)) = ToSet(acc.taken) \cup {t}
      BY <3>2, ToSetAppend
    <3> QED BY <2>1, <3>1, <3>2, <3>3 DEF new
  <2> QED BY <2>2, <2>3
<1>12. \A j \in 1..m : more[j] <= layers[j].left
  <2> TAKE j \in 1..m
  <2>1. CASE j = m
    BY <1>7, <1>9, <2>1 DEF layer
  <2>2. CASE j \in 1..k
    BY <1>9, <2>2 DEF Took
  <2> QED BY <1>1, <2>1, <2>2
<1>13. \A j \in 1..m : more[j] < layers[j].left => next.short = 0
  <2> SUFFICES ASSUME NEW j \in 1..m, more[j] < layers[j].left PROVE next.short = 0
    OBVIOUS
  <2>1. CASE j = m
    BY <1>8, <1>9, <2>1 DEF layer
  <2>2. CASE j \in 1..k
    <3>1. acc.short = 0
      BY <1>9, <2>2 DEF Took
    <3> QED BY <1>7, <1>8, <3>1
  <2> QED BY <1>1, <2>1, <2>2
<1>14. \A i, j \in 1..m : i < j /\ more[j] > 0 => more[i] = layers[i].left
  <2> SUFFICES ASSUME NEW i \in 1..m, NEW j \in 1..m, i < j, more[j] > 0
               PROVE  more[i] = layers[i].left
    OBVIOUS
  <2>1. i \in 1..k
    BY <1>1 DEF m
  <2>2. CASE j \in 1..k
    BY <1>9, <2>1, <2>2 DEF Took
  <2>3. CASE j = m
    <3>1. acc.short > 0
      BY <1>3, <1>7, <1>9, <2>3
    <3>2. ~(took[i] < layers[i].left) /\ took[i] <= layers[i].left
      BY <2>1, <3>1 DEF Took
    <3>3. took[i] \in Nat /\ layers[i].left \in Nat
      BY <1>1, <1>2, <2>1 DEF PricedRows
    <3> QED BY <1>9, <2>1, <3>2, <3>3
  <2> QED BY <1>1, <2>2, <2>3
<1>15. Took(layers, n, m, qty, next, more)
  BY <1>6, <1>9, <1>10, <1>11, <1>12, <1>13, <1>14 DEF Took, Portions
<1> QED BY <1>15 DEF m, next, layer

(* What is taken in all the rounds.                                        *)
LEMMA AllocateTook ==
  ASSUME NEW n \in Nat, NEW layers \in [1..n -> PricedRows], NEW qty \in Nat
  PROVE  \E took : Took(layers, n, n, qty, Allocate(layers, qty), took)
<1>1. PICK g : Rounds(layers, n, qty, g) /\ Allocate(layers, qty) = g[1..n]
  BY AllocateIsRounds
<1> DEFINE Good == {k \in 0..n : \E took : Took(layers, n, k, qty, g[1..k], took)}
<1>2. g[{}] = Start(qty)
  BY <1>1 DEF Rounds
<1>3. 0 \in Good
  <2> DEFINE zero == 0
  <2>1. 1..zero = {} /\ 0 \in 0..n
    OBVIOUS
  <2> HIDE DEF zero
  <2>2. g[1..zero] = Start(qty)
    BY <1>2, <2>1
  <2>3. \E took : Took(layers, n, 0, qty, g[1..0], took)
    BY <2>2, TookStart DEF zero
  <2> QED BY <2>1, <2>3
<1>4. \A k \in 0..(n - 1) : k \in Good => k + 1 \in Good
  <2> SUFFICES ASSUME NEW k \in 0..(n - 1), k \in Good PROVE k + 1 \in Good
    OBVIOUS
  <2>1. PICK took : Took(layers, n, k, qty, g[1..k], took)
    OBVIOUS
  <2> DEFINE m == k + 1
  <2>2. m \in 0..n /\ m \in 1..m
    OBVIOUS
  <2>a. 1..m \subseteq 1..n /\ (1..m) \ {m} = 1..k
    OBVIOUS
  <2>b. 1..m \in SUBSET (1..n) /\ 1..m # {}
    BY <2>2, <2>a
  <2>3. Max(1..m) = m
    <3>1. IsFiniteSet(1..m) /\ 1..m \subseteq Int
      BY FS_Interval
    <3>2. Max(1..m) \in 1..m /\ m <= Max(1..m)
      BY <2>2, <2>b, <3>1, MaxIs
    <3> QED BY <3>2
  <2>4. g[1..m] = TakeFrom(layers[m], g[(1..m) \ {m}])
    <3> HIDE DEF m
    <3> QED BY <1>1, <2>b, <2>3 DEF Rounds
  <2>5. g[1..m] = TakeFrom(layers[m], g[1..k])
    BY <2>a, <2>4
  <2>6. \E more : Took(layers, n, k + 1, qty, TakeFrom(layers[k + 1], g[1..k]), more)
    BY <2>1, TookNext
  <2> QED BY <2>2, <2>5, <2>6
<1> HIDE DEF Good
<1>5. \A k \in 0..n : k \in Good
  BY <1>3, <1>4, UpTo
<1>6. n \in Good
  BY <1>5
<1> QED BY <1>1, <1>6 DEF Good

DistinctRates(layers, n) == \A j, k \in 1..n : j # k => layers[j].rate # layers[k].rate

(* The rows an issue writes come to what it takes.                         *)
LEMMA NetTaken ==
  ASSUME NEW n \in Nat, NEW layers \in [1..n -> PricedRows], DistinctRates(layers, n),
         NEW took \in [1..n -> Nat], NEW kind, NEW i, NEW unit,
         NEW ts, ts = Portions(layers, n, took)
  PROVE  /\ Countable(RowsTaken(kind, i, unit, ts))
         /\ Net(RowsTaken(kind, i, unit, ts)) = -SumFunctionOnSet(took, 1..n)
<1> DEFINE row(j) == Row(kind, i, 1, "AVAILABLE", unit, layers[j].rate, -took[j], Today)
           Upper(k) == {row(j) : j \in {j \in 1..k : took[j] > 0}}
           Good == {k \in 0..n : /\ Countable(Upper(k))
                                 /\ Net(Upper(k)) = -SumFunctionOnSet(took, 1..k)}
<1>1. 0 \in Good
  <2> DEFINE zero == 0
  <2>1. 1..zero = {} /\ 0 \in 0..n /\ Upper(zero) = {}
    OBVIOUS
  <2>2. SumFunctionOnSet(took, {}) = 0
    BY SumEmpty
  <2>3. Countable({}) /\ Net({}) = 0
    BY FS_EmptySet, NetEmpty DEF Countable
  <2> HIDE DEF zero, Upper
  <2>c. SumFunctionOnSet(took, 1..zero) = 0
    BY <2>1, <2>2
  <2>e. Net(Upper(zero)) = 0 /\ Countable(Upper(zero))
    BY <2>1, <2>3
  <2>4. Countable(Upper(zero)) /\ Net(Upper(zero)) = -SumFunctionOnSet(took, 1..zero)
    BY <2>c, <2>e
  <2> QED BY <2>1, <2>4 DEF zero
<1>2. \A k \in 0..(n - 1) : k \in Good => k + 1 \in Good
  <2> SUFFICES ASSUME NEW k \in 0..(n - 1), k \in Good PROVE k + 1 \in Good
    OBVIOUS
  <2> DEFINE m == k + 1
             K == 1..k
  <2>1. Countable(Upper(k)) /\ Net(Upper(k)) = -SumFunctionOnSet(took, K)
    OBVIOUS
  <2>2. m \in 0..n /\ m \in 1..n /\ 1..m = K \cup {m} /\ m \notin K /\ K \subseteq 1..n
    OBVIOUS
  <2>d. IsFiniteSet(K)
    BY FS_Interval
  <2>3. IsFiniteSet(K) /\ (\A j \in K : took[j] \in Int) /\ took[m] \in Nat
    BY <2>2, <2>d
  <2>4. row(m).qty = -took[m] /\ \A j \in 1..n : row(j).rate = layers[j].rate
    BY DEF Row
  <2> HIDE DEF m, K, row, Good
  <2>5. SumFunctionOnSet(took, K \cup {m}) = took[m] + SumFunctionOnSet(took, K)
    BY <2>2, <2>3, SumAdd
  <2>6. SumFunctionOnSet(took, K) \in Int
    BY <2>3, SumInt
  <2>7. Countable(Upper(m)) /\ Net(Upper(m)) = -SumFunctionOnSet(took, 1..m)
    <3>1. CASE took[m] = 0
      <4>1. {j \in 1..m : took[j] > 0} = {j \in 1..k : took[j] > 0}
        BY <2>2, <3>1 DEF K
      <4>2. Upper(m) = Upper(k)
        BY <4>1
      <4> HIDE DEF Upper
      <4>3. SumFunctionOnSet(took, 1..m) = took[m] + SumFunctionOnSet(took, K)
        BY <2>2, <2>5
      <4>4. SumFunctionOnSet(took, 1..m) = SumFunctionOnSet(took, K)
        BY <2>6, <3>1, <4>3
      <4> QED BY <2>1, <4>2, <4>4
    <3>2. CASE took[m] # 0
      <4>1. {j \in 1..m : took[j] > 0} = {j \in 1..k : took[j] > 0} \cup {m}
        BY <2>2, <2>3, <3>2 DEF K
      <4>2. Upper(m) = Upper(k) \cup {row(m)}
        BY <4>1
      <4>3. row(m) \notin Upper(k)
        <5>1. \A j \in {j \in 1..k : took[j] > 0} : j \in 1..n /\ j # m
          BY <2>2 DEF K
        <5>2. \A j \in {j \in 1..k : took[j] > 0} : row(j) # row(m)
          BY <2>2, <2>4, <5>1 DEF DistinctRates
        <5> QED BY <5>2
      <4>4. row(m).qty \in Int
        BY <2>3, <2>4
      <4> HIDE DEF Upper
      <4>5. /\ Countable(Upper(k) \cup {row(m)})
            /\ Net(Upper(k) \cup {row(m)}) = Net(Upper(k)) + row(m).qty
        BY <2>1, <4>3, <4>4, NetAddRow
      <4>6. SumFunctionOnSet(took, 1..m) = took[m] + SumFunctionOnSet(took, K)
        BY <2>2, <2>5
      <4>7. Net(Upper(m)) = -SumFunctionOnSet(took, K) + -took[m]
        BY <2>1, <2>4, <4>2, <4>5
      <4> QED BY <2>3, <2>6, <4>2, <4>5, <4>6, <4>7
    <3> QED BY <3>1, <3>2
  <2> HIDE DEF Upper
  <2> QED BY <2>2, <2>7 DEF Good, m
<1> HIDE DEF Good
<1>3. \A k \in 0..n : k \in Good
  BY <1>1, <1>2, UpTo
<1>4. RowsTaken(kind, i, unit, ts) = Upper(n)
  <2>1. ASSUME NEW x \in RowsTaken(kind, i, unit, ts) PROVE x \in Upper(n)
    <3>1. PICK t \in ts : x = Row(kind, i, 1, "AVAILABLE", unit, t.rate, -t.qty, Today)
      BY <2>1 DEF RowsTaken
    <3>2. PICK j \in 1..n : took[j] > 0 /\ t = [rate |-> layers[j].rate, qty |-> took[j]]
      BY DEF Portions
    <3> QED BY <3>1, <3>2
  <2>2. ASSUME NEW x \in Upper(n) PROVE x \in RowsTaken(kind, i, unit, ts)
    <3>1. PICK j \in 1..n : took[j] > 0 /\ x = row(j)
      BY <2>2
    <3> DEFINE t == [rate |-> layers[j].rate, qty |-> took[j]]
    <3>2. t \in ts /\ t.rate = layers[j].rate /\ t.qty = took[j]
      BY <3>1 DEF Portions
    <3> QED BY <3>1, <3>2 DEF RowsTaken
  <2> QED BY <2>1, <2>2
<1>5. n \in Good
  BY <1>3
<1> QED BY <1>4, <1>5 DEF Good

-----------------------------------------------------------------------------
(* The inductive invariant.                                                *)

LedgerRows ==
  [type : {"PURCHASE", "ITEM_ISSUE", "DEPARTMENT_CONSUMPTION", "ITEM_ISSUE_IN_TRANSIT",
           "ITEM_ISSUE_RECEIPT"},
   ref : Purchases \cup Issues \cup {None}, line : Nat, cat : Categories,
   unit : Units, rate : Nat, qty : Int \ {0}, date : Nat]

Saved == [status : {"LIVE"}, version : 1..MaxVersion, unit : Units,
          qty : Nat \ {0}, rate : Nat, date : Nat]

Calls == [op : {"NONE", "CREATE", "UPDATE", "DELETE", "VERIFY"},
          pc : {"idle", "read", "headerWritten", "rowsDeleted", "waiting",
                "stockLocked", "checked", "allocated"},
          target : Purchases \cup Issues \cup {None}, unit : Units \cup {None},
          expected : Nat, seen : Nat, content : Saved \cup {NoPurchase},
          rows : SUBSET LedgerRows, layers : Seq(PricedRows),
          taken : Seq([rate : Nat, qty : Nat]), balance : Int]

(* Every row belongs to a document.                                        *)
RowsHaveDocuments ==
  /\ IsFiniteSet(ledger) /\ ledger \subseteq LedgerRows
  /\ \A p \in Purchases : purchase[p].status = "LIVE" => purchase[p] \in Saved
  /\ \A row \in ledger :
       /\ row.type = "PURCHASE" => row.ref \in Purchases
       /\ row.type \in {"ITEM_ISSUE", "DEPARTMENT_CONSUMPTION"} =>
            row.ref \in Issues /\ verified[row.ref] # None
       /\ row.type = "ITEM_ISSUE_IN_TRANSIT" =>
            \E r \in ledger : r.type = "ITEM_ISSUE_RECEIPT"

(* What the dispatch or consumption in call c is going to write.           *)
IssueRows(c) == RowsTaken(Kind[c.target], c.target, c.unit, ToSet(c.taken))

(* FifoTakesOldestFirst of one call.                                       *)
Fifo(c) ==
  LET took == [k \in DOMAIN c.layers |->
                 MapThenSumSet(LAMBDA t : t.qty,
                   {t \in ToSet(c.taken) : t.rate = c.layers[k].rate})]
  IN  /\ MapThenSumSet(LAMBDA k : took[k], DOMAIN c.layers) = Wanted[c.target]
      /\ \A k \in DOMAIN c.layers : took[k] <= c.layers[k].left
      /\ \A j, k \in DOMAIN c.layers :
           /\ \/ c.layers[j].since < c.layers[k].since
              \/ c.layers[j].since = c.layers[k].since /\ c.layers[j].rate < c.layers[k].rate
           /\ took[k] > 0
           => took[j] = c.layers[j].left

(* Its rows come to the quantity of the issue, one for each rate.          *)
PricedOnce(c) ==
  /\ Countable(IssueRows(c)) /\ IssueRows(c) \subseteq LedgerRows
  /\ \A r1, r2 \in IssueRows(c) : r1.rate = r2.rate => r1 = r2
  /\ Net(IssueRows(c)) = -Wanted[c.target]

(* What it takes is still there, unless a purchase took it back.           *)
Covered(c) ==
  \A row \in IssueRows(c) :
    Net(Layer(c.unit, row.rate)) + row.qty >= 0 \/ <<c.unit, row.rate>> \in edited

NoneShort ==
  \A u \in Units, rate \in Nat : Net(Layer(u, rate)) >= 0 \/ <<u, rate>> \in edited

(* LedgerShowsDocuments, with sums over all purchases and all issues.      *)
Bought(b, u) ==
  SumFunctionOnSet([p \in Purchases |->
                      IF b[p].status = "LIVE" /\ b[p].unit = u THEN b[p].qty ELSE 0],
                   Purchases)

Issued(v, u) ==
  SumFunctionOnSet([i \in Issues |-> IF v[i] = u THEN Wanted[i] ELSE 0], Issues)

RowsShowPurchases ==
  \A p \in Purchases :
    RowsOf(p) = IF purchase[p].status = "LIVE" THEN {PurchaseRow(p, purchase[p])} ELSE {}

Balanced ==
  \A u \in Units :
    Balance("AVAILABLE", u) = Bought(purchase, u) + Arrived(u) - Issued(verified, u)

CreateCall(c) ==
  /\ c.op = "CREATE" /\ c.pc = "read"
  /\ c.target \in Purchases /\ c.content \in Saved
  /\ purchase[c.target].status = "ABSENT"

(* From its header on an update owns the purchase and its rows.            *)
UpdateCall(c) ==
  /\ c.op = "UPDATE" /\ c.pc \in {"read", "headerWritten", "rowsDeleted"}
  /\ c.target \in Purchases /\ c.content \in Saved
  /\ c.expected < c.content.version
  /\ c.pc # "read" => SameVersion(c.target, c.expected) /\ c.rows = RowsOf(c.target)

(* A deletion has the rows of the version it was asked for.                *)
DeleteCall(c) ==
  /\ c.op = "DELETE" /\ c.pc \in {"waiting", "rowsDeleted"}
  /\ c.target \in Purchases
  /\ purchase[c.target].status # "ABSENT"
  /\ c.expected <= purchase[c.target].version
  /\ SameVersion(c.target, c.expected) => c.rows = RowsOf(c.target)

VerifyCall(c) ==
  /\ c.op = "VERIFY" /\ c.pc \in {"waiting", "stockLocked", "checked", "allocated"}
  /\ c.target \in Issues /\ c.unit \in Units /\ verified[c.target] = None
  /\ c.pc = "allocated" => Fifo(c) /\ PricedOnce(c) /\ Covered(c)

CallOK(c) == c = Idle \/ CreateCall(c) \/ UpdateCall(c) \/ DeleteCall(c) \/ VerifyCall(c)

(* The store's lock, the one row of a purchase, and the new name exclude   *)
(* a second call.                                                          *)
Apart(c, d) ==
  /\ ~(c.op = "VERIFY" /\ d.op = "VERIFY")
  /\ c.op = "CREATE" /\ d.op = "CREATE" => c.target # d.target
  /\ c.op = "UPDATE" /\ d.op = "UPDATE" /\ c.pc # "read" /\ d.pc # "read"
       => c.target # d.target

Inv ==
  /\ TypeOK
  /\ RowsHaveDocuments
  /\ RowsShowPurchases
  /\ Balanced
  /\ NoneShort
  /\ call \in [Workers -> Calls]
  /\ \A w \in Workers : CallOK(call[w])
  /\ \A v, w \in Workers : v # w => Apart(call[v], call[w])

-----------------------------------------------------------------------------
(* What allocateFifoCost starts from.                                      *)

(* The image of a finite set is finite.                                    *)
LEMMA FiniteImage ==
  ASSUME NEW S, IsFiniteSet(S), NEW f PROVE IsFiniteSet({f[x] : x \in S})
<1> DEFINE T == {f[x] : x \in S}
           g == [x \in S |-> f[x]]
<1>1. g \in Surjection(S, T)
  BY DEF Surjection
<1> QED BY <1>1, FS_Surjection

(* Some rows of the ledger can be summed.                                  *)
LEMMA SomeRows ==
  ASSUME RowsHaveDocuments, NEW R, R \subseteq ledger PROVE Countable(R)
BY FS_Subset DEF RowsHaveDocuments, LedgerRows, Countable

(* The layers a verification reads are finitely many, of different rates,  *)
(* each with what the ledger has left of it.                               *)
LEMMA PricedLayersTyped ==
  ASSUME RowsHaveDocuments, NEW unit
  PROVE  /\ IsFiniteSet(PricedLayers(unit)) /\ PricedLayers(unit) \subseteq PricedRows
         /\ Distinct(PricedLayers(unit))
         /\ \A a \in PricedLayers(unit) : a.left = Net(Layer(unit, a.rate))
<1> DEFINE R == Stock("AVAILABLE", unit)
           rateOf == [row \in R |-> row.rate]
           Rates == {row.rate : row \in R}
           layerOf == [r \in Rates |-> [rate |-> r, left |-> Net(Layer(unit, r)),
                                        since |-> MinDate(Layer(unit, r))]]
           All == {[rate |-> r, left |-> Net(Layer(unit, r)),
                    since |-> MinDate(Layer(unit, r))] : r \in Rates}
<1>1. R \subseteq ledger /\ IsFiniteSet(R) /\ R \subseteq LedgerRows
  BY FS_Subset DEF Stock, RowsHaveDocuments
<1>2. IsFiniteSet(Rates) /\ Rates \subseteq Nat
  <2>1. Rates = {rateOf[row] : row \in R}
    OBVIOUS
  <2>2. IsFiniteSet({rateOf[row] : row \in R})
    <3> HIDE DEF R, rateOf
    <3> QED BY <1>1, FiniteImage
  <2>3. Rates \subseteq Nat
    BY <1>1 DEF LedgerRows
  <2> QED BY <2>1, <2>2, <2>3
<1>3. IsFiniteSet(All)
  <2>1. All = {layerOf[r] : r \in Rates}
    OBVIOUS
  <2>2. IsFiniteSet({layerOf[r] : r \in Rates})
    <3> HIDE DEF R, Rates, layerOf
    <3> QED BY <1>2, FiniteImage
  <2> QED BY <2>1, <2>2
<1>4. ASSUME NEW r \in Rates
      PROVE  Net(Layer(unit, r)) \in Int /\ MinDate(Layer(unit, r)) \in Nat
  <2> DEFINE L == Layer(unit, r)
             dateOf == [row \in L |-> row.date]
             Dates == {row.date : row \in L}
  <2>1. L \subseteq ledger /\ IsFiniteSet(L) /\ L \subseteq LedgerRows
    BY <1>1, FS_Subset DEF Layer
  <2>2. L # {}
    BY <1>4 DEF Layer
  <2>3. IsFiniteSet(Dates)
    <3>1. Dates = {dateOf[row] : row \in L}
      OBVIOUS
    <3>2. IsFiniteSet({dateOf[row] : row \in L})
      <4> HIDE DEF L, dateOf
      <4> QED BY <2>1, FiniteImage
    <3> QED BY <3>1, <3>2
  <2>4. Dates # {} /\ Dates \subseteq Nat
    BY <2>1, <2>2 DEF LedgerRows
  <2>5. Min(Dates) \in Dates
    <3> HIDE DEF Dates
    <3>1. Dates \subseteq Int
      BY <2>4
    <3> QED BY <2>3, <2>4, <3>1, MinIs
  <2>6. Net(L) \in Int
    BY <2>1, SomeRows, NetInt
  <2> QED BY <2>4, <2>5, <2>6 DEF MinDate
<1>5. PricedLayers(unit) = {a \in All : a.left > 0}
  BY DEF PricedLayers
<1> HIDE DEF Rates
<1>6. ASSUME NEW a \in PricedLayers(unit)
      PROVE  a \in PricedRows /\ a.left = Net(Layer(unit, a.rate))
             /\ a = [rate |-> a.rate, left |-> Net(Layer(unit, a.rate)),
                     since |-> MinDate(Layer(unit, a.rate))]
  <2>1. PICK r \in Rates : a = [rate |-> r, left |-> Net(Layer(unit, r)),
                                since |-> MinDate(Layer(unit, r))]
    BY <1>5, <1>6
  <2>2. a.left > 0
    BY <1>5, <1>6
  <2> QED BY <1>2, <1>4, <2>1, <2>2 DEF PricedRows
<1>7. IsFiniteSet(PricedLayers(unit))
  <2> HIDE DEF All
  <2> QED BY <1>3, <1>5, FS_Subset
<1>8. Distinct(PricedLayers(unit))
  BY <1>6 DEF Distinct
<1> QED BY <1>6, <1>7, <1>8

(* The layers are in order of age, each of another rate.                   *)
LEMMA LayersAre ==
  ASSUME RowsHaveDocuments, NEW unit
  PROVE  \E n \in Nat :
           /\ Layers(unit) \in [1..n -> PricedRows]
           /\ DistinctRates(Layers(unit), n) /\ Sorted(Layers(unit))
           /\ \A j \in 1..n : Layers(unit)[j].left = Net(Layer(unit, Layers(unit)[j].rate))
<1> DEFINE P == PricedLayers(unit)
           s == Layers(unit)
           n == Cardinality(P)
<1>1. /\ IsFiniteSet(P) /\ P \subseteq PricedRows /\ Distinct(P)
      /\ \A a \in P : a.left = Net(Layer(unit, a.rate))
  BY PricedLayersTyped
<1>2. n \in Nat
  BY <1>1, FS_CardinalityType
<1>3. \E z \in SetToSeqs(P) : Sorted(z)
  BY <1>1, OldestFirstExists
<1>4. s \in SetToSeqs(P) /\ Sorted(s)
  BY <1>3 DEF Layers, Sorted
<1> HIDE DEF s, n, P
<1>5. s \in [1..n -> P] /\ \A j, k \in 1..n : j # k => s[j] # s[k]
  BY <1>4 DEF SetToSeqs, n
<1>6. s \in [1..n -> PricedRows] /\ \A j \in 1..n : s[j].left = Net(Layer(unit, s[j].rate))
  BY <1>1, <1>5
<1>7. DistinctRates(s, n)
  BY <1>1, <1>5 DEF DistinctRates, Distinct
<1> QED BY <1>2, <1>4, <1>6, <1>7 DEF s

(* What is taken from a layer is its share.                                *)
LEMMA ShareOf ==
  ASSUME NEW n \in Nat, NEW layers \in [1..n -> PricedRows], DistinctRates(layers, n),
         NEW took \in [1..n -> Nat],
         NEW ts, ts = Portions(layers, n, took),
         NEW k \in 1..n
  PROVE  MapThenSumSet(LAMBDA t : t.qty, {t \in ts : t.rate = layers[k].rate}) = took[k]
<1> DEFINE mine == {t \in ts : t.rate = layers[k].rate}
           one == [rate |-> layers[k].rate, qty |-> took[k]]
<1>1. MapThenSumSet(LAMBDA t : t.qty, mine) = Net(mine)
  BY DEF Net
<1>2. CASE took[k] = 0
  <2>1. mine = {}
    BY <1>2 DEF DistinctRates, Portions
  <2> HIDE DEF mine
  <2>2. Net(mine) = 0
    BY <2>1, NetEmpty
  <2> QED BY <1>1, <1>2, <2>2 DEF mine
<1>3. CASE took[k] > 0
  <2>1. ASSUME NEW t \in mine PROVE t = one
    <3>1. PICK j \in 1..n : took[j] > 0 /\ t = [rate |-> layers[j].rate, qty |-> took[j]]
      BY DEF Portions
    <3>2. j = k
      BY <3>1, <2>1 DEF DistinctRates
    <3> QED BY <3>1, <3>2
  <2>2. one \in mine
    BY <1>3 DEF Portions
  <2>3. mine = {one}
    BY <2>1, <2>2
  <2>4. one.qty = took[k] /\ took[k] \in Int
    OBVIOUS
  <2> HIDE DEF mine, one
  <2>5. Net({one}) = one.qty
    BY <2>4, NetOne
  <2> QED BY <1>1, <2>3, <2>4, <2>5 DEF mine
<1> QED BY <1>2, <1>3

(* The order of age has no loops.                                          *)
LEMMA OlderIsStrict ==
  ASSUME NEW a \in PricedRows, NEW b \in PricedRows, Older(a, b) PROVE ~Older(b, a)
BY DEF Older, PricedRows

(* An allocation that leaves nothing short takes the oldest goods first.   *)
LEMMA AllocatedIsFifo ==
  ASSUME NEW n \in Nat, NEW c, c.layers \in [1..n -> PricedRows],
         DistinctRates(c.layers, n), Sorted(c.layers),
         NEW acc, acc.short = 0, c.taken = acc.taken,
         NEW took, Took(c.layers, n, n, Wanted[c.target], acc, took),
         Wanted[c.target] \in Nat
  PROVE  Fifo(c)
<1> DEFINE layers == c.layers
           ts == ToSet(c.taken)
           share == [k \in DOMAIN layers |->
                       MapThenSumSet(LAMBDA t : t.qty, {t \in ts : t.rate = layers[k].rate})]
<1>1. DOMAIN layers = 1..n /\ took \in [1..n -> Nat]
  BY DEF Took
<1>2. ts = Portions(layers, n, took)
  BY DEF Took
<1> HIDE DEF ts
<1>3. \A k \in 1..n : share[k] = took[k]
  BY <1>1, <1>2, ShareOf
<1>4. MapThenSumSet(LAMBDA k : share[k], DOMAIN layers) = Wanted[c.target]
  <2>a. IsFiniteSet(1..n)
    BY FS_Interval
  <2>1. IsFiniteSet(1..n) /\ \A k \in 1..n : took[k] \in Int
    BY <1>1, <2>a
  <2>2. SumFunctionOnSet(share, 1..n) = SumFunctionOnSet(took, 1..n)
    <3> HIDE DEF share
    <3> QED BY <1>3, <2>1, SumSame
  <2>3. SumFunctionOnSet(took, 1..n) \in Int
    BY <2>1, SumInt
  <2>4. SumFunctionOnSet(took, 1..n) + acc.short = Wanted[c.target]
    BY DEF Took
  <2>5. SumFunctionOnSet(took, 1..n) = Wanted[c.target]
    BY <2>3, <2>4
  <2> HIDE DEF share
  <2>6. MapThenSumSet(LAMBDA k : share[k], 1..n) = SumFunctionOnSet(share, 1..n)
    BY DEF MapThenSumSet, MapThenFoldSet, SumFunctionOnSet, FoldFunctionOnSet
  <2> QED BY <1>1, <2>2, <2>5, <2>6
<1>5. \A k \in DOMAIN layers : share[k] <= layers[k].left
  <2> HIDE DEF share
  <2> QED BY <1>1, <1>3 DEF Took
<1>6. \A j, k \in DOMAIN layers :
        /\ \/ layers[j].since < layers[k].since
           \/ layers[j].since = layers[k].since /\ layers[j].rate < layers[k].rate
        /\ share[k] > 0
        => share[j] = layers[j].left
  <2> HIDE DEF share
  <2> SUFFICES ASSUME NEW j \in 1..n, NEW k \in 1..n, Older(layers[j], layers[k]), share[k] > 0
               PROVE  share[j] = layers[j].left
    BY <1>1 DEF Older
  <2>1. layers[j] \in PricedRows /\ layers[k] \in PricedRows
    BY <1>1
  <2>2. ~Older(layers[k], layers[j])
    BY <2>1, OlderIsStrict
  <2>3. j < k
    <3>1. ~(k < j)
      BY <1>1, <2>2 DEF Sorted
    <3>2. j # k
      BY <2>2
    <3> QED BY <3>1, <3>2
  <2>4. took[k] > 0
    BY <1>3
  <2>5. took[j] = layers[j].left
    BY <2>3, <2>4 DEF Took
  <2> QED BY <1>3, <2>5
<1> QED BY <1>4, <1>5, <1>6 DEF Fifo, ts

(* Its rows are well formed, one for each rate, and covered by the layers. *)
LEMMA AllocatedIsPriced ==
  ASSUME RowsHaveDocuments,
         NEW n \in Nat, NEW c, c.layers \in [1..n -> PricedRows],
         DistinctRates(c.layers, n),
         \A j \in 1..n : c.layers[j].left = Net(Layer(c.unit, c.layers[j].rate)),
         NEW acc, acc.short = 0, c.taken = acc.taken, c.target \in Issues, c.unit \in Units,
         NEW took, Took(c.layers, n, n, Wanted[c.target], acc, took)
  PROVE  PricedOnce(c) /\ Covered(c)
<1> DEFINE layers == c.layers
           ts == ToSet(c.taken)
           R == IssueRows(c)
<1>1. took \in [1..n -> Nat]
  BY DEF Took
<1>2. ts = Portions(layers, n, took)
  BY DEF Took
<1>3. R = RowsTaken(Kind[c.target], c.target, c.unit, ts)
  BY DEF IssueRows
<1> HIDE DEF ts, R
<1>4. Countable(R) /\ Net(R) = -SumFunctionOnSet(took, 1..n)
  <2> DEFINE kind == Kind[c.target]
             i == c.target
             u == c.unit
             lay == c.layers
  <2>1. lay \in [1..n -> PricedRows] /\ DistinctRates(lay, n) /\ ts = Portions(lay, n, took)
    BY <1>2
  <2> HIDE DEF kind, i, u, lay
  <2>2. /\ Countable(RowsTaken(kind, i, u, ts))
        /\ Net(RowsTaken(kind, i, u, ts)) = -SumFunctionOnSet(took, 1..n)
    BY <1>1, <2>1, NetTaken
  <2> QED BY <1>3, <2>2 DEF kind, i, u
<1>5. SumFunctionOnSet(took, 1..n) = Wanted[c.target]
  <2>a. IsFiniteSet(1..n)
    BY FS_Interval
  <2>1. IsFiniteSet(1..n) /\ \A k \in 1..n : took[k] \in Int
    BY <1>1, <2>a
  <2>2. SumFunctionOnSet(took, 1..n) \in Int
    BY <2>1, SumInt
  <2>3. SumFunctionOnSet(took, 1..n) + acc.short = Wanted[c.target]
    BY DEF Took
  <2> QED BY <2>2, <2>3
<1>6. ASSUME NEW row \in R
      PROVE  \E j \in 1..n :
               /\ took[j] > 0
               /\ row = Row(Kind[c.target], c.target, 1, "AVAILABLE", c.unit,
                            layers[j].rate, -took[j], Today)
  <2>1. PICK t \in ts : row = Row(Kind[c.target], c.target, 1, "AVAILABLE", c.unit,
                                  t.rate, -t.qty, Today)
    BY <1>3, <1>6 DEF RowsTaken
  <2>2. PICK j \in 1..n : took[j] > 0 /\ t = [rate |-> layers[j].rate, qty |-> took[j]]
    BY <1>2 DEF Portions
  <2> QED BY <2>1, <2>2
<1>7. R \subseteq LedgerRows
  <2> SUFFICES ASSUME NEW row \in R PROVE row \in LedgerRows
    OBVIOUS
  <2>1. PICK j \in 1..n : /\ took[j] > 0
                          /\ row = Row(Kind[c.target], c.target, 1, "AVAILABLE", c.unit,
                                       layers[j].rate, -took[j], Today)
    BY <1>6
  <2>2. layers[j].rate \in Nat /\ -took[j] \in Int \ {0}
    BY <1>1, <2>1 DEF PricedRows
  <2>3. Kind[c.target] \in {"ITEM_ISSUE", "DEPARTMENT_CONSUMPTION"} /\ Today \in Nat
    BY LedgerConstants
  <2> QED BY <2>1, <2>2, <2>3 DEF LedgerRows, Row, Categories
<1>8. \A r1, r2 \in R : r1.rate = r2.rate => r1 = r2
  <2> SUFFICES ASSUME NEW r1 \in R, NEW r2 \in R, r1.rate = r2.rate PROVE r1 = r2
    OBVIOUS
  <2>1. PICK j \in 1..n : r1 = Row(Kind[c.target], c.target, 1, "AVAILABLE", c.unit,
                                   layers[j].rate, -took[j], Today)
    BY <1>6
  <2>2. PICK k \in 1..n : r2 = Row(Kind[c.target], c.target, 1, "AVAILABLE", c.unit,
                                   layers[k].rate, -took[k], Today)
    BY <1>6
  <2>3. layers[j].rate = layers[k].rate
    BY <2>1, <2>2 DEF Row
  <2>4. j = k
    BY <2>3 DEF DistinctRates
  <2> QED BY <2>1, <2>2, <2>4
<1>9. Covered(c)
  <2> SUFFICES ASSUME NEW row \in R PROVE Net(Layer(c.unit, row.rate)) + row.qty >= 0
    BY DEF Covered, R
  <2>1. PICK j \in 1..n : row = Row(Kind[c.target], c.target, 1, "AVAILABLE", c.unit,
                                    layers[j].rate, -took[j], Today)
    BY <1>6
  <2>2. row.rate = layers[j].rate /\ row.qty = -took[j]
    BY <2>1 DEF Row
  <2>3. took[j] <= layers[j].left /\ layers[j].left = Net(Layer(c.unit, row.rate))
    BY <2>2 DEF Took
  <2>4. layers[j].left \in Nat /\ took[j] \in Nat
    BY <1>1 DEF PricedRows
  <2> QED BY <2>2, <2>3, <2>4
<1>10. PricedOnce(c)
  BY <1>4, <1>5, <1>7, <1>8 DEF PricedOnce, R
<1> QED BY <1>9, <1>10

-----------------------------------------------------------------------------
(* Steps that write nothing.                                               *)

(* A worker without a call has the type of a call.                         *)
LEMMA IdleTyped == Idle \in Calls
<1>1. <<>> \in Seq(PricedRows) /\ <<>> \in Seq([rate : Nat, qty : Nat])
  OBVIOUS
<1> QED BY <1>1 DEF Idle, Calls

(* The empty ledger satisfies the invariant.                               *)
LEMMA InitInv == Init => Inv
<1> SUFFICES ASSUME Init PROVE Inv
  OBVIOUS
<1>1. TypeOK
  BY LedgerConstants DEF Init, TypeOK, NoPurchase
<1>2. RowsHaveDocuments
  BY FS_EmptySet DEF Init, RowsHaveDocuments, NoPurchase
<1>3. RowsShowPurchases
  BY DEF Init, RowsShowPurchases, RowsOf, NoPurchase
<1>4. Balanced
  <2> SUFFICES ASSUME NEW u \in Units
               PROVE  Balance("AVAILABLE", u)
                        = Bought(purchase, u) + Arrived(u) - Issued(verified, u)
    BY DEF Balanced
  <2>1. Balance("AVAILABLE", u) = 0 /\ Arrived(u) = 0
    <3>1. Stock("AVAILABLE", u) = {}
      BY DEF Init, Stock
    <3> QED BY <3>1, NetEmpty DEF Balance, Arrived
  <2>2. Bought(purchase, u) = 0
    <3> DEFINE f == [p \in Purchases |->
                       IF purchase[p].status = "LIVE" /\ purchase[p].unit = u
                       THEN purchase[p].qty ELSE 0]
    <3>1. \A p \in Purchases : f[p] = 0
      BY DEF Init, NoPurchase
    <3> HIDE DEF f
    <3>2. SumFunctionOnSet(f, Purchases) = 0
      BY <3>1, FiniteAssumption, SumZero
    <3> QED BY <3>2 DEF Bought, f
  <2>3. Issued(verified, u) = 0
    <3> DEFINE f == [i \in Issues |-> IF verified[i] = u THEN Wanted[i] ELSE 0]
    <3>1. \A i \in Issues : f[i] = 0
      BY LedgerConstants DEF Init
    <3> HIDE DEF f
    <3>2. SumFunctionOnSet(f, Issues) = 0
      BY <3>1, FiniteAssumption, SumZero
    <3> QED BY <3>2 DEF Issued, f
  <2> QED BY <2>1, <2>2, <2>3
<1>5. NoneShort
  <2> SUFFICES ASSUME NEW u \in Units, NEW rate \in Nat PROVE Net(Layer(u, rate)) >= 0
    BY DEF NoneShort
  <2>1. Layer(u, rate) = {}
    BY DEF Init, Layer, Stock
  <2> QED BY <2>1, NetEmpty
<1>6. /\ call \in [Workers -> Calls]
      /\ \A w \in Workers : CallOK(call[w])
      /\ \A v, w \in Workers : v # w => Apart(call[v], call[w])
  BY IdleTyped DEF Init, CallOK, Apart, Idle
<1> QED BY <1>1, <1>2, <1>3, <1>4, <1>5, <1>6 DEF Inv

(* A call stays in order as long as documents and rows stay as they are.   *)
LEMMA CallStays ==
  ASSUME UNCHANGED <<purchase, ledger, verified, edited>>, NEW c, CallOK(c)
  PROVE  CallOK(c)'
BY DEF CallOK, CreateCall, UpdateCall, DeleteCall, VerifyCall, SameVersion, RowsOf,
       Covered, Layer, Stock

(* A call that moves on.                                                   *)
LEMMA Quiet ==
  ASSUME Inv, NEW w \in Workers, NEW c \in Calls, CallOK(c),
         \A v \in Workers \ {w} : Apart(call[v], c),
         call' = [call EXCEPT ![w] = c],
         UNCHANGED <<itemUnit, purchase, ledger, verified, edited>>
  PROVE  Inv'
<1>1. /\ call' \in [Workers -> Calls] /\ call'[w] = c
      /\ \A v \in Workers \ {w} : call'[v] = call[v]
  BY DEF Inv
<1>2. TypeOK'
  BY <1>1 DEF Inv, TypeOK
<1>3. RowsHaveDocuments' /\ RowsShowPurchases' /\ Balanced' /\ NoneShort'
  BY DEF Inv, RowsHaveDocuments, RowsShowPurchases, Balanced, NoneShort, RowsOf, Layer,
         Stock, Balance, Arrived
<1>4. \A d : CallOK(d) => CallOK(d)'
  BY CallStays
<1>5. \A v \in Workers : CallOK(call[v])'
  <2>1. \A v \in Workers : CallOK(call[v])
    BY DEF Inv
  <2> QED BY <1>1, <1>4, <2>1
<1>6. (\A v, x \in Workers : v # x => Apart(call[v], call[x]))'
  BY <1>1 DEF Inv, Apart
<1> QED BY <1>1, <1>2, <1>3, <1>5, <1>6 DEF Inv

(* A call under way has the fields its operation needs.                    *)
LEMMA CallIs ==
  ASSUME Inv, NEW w \in Workers
  PROVE  /\ call[w] \in Calls /\ CallOK(call[w])
         /\ call[w].op = "CREATE" => CreateCall(call[w])
         /\ call[w].op = "UPDATE" => UpdateCall(call[w])
         /\ call[w].op = "DELETE" => DeleteCall(call[w])
         /\ call[w].op = "VERIFY" => VerifyCall(call[w])
         /\ call[w].pc = "idle" => call[w] = Idle
<1>1. call[w] \in Calls /\ CallOK(call[w])
  BY DEF Inv
<1> QED
  BY <1>1 DEF CallOK, Idle, CreateCall, UpdateCall, DeleteCall, VerifyCall

(* What a form enters is a purchase that can be saved.                     *)
LEMMA EnteredSaved ==
  ASSUME Inv, NEW c \in Contents, NEW n \in 1..MaxVersion
  PROVE  Entered(c, n, itemUnit) \in Saved
BY LedgerConstants DEF Inv, TypeOK, Entered, Saved

(* The rows of a document are rows of the ledger.                          *)
LEMMA RowsTyped ==
  ASSUME Inv, NEW p PROVE RowsOf(p) \in SUBSET LedgerRows /\ ledger \in SUBSET LedgerRows
BY DEF Inv, RowsHaveDocuments, RowsOf

(* createPurchase up to its transaction writes nothing, and names a        *)
(* purchase nobody else is creating.                                       *)
LEMMA CreateReadInv ==
  ASSUME Inv, NEW w \in Workers, NEW p \in Purchases, NEW e \in Contents, CreateRead(w, p, e)
  PROVE  Inv'
<1> DEFINE c == [Idle EXCEPT !.op = "CREATE", !.pc = "read", !.target = p,
                   !.content = Entered(e, 1, itemUnit)]
<1>1. Entered(e, 1, itemUnit) \in Saved
  BY EnteredSaved, LedgerConstants
<1>2. c \in Calls
  BY <1>1, IdleTyped DEF Calls
<1>3. c.op = "CREATE" /\ c.pc = "read" /\ c.target = p /\ c.content = Entered(e, 1, itemUnit)
  BY DEF Idle
<1> HIDE DEF c
<1>4. CallOK(c)
  BY <1>1, <1>3 DEF CallOK, CreateCall, CreateRead
<1>5. \A v \in Workers \ {w} : Apart(call[v], c)
  BY <1>3 DEF Apart, CreateRead
<1>6. call' = [call EXCEPT ![w] = c]
  BY DEF CreateRead, Begin, c
<1> QED BY <1>2, <1>4, <1>5, <1>6, Quiet DEF CreateRead

(* updatePurchase up to its transaction writes nothing.                    *)
LEMMA UpdateReadInv ==
  ASSUME Inv, NEW w \in Workers, NEW p \in Purchases, NEW e \in Contents,
         NEW n \in 1..MaxVersion, UpdateRead(w, p, e, n)
  PROVE  Inv'
<1> DEFINE version == purchase[p].version
           c == [Idle EXCEPT !.op = "UPDATE", !.pc = "read", !.target = p,
                   !.expected = n, !.seen = version,
                   !.content = Entered(e, version + 1, itemUnit)]
<1>1. version \in Nat /\ version + 1 \in 1..MaxVersion /\ n <= version /\ n \in Nat
  BY LedgerConstants DEF UpdateRead, Inv, TypeOK
<1>2. Entered(e, version + 1, itemUnit) \in Saved
  BY <1>1, EnteredSaved
<1> HIDE DEF version
<1>3. c \in Calls
  BY <1>1, <1>2, IdleTyped DEF Calls
<1>4. /\ c.op = "UPDATE" /\ c.pc = "read" /\ c.target = p /\ c.expected = n
      /\ c.content = Entered(e, version + 1, itemUnit)
  BY DEF Idle
<1> HIDE DEF c
<1>5. CallOK(c)
  BY <1>1, <1>2, <1>4 DEF CallOK, UpdateCall, Entered
<1>6. \A v \in Workers \ {w} : Apart(call[v], c)
  BY <1>4 DEF Apart
<1>7. call' = [call EXCEPT ![w] = c]
  BY DEF UpdateRead, Begin, c, version
<1> QED BY <1>3, <1>5, <1>6, <1>7, Quiet DEF UpdateRead

(* The guarded UPDATE of the header makes the purchase this update's own.  *)
LEMMA UpdateHeaderInv ==
  ASSUME Inv, NEW w \in Workers, UpdateHeader(w) PROVE Inv'
<1> DEFINE p == call[w].target
           c == [call[w] EXCEPT !.pc = "headerWritten", !.rows = RowsOf(p)]
<1>1. call[w] \in Calls /\ UpdateCall(call[w])
  BY CallIs DEF UpdateHeader
<1>2. c \in Calls
  BY <1>1, RowsTyped DEF Calls
<1>3. /\ c.op = "UPDATE" /\ c.pc = "headerWritten" /\ c.rows = RowsOf(p)
      /\ c.target = p /\ c.content = call[w].content /\ c.expected = call[w].expected
  BY <1>1 DEF Calls, UpdateCall
<1> HIDE DEF c
<1>4. CallOK(c)
  BY <1>1, <1>3 DEF CallOK, UpdateCall, UpdateHeader
<1>5. \A v \in Workers \ {w} : Apart(call[v], c)
  <2> SUFFICES ASSUME NEW v \in Workers \ {w}, call[v].op = "UPDATE", call[v].pc # "read"
               PROVE  call[v].target # p
    BY <1>3 DEF Apart
  <2>1. UpdateCall(call[v])
    BY CallIs
  <2> QED BY <2>1 DEF UpdateHeader, HeaderFree, UpdateCall
<1>6. call' = [call EXCEPT ![w] = c]
  BY DEF UpdateHeader, Goto, c
<1> QED BY <1>2, <1>4, <1>5, <1>6, Quiet DEF UpdateHeader

(* The rows of a purchase are deleted inside the transaction.              *)
LEMMA DeleteRowsInv ==
  ASSUME Inv, NEW w \in Workers, DeleteRows(w) PROVE Inv'
<1> DEFINE p == call[w].target
           c == [call[w] EXCEPT !.pc = "rowsDeleted", !.rows = @ \cap ledger]
<1>1. /\ call[w] \in Calls
      /\ call[w].op = "UPDATE" => UpdateCall(call[w])
      /\ call[w].op = "DELETE" => DeleteCall(call[w])
  BY CallIs
<1>a. \/ call[w].op = "UPDATE" /\ call[w].pc = "headerWritten"
      \/ call[w].op = "DELETE" /\ call[w].pc = "waiting"
  BY DEF DeleteRows
<1>2. c \in Calls
  BY <1>1 DEF Calls
<1>3. /\ c.op = call[w].op /\ c.pc = "rowsDeleted" /\ c.rows = call[w].rows \cap ledger
      /\ c.target = p /\ c.content = call[w].content /\ c.expected = call[w].expected
  BY <1>1 DEF Calls
<1>4. RowsOf(p) \cap ledger = RowsOf(p)
  BY DEF RowsOf
<1> HIDE DEF c
<1>5. CallOK(c)
  <2>1. CASE call[w].op = "UPDATE"
    <3>1. UpdateCall(c)
      BY <1>1, <1>a, <1>3, <1>4, <2>1 DEF UpdateCall
    <3> QED BY <3>1 DEF CallOK
  <2>2. CASE call[w].op = "DELETE"
    <3>1. DeleteCall(c)
      BY <1>1, <1>a, <1>3, <1>4, <2>2 DEF DeleteCall
    <3> QED BY <3>1 DEF CallOK
  <2> QED BY <1>a, <2>1, <2>2
<1>6. \A v \in Workers \ {w} : Apart(call[v], c)
  <2>1. \A v \in Workers \ {w} : Apart(call[v], call[w])
    BY DEF Inv
  <2> QED BY <1>1, <1>a, <1>3, <2>1 DEF Apart
<1>7. call' = [call EXCEPT ![w] = c]
  BY DEF DeleteRows, Goto, c
<1> QED BY <1>2, <1>5, <1>6, <1>7, Quiet DEF DeleteRows

(* deletePurchase starts from the rows it sees.                            *)
LEMMA DeleteStartInv ==
  ASSUME Inv, NEW w \in Workers, NEW p \in Purchases, NEW n \in 1..MaxVersion,
         DeleteStart(w, p, n)
  PROVE  Inv'
<1> DEFINE c == [Idle EXCEPT !.op = "DELETE", !.pc = "waiting", !.target = p,
                   !.expected = n, !.rows = RowsOf(p)]
<1>1. n \in Nat /\ n <= purchase[p].version
  BY LedgerConstants DEF DeleteStart, Inv, TypeOK
<1>2. c \in Calls
  BY <1>1, IdleTyped, RowsTyped DEF Calls
<1>3. /\ c.op = "DELETE" /\ c.pc = "waiting" /\ c.target = p /\ c.expected = n
      /\ c.rows = RowsOf(p)
  BY DEF Idle
<1> HIDE DEF c
<1>4. CallOK(c)
  BY <1>1, <1>3 DEF CallOK, DeleteCall, DeleteStart
<1>5. \A v \in Workers \ {w} : Apart(call[v], c)
  BY <1>3 DEF Apart
<1>6. call' = [call EXCEPT ![w] = c]
  BY DEF DeleteStart, Begin, c
<1> QED BY <1>2, <1>4, <1>5, <1>6, Quiet DEF DeleteStart

(* A verification starts by waiting for the lock on the stock.             *)
LEMMA VerifyStartInv ==
  ASSUME Inv, NEW w \in Workers, NEW i \in Issues, VerifyStart(w, i) PROVE Inv'
<1> DEFINE c == [Idle EXCEPT !.op = "VERIFY", !.pc = "waiting", !.target = i,
                   !.unit = itemUnit, !.rows = ledger]
<1>1. itemUnit \in Units
  BY DEF Inv, TypeOK
<1>2. c \in Calls
  BY <1>1, IdleTyped, RowsTyped DEF Calls
<1>3. c.op = "VERIFY" /\ c.pc = "waiting" /\ c.target = i /\ c.unit = itemUnit
  BY DEF Idle
<1> HIDE DEF c
<1>4. CallOK(c)
  BY <1>1, <1>3 DEF CallOK, VerifyCall, VerifyStart
<1>5. \A v \in Workers \ {w} : Apart(call[v], c)
  <2> SUFFICES ASSUME NEW v \in Workers \ {w}, call[v].op = "VERIFY" PROVE FALSE
    BY <1>3 DEF Apart
  <2>1. VerifyCall(call[v])
    BY CallIs
  <2> QED BY <2>1 DEF VerifyCall, VerifyStart, StoreFree
<1>6. call' = [call EXCEPT ![w] = c]
  BY DEF VerifyStart, Begin, c
<1> QED BY <1>2, <1>4, <1>5, <1>6, Quiet DEF VerifyStart

(* The steps of a dispatch before its cost is known.                       *)
LEMMA VerifyGoesOn ==
  ASSUME Inv, NEW w \in Workers, call[w].op = "VERIFY", NEW c \in Calls,
         c.op = "VERIFY", c.target = call[w].target, c.unit = call[w].unit,
         c.pc \in {"stockLocked", "checked", "allocated"},
         c.pc = "allocated" => Fifo(c) /\ PricedOnce(c) /\ Covered(c),
         call' = [call EXCEPT ![w] = c],
         UNCHANGED <<itemUnit, purchase, ledger, verified, edited>>
  PROVE  Inv'
<1>1. VerifyCall(call[w])
  BY CallIs
<1>2. CallOK(c)
  BY <1>1 DEF CallOK, VerifyCall
<1>3. \A v \in Workers \ {w} : Apart(call[v], c)
  <2>1. \A v \in Workers \ {w} : Apart(call[v], call[w])
    BY DEF Inv
  <2> QED BY <2>1 DEF Apart
<1> QED BY <1>2, <1>3, Quiet

(* The lock on the stock is given to one verification at a time.           *)
LEMMA LockRowsInv ==
  ASSUME Inv, NEW w \in Workers, LockRows(w) PROVE Inv'
<1> DEFINE c == [call[w] EXCEPT !.rows = @ \cap ledger,
                   !.pc = IF Kind[call[w].target] = "ITEM_ISSUE"
                          THEN "stockLocked" ELSE "checked"]
<1>1. call[w] \in Calls
  BY CallIs
<1>2. /\ c \in Calls /\ c.op = call[w].op /\ c.target = call[w].target
      /\ c.unit = call[w].unit /\ c.pc \in {"stockLocked", "checked"}
  BY <1>1 DEF Calls
<1>3. call' = [call EXCEPT ![w] = c]
  BY DEF LockRows, Goto
<1> HIDE DEF c
<1> QED BY <1>2, <1>3, VerifyGoesOn DEF LockRows

(* The comparison with the balance writes nothing.                         *)
LEMMA CheckBalanceInv ==
  ASSUME Inv, NEW w \in Workers, CheckBalance(w) PROVE Inv'
<1> DEFINE c == [call[w] EXCEPT !.pc = "checked"]
<1>1. call[w] \in Calls
  BY CallIs
<1>2. /\ c \in Calls /\ c.op = call[w].op /\ c.target = call[w].target
      /\ c.unit = call[w].unit /\ c.pc = "checked"
  BY <1>1 DEF Calls
<1>3. call' = [call EXCEPT ![w] = c]
  BY DEF CheckBalance, Goto
<1> HIDE DEF c
<1> QED BY <1>2, <1>3, VerifyGoesOn DEF CheckBalance

(* The allocation takes what is there: its rows are covered by the layers  *)
(* as they are now.                                                        *)
LEMMA AllocateFifoInv ==
  ASSUME Inv, NEW w \in Workers, AllocateFifo(w) PROVE Inv'
<1> DEFINE i == call[w].target
           u == call[w].unit
           layers == Layers(u)
           acc == Allocate(layers, Wanted[i])
           c == [call[w] EXCEPT !.pc = "allocated", !.layers = layers,
                   !.taken = acc.taken, !.balance = Balance("AVAILABLE", u)]
<1>1. call[w] \in Calls /\ VerifyCall(call[w])
  BY CallIs DEF AllocateFifo
<1>2. i \in Issues /\ u \in Units /\ Wanted[i] \in Nat /\ RowsHaveDocuments
  BY <1>1, LedgerConstants DEF VerifyCall, Inv
<1>3. PICK n \in Nat :
        /\ layers \in [1..n -> PricedRows]
        /\ DistinctRates(layers, n) /\ Sorted(layers)
        /\ \A j \in 1..n : layers[j].left = Net(Layer(u, layers[j].rate))
  BY <1>2, LayersAre
<1> HIDE DEF layers
<1>4. PICK took : Took(layers, n, n, Wanted[i], acc, took)
  BY <1>2, <1>3, AllocateTook
<1>5. acc.taken \in Seq([rate : Nat, qty : Nat]) /\ layers \in Seq(PricedRows)
  <2>1. acc \in Allocations
    BY <1>4 DEF Took
  <2>2. acc.taken \in Seq([rate : Nat, qty : Nat])
    BY <2>1 DEF Allocations
  <2>3. layers \in Seq(PricedRows)
    BY <1>3
  <2> QED BY <2>2, <2>3
<1>6. Balance("AVAILABLE", u) \in Int
  <2>1. Countable(Stock("AVAILABLE", u))
    BY <1>2, SomeRows DEF Stock
  <2> QED BY <2>1, NetInt DEF Balance
<1>7. acc.short = 0
  BY DEF AllocateFifo, layers
<1> HIDE DEF acc
<1>8. /\ c \in Calls /\ c.op = call[w].op /\ c.target = i /\ c.unit = u
      /\ c.pc = "allocated" /\ c.layers = layers /\ c.taken = acc.taken
  BY <1>1, <1>5, <1>6 DEF Calls
<1>9. call' = [call EXCEPT ![w] = c]
  BY DEF AllocateFifo, Goto, layers, acc
<1> HIDE DEF c, i, u
<1>10. Fifo(c)
  BY <1>2, <1>3, <1>4, <1>7, <1>8, AllocatedIsFifo
<1>11. PricedOnce(c) /\ Covered(c)
  BY <1>2, <1>3, <1>4, <1>7, <1>8, AllocatedIsPriced
<1> QED BY <1>8, <1>9, <1>10, <1>11, VerifyGoesOn DEF AllocateFifo, i, u

(* A transaction that ends without a commit leaves no trace.               *)
LEMMA AbortInv ==
  ASSUME Inv, NEW w \in Workers, Abort(w) PROVE Inv'
<1>1. CallOK(Idle)
  BY DEF CallOK
<1>2. \A v \in Workers \ {w} : Apart(call[v], Idle)
  BY DEF Apart, Idle
<1>3. call' = [call EXCEPT ![w] = Idle]
  BY DEF Abort, End
<1> QED BY <1>1, <1>2, <1>3, IdleTyped, Quiet DEF Abort

(* updateItem changes the unit of the item, and no row.                    *)
LEMMA ChangeUnitInv ==
  ASSUME Inv, NEW u \in Units, ChangeUnit(u) PROVE Inv'
<1>1. TypeOK'
  BY DEF Inv, TypeOK, ChangeUnit
<1>2. RowsHaveDocuments' /\ RowsShowPurchases' /\ Balanced' /\ NoneShort'
  BY DEF ChangeUnit, Inv, RowsHaveDocuments, RowsShowPurchases, Balanced, NoneShort,
         RowsOf, Layer, Stock, Balance, Arrived
<1>3. \A d : CallOK(d) => CallOK(d)'
  BY CallStays DEF ChangeUnit
<1>4. \A v \in Workers : CallOK(call[v])'
  <2>1. \A v \in Workers : CallOK(call[v]) /\ call'[v] = call[v]
    BY DEF Inv, ChangeUnit
  <2> QED BY <1>3, <2>1
<1>5. /\ call' \in [Workers -> Calls]
      /\ (\A v, x \in Workers : v # x => Apart(call[v], call[x]))'
  BY DEF Inv, ChangeUnit, Apart
<1> QED BY <1>1, <1>2, <1>4, <1>5 DEF Inv

-----------------------------------------------------------------------------
(* A purchase is written: its rows are replaced by the one it has now.     *)

NewRows(p, b) == IF b.status = "LIVE" THEN {PurchaseRow(p, b)} ELSE {}

Documents == [status : {"LIVE", "DELETED"}, version : 0..MaxVersion,
              unit : Units \cup {None}, qty : Nat, rate : Nat, date : Nat]

PurchaseWritten(w, p, b) ==
  /\ call' = [call EXCEPT ![w] = Idle]
  /\ purchase' = [purchase EXCEPT ![p] = b]
  /\ ledger' = (ledger \ RowsOf(p)) \cup NewRows(p, b)
  /\ edited' = edited \cup {<<row.unit, row.rate>> : row \in RowsOf(p)}
  /\ UNCHANGED <<itemUnit, verified>>

(* Some rows out, others in.                                               *)
LEMMA NetSwap ==
  ASSUME NEW R, Countable(R), NEW Old, Old \subseteq R,
         NEW New, Countable(New), New \cap (R \ Old) = {}
  PROVE  Net((R \ Old) \cup New) = Net(R) - Net(Old) + Net(New)
<1>1. Countable(R \ Old) /\ Countable(Old)
  BY FS_Subset DEF Countable
<1>2. (R \ Old) \cup Old = R /\ (R \ Old) \cap Old = {} /\ (R \ Old) \cap New = {}
  OBVIOUS
<1>3. Net((R \ Old) \cup Old) = Net(R \ Old) + Net(Old)
  BY <1>1, <1>2, NetUnion
<1>4. Net((R \ Old) \cup New) = Net(R \ Old) + Net(New)
  BY <1>1, <1>2, NetUnion
<1>5. Net(R \ Old) \in Int /\ Net(Old) \in Int /\ Net(New) \in Int
  BY <1>1, NetInt
<1>6. Net(R) = Net(R \ Old) + Net(Old)
  BY <1>2, <1>3
<1> QED BY <1>4, <1>5, <1>6

(* What a purchase adds to the balance of a unit.                          *)
Worth(b, u) == IF b.status = "LIVE" /\ b.unit = u THEN b.qty ELSE 0

(* The rows written for a purchase: one row with its unit, rate and        *)
(* quantity, or none if it is deleted.                                     *)
LEMMA NewRowsAre ==
  ASSUME NEW p \in Purchases, NEW b, b.status = "LIVE" => b \in Saved
  PROVE  /\ Countable(NewRows(p, b)) /\ NewRows(p, b) \subseteq LedgerRows
         /\ \A row \in NewRows(p, b) :
              /\ row = PurchaseRow(p, b) /\ b.status = "LIVE"
              /\ row.type = "PURCHASE" /\ row.ref = p /\ row.cat = "AVAILABLE"
              /\ row.unit = b.unit /\ row.rate = b.rate /\ row.qty = b.qty /\ row.qty \in Nat
<1>1. CASE b.status = "LIVE"
  <2>1. NewRows(p, b) = {PurchaseRow(p, b)} /\ b \in Saved
    BY <1>1 DEF NewRows
  <2>2. /\ PurchaseRow(p, b) \in LedgerRows
        /\ PurchaseRow(p, b).type = "PURCHASE" /\ PurchaseRow(p, b).ref = p
        /\ PurchaseRow(p, b).cat = "AVAILABLE" /\ PurchaseRow(p, b).unit = b.unit
        /\ PurchaseRow(p, b).rate = b.rate /\ PurchaseRow(p, b).qty = b.qty
        /\ PurchaseRow(p, b).qty \in Nat
    BY <2>1, LedgerConstants DEF PurchaseRow, Row, LedgerRows, Saved, Categories
  <2>3. Countable({PurchaseRow(p, b)})
    BY <2>2, FS_Singleton DEF Countable
  <2> QED BY <1>1, <2>1, <2>2, <2>3
<1>2. CASE b.status # "LIVE"
  BY <1>2, FS_EmptySet DEF NewRows, Countable
<1> QED BY <1>1, <1>2

(* They come to what the purchase counts for in its unit.                  *)
LEMMA WorthIs ==
  ASSUME NEW p \in Purchases, NEW b, b.status = "LIVE" => b \in Saved, NEW u
  PROVE  /\ Net({row \in NewRows(p, b) : row.unit = u}) = Worth(b, u)
         /\ Worth(b, u) \in Nat
<1> DEFINE R == {row \in NewRows(p, b) : row.unit = u}
<1>1. CASE b.status = "LIVE" /\ b.unit = u
  <2>1. PurchaseRow(p, b) \in NewRows(p, b) /\ b \in Saved
    BY <1>1 DEF NewRows
  <2>2. R = {PurchaseRow(p, b)} /\ PurchaseRow(p, b).qty = b.qty /\ b.qty \in Nat
    BY <1>1, <2>1, NewRowsAre
  <2> HIDE DEF R
  <2>3. Net({PurchaseRow(p, b)}) = b.qty
    BY <2>2, NetOne
  <2> QED BY <1>1, <2>2, <2>3 DEF R, Worth
<1>2. CASE ~(b.status = "LIVE" /\ b.unit = u)
  <2>1. R = {}
    BY <1>2, NewRowsAre
  <2> HIDE DEF R
  <2>2. Net(R) = 0
    BY <2>1, NetEmpty
  <2> QED BY <1>2, <2>2 DEF R, Worth
<1> QED BY <1>1, <1>2

(* A purchase that is not live, or has been saved.                         *)
LEMMA PurchaseSaved ==
  ASSUME Inv, NEW p \in Purchases
  PROVE  /\ purchase[p].status = "LIVE" => purchase[p] \in Saved
         /\ RowsOf(p) = NewRows(p, purchase[p])
BY DEF Inv, RowsHaveDocuments, RowsShowPurchases, NewRows

(* After a purchase is written the ledger shows it, and shows every other  *)
(* as before.                                                              *)
LEMMA WrittenRows ==
  ASSUME Inv, NEW w \in Workers, NEW p \in Purchases, NEW b \in Documents,
         b.status = "LIVE" => b \in Saved, PurchaseWritten(w, p, b)
  PROVE  /\ \A row \in NewRows(p, b) : row \notin ledger \ RowsOf(p)
         /\ \A q \in Purchases : RowsOf(q)' = IF q = p THEN NewRows(p, b) ELSE RowsOf(q)
         /\ RowsHaveDocuments' /\ RowsShowPurchases' /\ TypeOK'
<1>1. /\ NewRows(p, b) \subseteq LedgerRows /\ IsFiniteSet(NewRows(p, b))
      /\ \A row \in NewRows(p, b) : /\ row.type = "PURCHASE" /\ row.ref = p
                                    /\ row.cat = "AVAILABLE" /\ row = PurchaseRow(p, b)
  BY NewRowsAre DEF Countable
<1>2. \A row \in NewRows(p, b) : row \notin ledger \ RowsOf(p)
  BY <1>1 DEF RowsOf
<1>3. ledger' = (ledger \ RowsOf(p)) \cup NewRows(p, b)
  BY DEF PurchaseWritten
<1>4. \A q \in Purchases : RowsOf(q)' = IF q = p THEN NewRows(p, b) ELSE RowsOf(q)
  BY <1>1, <1>3 DEF RowsOf
<1>5. /\ purchase \in [Purchases -> [status : {"ABSENT", "LIVE", "DELETED"},
           version : 0..MaxVersion, unit : Units \cup {None},
           qty : Nat, rate : Nat, date : Nat]]
      /\ purchase' = [purchase EXCEPT ![p] = b] /\ purchase'[p] = b
      /\ \A q \in Purchases \ {p} : purchase'[q] = purchase[q]
  BY DEF Inv, TypeOK, PurchaseWritten
<1>6. RowsHaveDocuments'
  <2>1. IsFiniteSet(ledger') /\ ledger' \subseteq LedgerRows
    <3>1. IsFiniteSet(ledger) /\ ledger \subseteq LedgerRows
      BY DEF Inv, RowsHaveDocuments
    <3>2. IsFiniteSet(ledger \ RowsOf(p))
      BY <3>1, FS_Subset
    <3>3. IsFiniteSet((ledger \ RowsOf(p)) \cup NewRows(p, b))
      BY <1>1, <3>2, FS_Union
    <3> QED BY <1>1, <1>3, <3>1, <3>3
  <2>2. \A q \in Purchases : purchase'[q].status = "LIVE" => purchase'[q] \in Saved
    BY <1>5 DEF Inv, RowsHaveDocuments
  <2>3. \A row \in ledger' :
          /\ row.type = "PURCHASE" => row.ref \in Purchases
          /\ row.type \in {"ITEM_ISSUE", "DEPARTMENT_CONSUMPTION"} =>
               row.ref \in Issues /\ verified'[row.ref] # None
    BY <1>1, <1>3 DEF Inv, RowsHaveDocuments, PurchaseWritten
  <2>4. ASSUME NEW row \in ledger', row.type = "ITEM_ISSUE_IN_TRANSIT"
        PROVE  \E r \in ledger' : r.type = "ITEM_ISSUE_RECEIPT"
    <3>1. row \in ledger
      BY <1>1, <1>3, <2>4
    <3>2. PICK r \in ledger : r.type = "ITEM_ISSUE_RECEIPT"
      BY <2>4, <3>1 DEF Inv, RowsHaveDocuments
    <3>3. r \in ledger'
      BY <1>3, <3>2 DEF RowsOf
    <3> QED BY <3>2, <3>3
  <2> QED BY <2>1, <2>2, <2>3, <2>4 DEF RowsHaveDocuments
<1>7. RowsShowPurchases'
  BY <1>4, <1>5 DEF Inv, RowsShowPurchases, NewRows
<1>8. TypeOK'
  <2>1. itemUnit' \in Units /\ verified' \in [Issues -> Units \cup {None}]
        /\ DOMAIN call' = Workers
    BY DEF Inv, TypeOK, PurchaseWritten
  <2>2. purchase' \in [Purchases -> [status : {"ABSENT", "LIVE", "DELETED"},
           version : 0..MaxVersion, unit : Units \cup {None},
           qty : Nat, rate : Nat, date : Nat]]
    BY <1>5 DEF Documents
  <2>3. \A row \in ledger' : row.cat \in Categories /\ row.unit \in Units /\ row.qty # 0
    BY <1>6 DEF RowsHaveDocuments, LedgerRows
  <2>4. \A r1, r2 \in ledger' : SourceKey(r1) = SourceKey(r2) => r1 = r2
    <3> SUFFICES ASSUME NEW r1 \in ledger', NEW r2 \in ledger', SourceKey(r1) = SourceKey(r2)
                 PROVE  r1 = r2
      OBVIOUS
    <3>1. r1.type = r2.type /\ r1.ref = r2.ref
      BY DEF SourceKey
    <3>2. CASE r1 \in NewRows(p, b)
      <4>1. r2 \in NewRows(p, b)
        BY <1>1, <1>3, <3>1, <3>2 DEF RowsOf
      <4> QED BY <1>1, <3>2, <4>1
    <3>3. CASE r1 \notin NewRows(p, b)
      <4>1. r1 \in ledger /\ r2 \in ledger
        BY <1>1, <1>3, <3>1, <3>3 DEF RowsOf
      <4> QED BY <4>1 DEF Inv, TypeOK
    <3> QED BY <3>2, <3>3
  <2>5. edited' \subseteq Units \X Nat
    <3>1. \A row \in RowsOf(p) : row.unit \in Units /\ row.rate \in Nat
      BY DEF RowsOf, Inv, RowsHaveDocuments, LedgerRows
    <3> QED BY <3>1 DEF Inv, TypeOK, PurchaseWritten
  <2> QED BY <2>1, <2>2, <2>3, <2>4, <2>5 DEF TypeOK
<1> QED BY <1>2, <1>4, <1>6, <1>7, <1>8

(* Rows that bring goods in come to a quantity.                            *)
LEMMA NetNatural ==
  ASSUME NEW R, Countable(R), \A row \in R : row.qty \in Nat
  PROVE  Net(R) \in Int /\ Net(R) >= 0
<1>1. \A row \in R : Quantity(R)[row] \in Nat
  BY DEF Quantity
<1>2. SumFunctionOnSet(Quantity(R), R) \in Nat
  BY <1>1, SumNat DEF Countable
<1> QED BY <1>2, NetIsSum DEF Countable

(* What is issued has a sum.                                               *)
LEMMA IssuedInt ==
  ASSUME NEW v, NEW u PROVE Issued(v, u) \in Int
<1> DEFINE f == [i \in Issues |-> IF v[i] = u THEN Wanted[i] ELSE 0]
<1>1. \A i \in Issues : f[i] \in Int
  BY LedgerConstants
<1> HIDE DEF f
<1>2. SumFunctionOnSet(f, Issues) \in Int
  BY <1>1, FiniteAssumption, SumInt
<1> QED BY <1>2 DEF Issued, f

(* Writing a purchase changes what is bought by what it counts for,        *)
(* before and after.                                                       *)
LEMMA BoughtChanges ==
  ASSUME Inv, NEW w \in Workers, NEW p \in Purchases, NEW b \in Documents,
         b.status = "LIVE" => b \in Saved, PurchaseWritten(w, p, b), NEW u
  PROVE  /\ Bought(purchase', u) = Bought(purchase, u) + Worth(b, u) - Worth(purchase[p], u)
         /\ Bought(purchase, u) \in Int
<1> DEFINE f == [q \in Purchases |->
                   IF purchase[q].status = "LIVE" /\ purchase[q].unit = u
                   THEN purchase[q].qty ELSE 0]
           g == [q \in Purchases |->
                   IF purchase'[q].status = "LIVE" /\ purchase'[q].unit = u
                   THEN purchase'[q].qty ELSE 0]
<1>1. /\ purchase'[p] = b /\ \A q \in Purchases \ {p} : purchase'[q] = purchase[q]
      /\ \A q \in Purchases : purchase[q].qty \in Nat
  BY DEF Inv, TypeOK, PurchaseWritten
<1>2. /\ \A q \in Purchases : f[q] \in Int
      /\ \A q \in Purchases \ {p} : g[q] = f[q]
      /\ f[p] = Worth(purchase[p], u) /\ g[p] = Worth(b, u)
  BY <1>1 DEF Worth
<1>3. g[p] \in Int
  <2>1. Worth(b, u) \in Nat
    BY WorthIs
  <2> QED BY <1>2, <2>1
<1>4. Bought(purchase, u) = SumFunctionOnSet(f, Purchases)
  BY DEF Bought
<1>5. Bought(purchase', u) = SumFunctionOnSet(g, Purchases)
  BY DEF Bought
<1> HIDE DEF f, g
<1>6. SumFunctionOnSet(g, Purchases) = SumFunctionOnSet(f, Purchases) + g[p] - f[p]
  BY <1>2, <1>3, FiniteAssumption, SumChange
<1>7. SumFunctionOnSet(f, Purchases) \in Int
  BY <1>2, FiniteAssumption, SumInt
<1> QED BY <1>2, <1>4, <1>5, <1>6, <1>7

(* The balance changes by what the purchase is worth.                      *)
LEMMA WrittenBalance ==
  ASSUME Inv, NEW w \in Workers, NEW p \in Purchases, NEW b \in Documents,
         b.status = "LIVE" => b \in Saved, PurchaseWritten(w, p, b)
  PROVE  Balanced'
<1> SUFFICES ASSUME NEW u \in Units
             PROVE  Balance("AVAILABLE", u)'
                      = Bought(purchase', u) + Arrived(u)' - Issued(verified', u)
  BY DEF Balanced
<1> DEFINE S == Stock("AVAILABLE", u)
           Old == {row \in NewRows(p, purchase[p]) : row.unit = u}
           New == {row \in NewRows(p, b) : row.unit = u}
<1>1. RowsHaveDocuments /\ RowsOf(p) = NewRows(p, purchase[p])
      /\ (purchase[p].status = "LIVE" => purchase[p] \in Saved)
  BY PurchaseSaved DEF Inv
<1>2. /\ \A row \in NewRows(p, purchase[p]) : row.type = "PURCHASE" /\ row.cat = "AVAILABLE"
      /\ \A row \in NewRows(p, b) : row.type = "PURCHASE" /\ row.cat = "AVAILABLE"
  BY <1>1, NewRowsAre
<1>3. ledger' = (ledger \ RowsOf(p)) \cup NewRows(p, b) /\ RowsOf(p) \subseteq ledger
  BY DEF PurchaseWritten, RowsOf
<1>4. Stock("AVAILABLE", u)' = (S \ Old) \cup New /\ Old \subseteq S
  BY <1>1, <1>2, <1>3 DEF Stock
<1>5. New \cap (S \ Old) = {}
  <2>1. \A row \in NewRows(p, b) : row \notin ledger \ RowsOf(p)
    BY WrittenRows
  <2> QED BY <1>1, <2>1 DEF Stock
<1>6. Countable(S) /\ Countable(New)
  <2>1. Countable(NewRows(p, b))
    BY NewRowsAre
  <2> QED BY <1>1, <2>1, SomeRows, FS_Subset DEF Stock, Countable
<1>7. Net(Old) = Worth(purchase[p], u) /\ Net(New) = Worth(b, u)
  BY <1>1, WorthIs
<1>8. Worth(purchase[p], u) \in Nat /\ Worth(b, u) \in Nat
  BY <1>1, WorthIs
<1>9. Arrived(u)' = Arrived(u)
  <2>1. {row \in Stock("AVAILABLE", u) : row.type = "ITEM_ISSUE_RECEIPT"}'
          = {row \in S : row.type = "ITEM_ISSUE_RECEIPT"}
    BY <1>2, <1>4
  <2> QED BY <2>1 DEF Arrived
<1> HIDE DEF Old, New, S
<1>10. Net((S \ Old) \cup New) = Net(S) - Net(Old) + Net(New)
  BY <1>4, <1>5, <1>6, NetSwap
<1>11. Balance("AVAILABLE", u)' = Net(S) - Worth(purchase[p], u) + Worth(b, u)
  BY <1>4, <1>7, <1>10 DEF Balance
<1>12. Net(S) = Bought(purchase, u) + Arrived(u) - Issued(verified, u)
  BY DEF Inv, Balanced, Balance, S
<1>13. /\ Bought(purchase', u) = Bought(purchase, u) + Worth(b, u) - Worth(purchase[p], u)
       /\ Bought(purchase, u) \in Int
  BY BoughtChanges
<1>14. Net(S) \in Int /\ Arrived(u) \in Int /\ Issued(verified, u) \in Int
  BY <1>1, <1>6, NetInt, SomeRows, IssuedInt DEF Arrived, Stock
<1>15. verified' = verified
  BY DEF PurchaseWritten
<1> QED BY <1>8, <1>9, <1>11, <1>12, <1>13, <1>14, <1>15

(* Where no row was taken back, no layer shrinks.                          *)
LEMMA WrittenLayers ==
  ASSUME Inv, NEW w \in Workers, NEW p \in Purchases, NEW b \in Documents,
         b.status = "LIVE" => b \in Saved, PurchaseWritten(w, p, b),
         NEW u, NEW rate, <<u, rate>> \notin edited'
  PROVE  /\ <<u, rate>> \notin edited
         /\ Net(Layer(u, rate)) \in Int /\ Net(Layer(u, rate)') \in Int
         /\ Net(Layer(u, rate)') >= Net(Layer(u, rate))
<1> DEFINE L == Layer(u, rate)
           New == {row \in NewRows(p, b) : row.unit = u /\ row.rate = rate}
<1>1. <<u, rate>> \notin edited /\ \A row \in RowsOf(p) : ~(row.unit = u /\ row.rate = rate)
  BY DEF PurchaseWritten
<1>2. \A row \in NewRows(p, b) : row.cat = "AVAILABLE" /\ row.qty \in Nat
  BY NewRowsAre
<1>3. Layer(u, rate)' = L \cup New
  BY <1>1, <1>2 DEF PurchaseWritten, Layer, Stock
<1>4. L \cap New = {}
  <2>1. \A row \in NewRows(p, b) : row \notin ledger \ RowsOf(p)
    BY WrittenRows
  <2> QED BY <1>1, <2>1 DEF Layer, Stock
<1>5. Countable(L) /\ Countable(New)
  <2>1. Countable(NewRows(p, b)) /\ RowsHaveDocuments
    BY NewRowsAre DEF Inv
  <2> QED BY <2>1, SomeRows, FS_Subset DEF Stock, Layer, Countable
<1>6. Net(New) >= 0 /\ Net(New) \in Int
  BY <1>2, <1>5, NetNatural
<1> HIDE DEF L, New
<1>7. Net(L \cup New) = Net(L) + Net(New) /\ Net(L) \in Int
  BY <1>4, <1>5, NetUnion, NetInt
<1> QED BY <1>1, <1>3, <1>6, <1>7 DEF L

(* The calls of others that may be under way when a purchase is written.   *)
WrittenAlone(w, p, b) ==
  /\ \A v \in Workers \ {w} :
       /\ call[v].op = "CREATE" => call[v].target # p
       /\ call[v].op = "UPDATE" /\ call[v].pc # "read" => call[v].target # p
       /\ call[v].op = "DELETE" /\ call[v].target = p =>
            /\ call[v].expected <= b.version
            /\ b.status = "LIVE" => call[v].expected # b.version

(* The calls under way are still in order after another call has written   *)
(* its purchase.                                                           *)
LEMMA WrittenCalls ==
  ASSUME Inv, NEW w \in Workers, NEW p \in Purchases, NEW b \in Documents,
         b.status = "LIVE" => b \in Saved, PurchaseWritten(w, p, b), WrittenAlone(w, p, b)
  PROVE  /\ \A v \in Workers : CallOK(call[v])'
         /\ call' \in [Workers -> Calls]
         /\ (\A v, x \in Workers : v # x => Apart(call[v], call[x]))'
<1>1. /\ call \in [Workers -> Calls] /\ call' = [call EXCEPT ![w] = Idle]
      /\ call'[w] = Idle /\ \A v \in Workers \ {w} : call'[v] = call[v]
  BY DEF PurchaseWritten, Inv
<1>2. call' \in [Workers -> Calls]
  BY <1>1, IdleTyped
<1>3. (\A v, x \in Workers : v # x => Apart(call[v], call[x]))'
  BY <1>1 DEF Inv, Apart, Idle
<1>4. CallOK(call[w])'
  BY <1>1 DEF CallOK
<1>5. /\ purchase'[p] = b /\ \A q \in Purchases \ {p} : purchase'[q] = purchase[q]
      /\ verified' = verified /\ b.status # "ABSENT"
  BY DEF Inv, TypeOK, PurchaseWritten, Documents
<1>6. \A q \in Purchases : RowsOf(q)' = IF q = p THEN NewRows(p, b) ELSE RowsOf(q)
  BY WrittenRows
<1>7. ASSUME NEW v \in Workers \ {w} PROVE CallOK(call[v])'
  <2>0. PICK c : c = call[v]
    OBVIOUS
  <2>1. call'[v] = c /\ CallOK(c) /\ c \in Calls
    BY <1>1, <2>0, CallIs
  <2>2. CASE c = Idle
    BY <2>1, <2>2 DEF CallOK
  <2>3. CASE CreateCall(c)
    <3>1. c.target # p
      BY <2>0, <2>3 DEF CreateCall, WrittenAlone
    <3>2. CreateCall(call[v])'
      BY <1>5, <2>1, <2>3, <3>1 DEF CreateCall
    <3> QED BY <3>2 DEF CallOK
  <2>4. CASE UpdateCall(c)
    <3>1. c.pc # "read" => c.target # p
      BY <2>0, <2>4 DEF UpdateCall, WrittenAlone
    <3>2. UpdateCall(call[v])'
      BY <1>5, <1>6, <2>1, <2>4, <3>1 DEF UpdateCall, SameVersion
    <3> QED BY <3>2 DEF CallOK
  <2>5. CASE DeleteCall(c)
    <3>1. c.target = p => c.expected <= b.version /\ (b.status = "LIVE" => c.expected # b.version)
      BY <2>0, <2>5 DEF DeleteCall, WrittenAlone
    <3>2. DeleteCall(call[v])'
      BY <1>5, <1>6, <2>1, <2>5, <3>1 DEF DeleteCall, SameVersion
    <3> QED BY <3>2 DEF CallOK
  <2>6. CASE VerifyCall(c)
    <3>1. c.pc = "allocated" => Covered(c)'
      <4> SUFFICES ASSUME c.pc = "allocated",
                          NEW row \in IssueRows(c), <<c.unit, row.rate>> \notin edited'
                   PROVE  Net(Layer(c.unit, row.rate)') + row.qty >= 0
        BY <2>1 DEF Covered
      <4>1. /\ <<c.unit, row.rate>> \notin edited
            /\ Net(Layer(c.unit, row.rate)) \in Int /\ Net(Layer(c.unit, row.rate)') \in Int
            /\ Net(Layer(c.unit, row.rate)') >= Net(Layer(c.unit, row.rate))
        BY WrittenLayers
      <4>2. Net(Layer(c.unit, row.rate)) + row.qty >= 0
        BY <2>6, <4>1 DEF VerifyCall, Covered
      <4>3. row.qty \in Int
        BY <2>6 DEF VerifyCall, PricedOnce, LedgerRows
      <4> QED BY <4>1, <4>2, <4>3
    <3>2. VerifyCall(call[v])'
      BY <1>5, <2>1, <2>6, <3>1 DEF VerifyCall
    <3> QED BY <3>2 DEF CallOK
  <2> QED BY <2>1, <2>2, <2>3, <2>4, <2>5, <2>6 DEF CallOK
<1>8. \A v \in Workers : CallOK(call[v])'
  BY <1>4, <1>7
<1> QED BY <1>2, <1>3, <1>8

(* Writing a purchase keeps the invariant.                                 *)
LEMMA WrittenInv ==
  ASSUME Inv, NEW w \in Workers, NEW p \in Purchases, NEW b \in Documents,
         b.status = "LIVE" => b \in Saved, PurchaseWritten(w, p, b), WrittenAlone(w, p, b)
  PROVE  Inv'
<1>1. RowsHaveDocuments' /\ RowsShowPurchases' /\ TypeOK'
  BY WrittenRows
<1>2. Balanced'
  BY WrittenBalance
<1>3. NoneShort'
  <2> SUFFICES ASSUME NEW u \in Units, NEW rate \in Nat, <<u, rate>> \notin edited'
               PROVE  Net(Layer(u, rate)') >= 0
    BY DEF NoneShort
  <2>1. /\ <<u, rate>> \notin edited
        /\ Net(Layer(u, rate)) \in Int /\ Net(Layer(u, rate)') \in Int
        /\ Net(Layer(u, rate)') >= Net(Layer(u, rate))
    BY WrittenLayers
  <2>2. Net(Layer(u, rate)) >= 0
    BY <2>1 DEF Inv, NoneShort
  <2> QED BY <2>1, <2>2
<1>4. /\ \A v \in Workers : CallOK(call[v])'
      /\ call' \in [Workers -> Calls]
      /\ (\A v, x \in Workers : v # x => Apart(call[v], call[x]))'
  BY WrittenCalls
<1> QED BY <1>1, <1>2, <1>3, <1>4 DEF Inv

(* createPurchase writes a purchase that was not there.                    *)
LEMMA CreateCommitInv ==
  ASSUME Inv, NEW w \in Workers, CreateCommit(w) PROVE Inv'
<1> DEFINE p == call[w].target
           b == call[w].content
<1>1. CreateCall(call[w])
  BY CallIs DEF CreateCommit
<1>2. p \in Purchases /\ b \in Saved /\ b \in Documents /\ b.status = "LIVE"
  BY <1>1 DEF CreateCall, Saved, Documents
<1>3. RowsOf(p) = {}
  BY <1>1, <1>2 DEF CreateCall, Inv, RowsShowPurchases
<1>4. PurchaseWritten(w, p, b)
  BY <1>2, <1>3 DEF PurchaseWritten, CreateCommit, End, NewRows
<1>5. WrittenAlone(w, p, b)
  <2> SUFFICES ASSUME NEW v \in Workers \ {w}
               PROVE  /\ call[v].op = "CREATE" => call[v].target # p
                      /\ call[v].op = "UPDATE" /\ call[v].pc # "read" => call[v].target # p
                      /\ call[v].op = "DELETE" => call[v].target # p
    BY DEF WrittenAlone
  <2>1. Apart(call[v], call[w]) /\ purchase[p].status = "ABSENT"
    BY <1>1 DEF Inv, CreateCall
  <2>2. /\ call[v].op = "UPDATE" => UpdateCall(call[v])
        /\ call[v].op = "DELETE" => DeleteCall(call[v])
    BY CallIs
  <2> QED BY <2>1, <2>2 DEF Apart, CreateCommit, UpdateCall, DeleteCall, SameVersion
<1> HIDE DEF p, b
<1> QED BY <1>2, <1>4, <1>5, WrittenInv

(* updatePurchase writes the purchase its header already belongs to.       *)
LEMMA UpdateCommitInv ==
  ASSUME Inv, NEW w \in Workers, UpdateCommit(w) PROVE Inv'
<1> DEFINE p == call[w].target
           b == call[w].content
<1>1. UpdateCall(call[w]) /\ call[w].op = "UPDATE" /\ call[w].pc = "rowsDeleted"
      /\ call[w] \in Calls
  BY CallIs DEF UpdateCommit
<1>2. p \in Purchases /\ b \in Saved /\ b \in Documents /\ b.status = "LIVE"
  BY <1>1 DEF UpdateCall, Saved, Documents
<1>3. /\ call[w].rows = RowsOf(p) /\ SameVersion(p, call[w].expected)
      /\ call[w].expected < b.version
  BY <1>1 DEF UpdateCall
<1>4. PurchaseWritten(w, p, b)
  BY <1>2, <1>3 DEF PurchaseWritten, UpdateCommit, End, TakeBack, NewRows
<1>5. WrittenAlone(w, p, b)
  <2> SUFFICES ASSUME NEW v \in Workers \ {w}
               PROVE  /\ call[v].op = "CREATE" => call[v].target # p
                      /\ call[v].op = "UPDATE" /\ call[v].pc # "read" => call[v].target # p
                      /\ call[v].op = "DELETE" /\ call[v].target = p =>
                           call[v].expected <= b.version /\ call[v].expected # b.version
    BY DEF WrittenAlone
  <2>1. Apart(call[v], call[w])
    BY DEF Inv
  <2>2. /\ call[v].op = "CREATE" => CreateCall(call[v])
        /\ call[v].op = "DELETE" => DeleteCall(call[v])
        /\ call[v] \in Calls
    BY CallIs
  <2>3. purchase[p].status = "LIVE" /\ purchase[p].version < b.version
    BY <1>3 DEF SameVersion
  <2>4. call[v].expected \in Nat /\ b.version \in Nat /\ purchase[p].version \in Nat
    BY <1>2, <2>2 DEF Calls, Documents, Inv, TypeOK
  <2>5. call[v].op = "DELETE" /\ call[v].target = p => call[v].expected <= purchase[p].version
    BY <2>2 DEF DeleteCall
  <2> QED BY <1>1, <2>1, <2>2, <2>3, <2>4, <2>5 DEF Apart, CreateCall
<1> HIDE DEF p, b
<1> QED BY <1>2, <1>4, <1>5, WrittenInv

(* deletePurchase writes a purchase without rows if its version is the     *)
(* expected one.                                                           *)
LEMMA DeleteCommitInv ==
  ASSUME Inv, NEW w \in Workers, DeleteCommit(w) PROVE Inv'
<1> DEFINE p == call[w].target
           b == [purchase[p] EXCEPT !.status = "DELETED"]
<1>1. DeleteCall(call[w]) /\ call[w].op = "DELETE" /\ SameVersion(p, call[w].expected)
  BY CallIs DEF DeleteCommit
<1>2. p \in Purchases /\ call[w].rows = RowsOf(p)
  BY <1>1 DEF DeleteCall
<1>3. b \in Documents /\ b.status = "DELETED" /\ b.version = purchase[p].version
  BY <1>2 DEF Inv, TypeOK, Documents
<1>4. PurchaseWritten(w, p, b)
  <2>1. purchase' = [purchase EXCEPT ![p] = b]
    BY DEF DeleteCommit
  <2> HIDE DEF b
  <2> QED BY <1>2, <1>3, <2>1 DEF PurchaseWritten, DeleteCommit, End, TakeBack, NewRows
<1>5. WrittenAlone(w, p, b)
  <2> SUFFICES ASSUME NEW v \in Workers \ {w}
               PROVE  /\ call[v].op = "CREATE" => call[v].target # p
                      /\ call[v].op = "UPDATE" /\ call[v].pc # "read" => call[v].target # p
                      /\ call[v].op = "DELETE" /\ call[v].target = p =>
                           call[v].expected <= b.version
    BY <1>3 DEF WrittenAlone
  <2>2. /\ call[v].op = "CREATE" => CreateCall(call[v])
        /\ call[v].op = "UPDATE" => UpdateCall(call[v])
        /\ call[v].op = "DELETE" => DeleteCall(call[v])
    BY CallIs
  <2>3. call[v].op = "CREATE" => call[v].target # p
    BY <1>1, <2>2 DEF CreateCall, SameVersion
  <2>4. call[v].op = "UPDATE" /\ call[v].pc # "read" => call[v].target # p
    BY <2>2 DEF UpdateCall, DeleteCommit, HeaderFree
  <2>5. call[v].op = "DELETE" /\ call[v].target = p => call[v].expected <= b.version
    BY <1>3, <2>2 DEF DeleteCall
  <2> QED BY <2>3, <2>4, <2>5
<1> HIDE DEF p, b
<1> QED BY <1>2, <1>3, <1>4, <1>5, WrittenInv

(* What is bought has a sum.                                               *)
LEMMA BoughtInt ==
  ASSUME Inv, NEW u PROVE Bought(purchase, u) \in Int
<1> DEFINE f == [q \in Purchases |->
                   IF purchase[q].status = "LIVE" /\ purchase[q].unit = u
                   THEN purchase[q].qty ELSE 0]
<1>1. \A q \in Purchases : f[q] \in Int
  BY DEF Inv, TypeOK
<1> HIDE DEF f
<1>2. SumFunctionOnSet(f, Purchases) \in Int
  BY <1>1, FiniteAssumption, SumInt
<1> QED BY <1>2 DEF Bought, f

-----------------------------------------------------------------------------
(* An issue is posted: its rows are added.                                 *)

(* The rows a verification writes are new: its issue has none yet.         *)
LEMMA IssueRowsAre ==
  ASSUME Inv, NEW c, VerifyCall(c), c.pc = "allocated"
  PROVE  \A row \in IssueRows(c) :
           /\ row.type = Kind[c.target] /\ row.ref = c.target /\ row.cat = "AVAILABLE"
           /\ row.unit = c.unit /\ row.line = 1
           /\ row.type \in {"ITEM_ISSUE", "DEPARTMENT_CONSUMPTION"}
           /\ row \in LedgerRows /\ row \notin ledger
           /\ \A r \in ledger : SourceKey(r) # SourceKey(row)
<1> SUFFICES ASSUME NEW row \in IssueRows(c)
    PROVE  /\ row.type = Kind[c.target] /\ row.ref = c.target /\ row.cat = "AVAILABLE"
           /\ row.unit = c.unit /\ row.line = 1
           /\ row.type \in {"ITEM_ISSUE", "DEPARTMENT_CONSUMPTION"}
           /\ row \in LedgerRows /\ row \notin ledger
           /\ \A r \in ledger : SourceKey(r) # SourceKey(row)
  OBVIOUS
<1>1. c.target \in Issues /\ verified[c.target] = None /\ IssueRows(c) \subseteq LedgerRows
  BY DEF VerifyCall, PricedOnce
<1>2. Kind[c.target] \in {"ITEM_ISSUE", "DEPARTMENT_CONSUMPTION"}
  BY <1>1, LedgerConstants
<1>3. /\ row.type = Kind[c.target] /\ row.ref = c.target /\ row.cat = "AVAILABLE"
      /\ row.unit = c.unit /\ row.line = 1
  BY DEF IssueRows, RowsTaken, Row
<1>4. \A r \in ledger : ~(r.type = row.type /\ r.ref = row.ref)
  BY <1>1, <1>2, <1>3 DEF Inv, RowsHaveDocuments
<1>5. \A r \in ledger : SourceKey(r) # SourceKey(row)
  BY <1>4 DEF SourceKey
<1> QED BY <1>1, <1>2, <1>3, <1>4, <1>5

(* Verifying an issue adds what it wants to what is issued in its unit.    *)
LEMMA IssuedChanges ==
  ASSUME Inv, NEW i \in Issues, NEW u \in Units, verified[i] = None,
         verified' = [verified EXCEPT ![i] = u], NEW x \in Units
  PROVE  Issued(verified', x) = Issued(verified, x) + (IF x = u THEN Wanted[i] ELSE 0)
<1> DEFINE f == [j \in Issues |-> IF verified[j] = x THEN Wanted[j] ELSE 0]
           g == [j \in Issues |-> IF verified'[j] = x THEN Wanted[j] ELSE 0]
<1>1. verified'[i] = u /\ \A j \in Issues \ {i} : verified'[j] = verified[j]
  BY DEF Inv, TypeOK
<1>2. \A j \in Issues : Wanted[j] \in Int
  BY LedgerConstants
<1>3. /\ \A j \in Issues : f[j] \in Int
      /\ \A j \in Issues \ {i} : g[j] = f[j]
      /\ f[i] = 0 /\ g[i] = (IF x = u THEN Wanted[i] ELSE 0) /\ g[i] \in Int
  BY <1>1, <1>2, LedgerConstants
<1>4. Issued(verified, x) = SumFunctionOnSet(f, Issues)
  BY DEF Issued
<1>5. Issued(verified', x) = SumFunctionOnSet(g, Issues)
  BY DEF Issued
<1> HIDE DEF f, g
<1>6. SumFunctionOnSet(g, Issues) = SumFunctionOnSet(f, Issues) + g[i] - f[i]
  BY <1>3, FiniteAssumption, SumChange
<1>7. SumFunctionOnSet(f, Issues) \in Int
  BY <1>3, FiniteAssumption, SumInt
<1> QED BY <1>3, <1>4, <1>5, <1>6, <1>7

(* A verification takes from each layer no more than is there, unless a    *)
(* purchase took it back in between.                                       *)
LEMMA VerifyCommitInv ==
  ASSUME Inv, NEW w \in Workers, VerifyCommit(w) PROVE Inv'
<1>0. PICK c : c = call[w]
  OBVIOUS
<1> DEFINE i == c.target
           u == c.unit
           New == IssueRows(c)
<1>1. VerifyCall(c) /\ c.op = "VERIFY" /\ c.pc = "allocated"
  BY <1>0, CallIs DEF VerifyCommit
<1>2. /\ i \in Issues /\ u \in Units /\ verified[i] = None
      /\ PricedOnce(c) /\ Covered(c)
  BY <1>1 DEF VerifyCall
<1>3. /\ verified' = [verified EXCEPT ![i] = u]
      /\ ledger' = ledger \cup New
      /\ call' = [call EXCEPT ![w] = Idle]
      /\ UNCHANGED <<itemUnit, purchase, edited>>
  BY <1>0 DEF VerifyCommit, End, IssueRows, RowsTaken
<1>4. \A row \in New :
        /\ row.type = Kind[i] /\ row.ref = i /\ row.cat = "AVAILABLE" /\ row.unit = u
        /\ row.line = 1
        /\ row.type \in {"ITEM_ISSUE", "DEPARTMENT_CONSUMPTION"}
        /\ row \in LedgerRows /\ row \notin ledger
        /\ \A r \in ledger : SourceKey(r) # SourceKey(row)
  BY <1>1, IssueRowsAre
<1>5. Countable(New) /\ Net(New) = -Wanted[i] /\ Wanted[i] \in Nat
      /\ \A r1, r2 \in New : r1.rate = r2.rate => r1 = r2
  BY <1>2, LedgerConstants DEF PricedOnce
<1>6. /\ verified'[i] = u /\ \A j \in Issues \ {i} : verified'[j] = verified[j]
      /\ verified' \in [Issues -> Units \cup {None}] /\ u # None
  BY <1>2, <1>3, LedgerConstants DEF Inv, TypeOK
<1> HIDE DEF New, i, u
<1>7. RowsHaveDocuments'
  <2>1. IsFiniteSet(ledger') /\ ledger' \subseteq LedgerRows
    BY <1>3, <1>4, <1>5, FS_Union DEF Inv, RowsHaveDocuments, Countable
  <2>2. \A row \in ledger' :
          /\ row.type = "PURCHASE" => row.ref \in Purchases
          /\ row.type \in {"ITEM_ISSUE", "DEPARTMENT_CONSUMPTION"} =>
               row.ref \in Issues /\ verified'[row.ref] # None
          /\ row.type = "ITEM_ISSUE_IN_TRANSIT" =>
               \E r \in ledger' : r.type = "ITEM_ISSUE_RECEIPT"
    <3> SUFFICES ASSUME NEW row \in ledger'
        PROVE /\ row.type = "PURCHASE" => row.ref \in Purchases
              /\ row.type \in {"ITEM_ISSUE", "DEPARTMENT_CONSUMPTION"} =>
                   row.ref \in Issues /\ verified'[row.ref] # None
              /\ row.type = "ITEM_ISSUE_IN_TRANSIT" =>
                   \E r \in ledger' : r.type = "ITEM_ISSUE_RECEIPT"
      OBVIOUS
    <3>1. CASE row \in New
      BY <1>2, <1>4, <1>6, <3>1
    <3>2. CASE row \in ledger
      BY <1>3, <1>6, <3>2 DEF Inv, RowsHaveDocuments
    <3> QED BY <1>3, <3>1, <3>2
  <2>3. \A q \in Purchases : purchase'[q].status = "LIVE" => purchase'[q] \in Saved
    BY <1>3 DEF Inv, RowsHaveDocuments
  <2> QED BY <2>1, <2>2, <2>3 DEF RowsHaveDocuments
<1>8. \A q : RowsOf(q)' = RowsOf(q)
  BY <1>3, <1>4 DEF RowsOf
<1>9. RowsShowPurchases'
  BY <1>3, <1>8 DEF Inv, RowsShowPurchases
<1>10. TypeOK'
  <2>1. \A row \in ledger' : row.cat \in Categories /\ row.unit \in Units /\ row.qty # 0
    BY <1>7 DEF RowsHaveDocuments, LedgerRows
  <2>2. \A r1, r2 \in ledger' : SourceKey(r1) = SourceKey(r2) => r1 = r2
    <3> SUFFICES ASSUME NEW r1 \in ledger', NEW r2 \in ledger', SourceKey(r1) = SourceKey(r2)
                 PROVE  r1 = r2
      OBVIOUS
    <3>1. CASE r1 \in New /\ r2 \in New
      BY <1>5, <3>1 DEF SourceKey
    <3>2. CASE r1 \in ledger /\ r2 \in ledger
      BY <3>2 DEF Inv, TypeOK
    <3> QED BY <1>3, <1>4, <3>1, <3>2
  <2> QED BY <1>3, <1>6, <2>1, <2>2 DEF Inv, TypeOK
<1>11. Balanced'
  <2> SUFFICES ASSUME NEW x \in Units
               PROVE  Balance("AVAILABLE", x)'
                        = Bought(purchase', x) + Arrived(x)' - Issued(verified', x)
    BY DEF Balanced
  <2> DEFINE S == Stock("AVAILABLE", x)
  <2>1. Countable(S) /\ S \subseteq ledger
    BY SomeRows DEF Stock, Inv
  <2>2. Arrived(x)' = Arrived(x)
    <3>1. {row \in Stock("AVAILABLE", x) : row.type = "ITEM_ISSUE_RECEIPT"}'
            = {row \in S : row.type = "ITEM_ISSUE_RECEIPT"}
      BY <1>3, <1>4 DEF Stock
    <3> QED BY <3>1 DEF Arrived
  <2>3. Net(S) = Bought(purchase, x) + Arrived(x) - Issued(verified, x)
    BY DEF Inv, Balanced, Balance
  <2>4. Issued(verified', x) = Issued(verified, x) + (IF x = u THEN Wanted[i] ELSE 0)
    BY <1>2, <1>3, IssuedChanges
  <2>5. Net(S) \in Int /\ Arrived(x) \in Int /\ Issued(verified, x) \in Int
    BY <2>1, NetInt, SomeRows, IssuedInt DEF Arrived, Stock, Inv
  <2>6. Bought(purchase, x) \in Int /\ Bought(purchase', x) = Bought(purchase, x)
    BY <1>3, BoughtInt
  <2>7. CASE x = u
    <3>1. Stock("AVAILABLE", x)' = S \cup New /\ S \cap New = {}
      BY <1>3, <1>4, <2>7 DEF Stock
    <3> HIDE DEF S
    <3>2. Net(S \cup New) = Net(S) + Net(New)
      BY <1>5, <2>1, <3>1, NetUnion
    <3>3. Balance("AVAILABLE", x)' = Net(S) - Wanted[i]
      BY <1>5, <2>5, <3>1, <3>2 DEF Balance
    <3> QED BY <1>5, <2>2, <2>3, <2>4, <2>5, <2>6, <2>7, <3>3
  <2>8. CASE x # u
    <3>1. Stock("AVAILABLE", x)' = S
      BY <1>3, <1>4, <2>8 DEF Stock
    <3>2. Balance("AVAILABLE", x)' = Net(S)
      BY <3>1 DEF Balance
    <3> HIDE DEF S
    <3> QED BY <2>2, <2>3, <2>4, <2>5, <2>6, <2>8, <3>2
  <2> QED BY <2>7, <2>8
<1>12. NoneShort'
  <2> SUFFICES ASSUME NEW x \in Units, NEW rate \in Nat, <<x, rate>> \notin edited
               PROVE  Net(Layer(x, rate)') >= 0
    BY <1>3 DEF NoneShort
  <2> DEFINE L == Layer(x, rate)
             Mine == {row \in New : row.unit = x /\ row.rate = rate}
  <2>1. Layer(x, rate)' = L \cup Mine /\ L \cap Mine = {}
    BY <1>3, <1>4 DEF Layer, Stock
  <2>2. Net(L) >= 0 /\ Countable(L)
    BY SomeRows DEF Inv, NoneShort, Layer, Stock
  <2>3. CASE Mine = {}
    <3>1. Layer(x, rate)' = L
      BY <2>1, <2>3
    <3> QED BY <2>2, <3>1
  <2>4. CASE Mine # {}
    <3>1. PICK row : row \in Mine
      BY <2>4
    <3>2. Mine = {row} /\ x = u
      BY <1>4, <1>5, <3>1
    <3>3. Net(L) + row.qty >= 0
      BY <1>2, <3>1, <3>2 DEF Covered, New, u
    <3>4. row.qty \in Int /\ row \notin L
      BY <1>5, <2>1, <3>1 DEF Countable
    <3>5. Net(L \cup {row}) = Net(L) + row.qty
      BY <2>2, <3>4, NetAddRow
    <3> HIDE DEF L, Mine
    <3>6. Layer(x, rate)' = L \cup {row}
      BY <2>1, <3>2
    <3> QED BY <3>3, <3>5, <3>6
  <2> QED BY <2>3, <2>4
<1>13. /\ call' \in [Workers -> Calls] /\ call'[w] = Idle
       /\ \A v \in Workers \ {w} : call'[v] = call[v]
  BY <1>3, IdleTyped DEF Inv
<1>14. ASSUME NEW v \in Workers PROVE CallOK(call[v])'
  <2>1. CASE v = w
    BY <1>13, <2>1 DEF CallOK
  <2>2. CASE v # w
    <3>0. PICK d : d = call[v]
      OBVIOUS
    <3>1. call'[v] = d /\ CallOK(d) /\ d.op # "VERIFY"
      <4>1. Apart(call[v], call[w]) /\ CallOK(call[v]) /\ call'[v] = call[v]
        BY <1>13, <2>2, CallIs DEF Inv
      <4> QED BY <1>0, <1>1, <3>0, <4>1 DEF Apart
    <3>2. CallOK(d)'
      BY <1>3, <1>8, <3>1 DEF CallOK, CreateCall, UpdateCall, DeleteCall, VerifyCall,
                              SameVersion
    <3> QED BY <3>1, <3>2
  <2> QED BY <2>1, <2>2
<1>15. (\A v, x \in Workers : v # x => Apart(call[v], call[x]))'
  BY <1>13 DEF Inv, Apart, Idle
<1> QED BY <1>7, <1>9, <1>10, <1>11, <1>12, <1>13, <1>14, <1>15 DEF Inv

-----------------------------------------------------------------------------
(* Goods of another store arrive.                                          *)

(* Goods that arrive add to the layer of their rate.                       *)
LEMMA ReceiveInv == ASSUME Inv, Receive PROVE Inv'
<1> DEFINE sent  == Row("ITEM_ISSUE_IN_TRANSIT", None, 1, "IN_TRANSIT", itemUnit, 0,
                        Incoming.qty, Today)
           left  == Row("ITEM_ISSUE_IN_TRANSIT", None, 2, "IN_TRANSIT", itemUnit, 0,
                        -Incoming.qty, Today)
           got   == Row("ITEM_ISSUE_RECEIPT", None, 2, "AVAILABLE", itemUnit, Incoming.rate,
                        Incoming.qty, Today)
           New   == {sent, left, got}
<1>1. /\ Incoming.qty \in Nat \ {0} /\ Incoming.rate \in Nat /\ Today \in Nat
      /\ itemUnit \in Units /\ -Incoming.qty \in Int \ {0}
  BY LedgerConstants DEF Inv, TypeOK
<1>2. /\ sent.type = "ITEM_ISSUE_IN_TRANSIT" /\ sent.cat = "IN_TRANSIT" /\ sent.line = 1
      /\ left.type = "ITEM_ISSUE_IN_TRANSIT" /\ left.cat = "IN_TRANSIT" /\ left.line = 2
      /\ got.type = "ITEM_ISSUE_RECEIPT" /\ got.cat = "AVAILABLE" /\ got.unit = itemUnit
      /\ got.qty = Incoming.qty /\ got.rate = Incoming.rate
  BY DEF Row
<1>3. New \subseteq LedgerRows
  BY <1>1 DEF Row, LedgerRows, Categories
<1>4. ledger' = ledger \cup New /\ UNCHANGED <<itemUnit, purchase, verified, edited, call>>
  BY DEF Receive
<1>5. \A r \in ledger : r.type # "ITEM_ISSUE_RECEIPT" /\ r.type # "ITEM_ISSUE_IN_TRANSIT"
  BY DEF Receive, Inv, RowsHaveDocuments
<1> HIDE DEF sent, left, got
<1>6. \A r \in New : r \notin ledger /\ \A s \in ledger : SourceKey(s) # SourceKey(r)
  BY <1>2, <1>5 DEF SourceKey
<1>7. RowsHaveDocuments'
  <2>1. IsFiniteSet(ledger') /\ ledger' \subseteq LedgerRows
    <3>1. IsFiniteSet(ledger) /\ ledger \subseteq LedgerRows
      BY DEF Inv, RowsHaveDocuments
    <3>2. IsFiniteSet(ledger \cup {sent})
      BY <3>1, FS_AddElement
    <3>3. IsFiniteSet((ledger \cup {sent}) \cup {left})
      BY <3>2, FS_AddElement
    <3>4. IsFiniteSet(((ledger \cup {sent}) \cup {left}) \cup {got})
      BY <3>3, FS_AddElement
    <3>5. ((ledger \cup {sent}) \cup {left}) \cup {got} = ledger \cup New
      OBVIOUS
    <3> QED BY <1>3, <1>4, <3>1, <3>4, <3>5
  <2>2. got \in ledger'
    BY <1>4
  <2>3. \A row \in ledger' :
          /\ row.type = "PURCHASE" => row.ref \in Purchases
          /\ row.type \in {"ITEM_ISSUE", "DEPARTMENT_CONSUMPTION"} =>
               row.ref \in Issues /\ verified'[row.ref] # None
    BY <1>2, <1>4 DEF Inv, RowsHaveDocuments
  <2>4. \A q \in Purchases : purchase'[q].status = "LIVE" => purchase'[q] \in Saved
    BY <1>4 DEF Inv, RowsHaveDocuments
  <2> QED BY <1>2, <2>1, <2>2, <2>3, <2>4 DEF RowsHaveDocuments
<1>8. \A q : RowsOf(q)' = RowsOf(q)
  BY <1>2, <1>4 DEF RowsOf
<1>9. RowsShowPurchases'
  BY <1>4, <1>8 DEF Inv, RowsShowPurchases
<1>10. TypeOK'
  <2>1. \A row \in ledger' : row.cat \in Categories /\ row.unit \in Units /\ row.qty # 0
    BY <1>7 DEF RowsHaveDocuments, LedgerRows
  <2>2. \A r1, r2 \in ledger' : SourceKey(r1) = SourceKey(r2) => r1 = r2
    <3> SUFFICES ASSUME NEW r1 \in ledger', NEW r2 \in ledger', SourceKey(r1) = SourceKey(r2)
                 PROVE  r1 = r2
      OBVIOUS
    <3>1. CASE r1 \in New /\ r2 \in New
      BY <1>2, <3>1 DEF SourceKey
    <3>2. CASE r1 \in ledger /\ r2 \in ledger
      BY <3>2 DEF Inv, TypeOK
    <3> QED BY <1>4, <1>6, <3>1, <3>2
  <2> QED BY <1>4, <2>1, <2>2 DEF Inv, TypeOK
<1>11. \A x : Stock("AVAILABLE", x)' = Stock("AVAILABLE", x) \cup
                                         (IF x = itemUnit THEN {got} ELSE {})
  BY <1>2, <1>4 DEF Stock
<1>12. got \notin ledger
  BY <1>6
<1>13. Balanced'
  <2> SUFFICES ASSUME NEW x \in Units
               PROVE  Balance("AVAILABLE", x)'
                        = Bought(purchase', x) + Arrived(x)' - Issued(verified', x)
    BY DEF Balanced
  <2> DEFINE S == Stock("AVAILABLE", x)
             A == {row \in S : row.type = "ITEM_ISSUE_RECEIPT"}
  <2>1. Countable(S) /\ Countable(A) /\ S \subseteq ledger
    BY SomeRows DEF Stock, Inv
  <2>2. Net(S) = Bought(purchase, x) + Net(A) - Issued(verified, x)
    BY DEF Inv, Balanced, Balance, Arrived
  <2>3. /\ Net(S) \in Int /\ Net(A) \in Int /\ Issued(verified, x) \in Int
        /\ Bought(purchase, x) \in Int
    BY <2>1, NetInt, IssuedInt, BoughtInt
  <2>4. CASE x = itemUnit
    <3>1. Stock("AVAILABLE", x)' = S \cup {got}
      BY <1>11, <2>4
    <3>2. {row \in Stock("AVAILABLE", x) : row.type = "ITEM_ISSUE_RECEIPT"}' = A \cup {got}
      BY <1>2, <3>1
    <3>3. got \notin S /\ got \notin A /\ got.qty \in Int
      BY <1>1, <1>2, <1>12, <2>1
    <3> HIDE DEF S, A
    <3>4. Net(S \cup {got}) = Net(S) + got.qty /\ Net(A \cup {got}) = Net(A) + got.qty
      BY <2>1, <3>3, NetAddRow
    <3>5. Balance("AVAILABLE", x)' = Net(S) + got.qty /\ Arrived(x)' = Net(A) + got.qty
      BY <3>1, <3>2, <3>4 DEF Balance, Arrived
    <3> QED BY <1>4, <2>2, <2>3, <3>3, <3>5
  <2>5. CASE x # itemUnit
    <3>1. Stock("AVAILABLE", x)' = S
      BY <1>11, <2>5
    <3>2. Balance("AVAILABLE", x)' = Net(S) /\ Arrived(x)' = Net(A)
      BY <3>1 DEF Balance, Arrived
    <3> QED BY <1>4, <2>2, <3>2
  <2> QED BY <2>4, <2>5
<1>14. ASSUME NEW x, NEW rate
       PROVE  /\ Net(Layer(x, rate)) \in Int /\ Net(Layer(x, rate)') \in Int
              /\ Net(Layer(x, rate)') >= Net(Layer(x, rate))
  <2> DEFINE L == Layer(x, rate)
  <2>1. Countable(L) /\ Net(L) \in Int /\ L \subseteq ledger
    BY SomeRows, NetInt DEF Inv, Layer, Stock
  <2>2. CASE x = itemUnit /\ rate = got.rate
    <3>1. Layer(x, rate)' = L \cup {got}
      BY <1>11, <2>2 DEF Layer
    <3>2. got \notin L /\ got.qty \in Int /\ got.qty >= 0
      BY <1>1, <1>2, <1>12, <2>1
    <3> HIDE DEF L
    <3>3. Net(L \cup {got}) = Net(L) + got.qty
      BY <2>1, <3>2, NetAddRow
    <3> QED BY <2>1, <3>1, <3>2, <3>3 DEF L
  <2>3. CASE ~(x = itemUnit /\ rate = got.rate)
    <3>1. Layer(x, rate)' = L
      BY <1>11, <2>3 DEF Layer
    <3> HIDE DEF L
    <3> QED BY <2>1, <3>1 DEF L
  <2> QED BY <2>2, <2>3
<1>15. NoneShort'
  <2> SUFFICES ASSUME NEW u \in Units, NEW rate \in Nat, <<u, rate>> \notin edited
               PROVE  Net(Layer(u, rate)') >= 0
    BY <1>4 DEF NoneShort
  <2>1. Net(Layer(u, rate)) >= 0
    BY DEF Inv, NoneShort
  <2> QED BY <1>14, <2>1
<1>16. ASSUME NEW d, CallOK(d) PROVE CallOK(d)'
  <2>1. CASE VerifyCall(d)
    <3>1. d.pc = "allocated" => Covered(d)'
      <4> SUFFICES ASSUME d.pc = "allocated",
                          NEW row \in IssueRows(d), <<d.unit, row.rate>> \notin edited
                   PROVE  Net(Layer(d.unit, row.rate)') + row.qty >= 0
        BY <1>4 DEF Covered
      <4>1. Net(Layer(d.unit, row.rate)) + row.qty >= 0
        BY <2>1 DEF VerifyCall, Covered
      <4>2. row.qty \in Int
        BY <2>1 DEF VerifyCall, PricedOnce, LedgerRows
      <4> QED BY <1>14, <4>1, <4>2
    <3>2. VerifyCall(d)'
      BY <1>4, <2>1, <3>1 DEF VerifyCall
    <3> QED BY <3>2 DEF CallOK
  <2>2. CASE ~VerifyCall(d)
    BY <1>4, <1>8, <1>16, <2>2 DEF CallOK, CreateCall, UpdateCall, DeleteCall, SameVersion
  <2> QED BY <2>1, <2>2
<1>17. \A v \in Workers : CallOK(call[v])'
  <2>1. \A v \in Workers : CallOK(call[v]) /\ call'[v] = call[v]
    BY <1>4 DEF Inv
  <2> QED BY <1>16, <2>1
<1>18. /\ call' \in [Workers -> Calls]
       /\ (\A v, x \in Workers : v # x => Apart(call[v], call[x]))'
  BY <1>4 DEF Inv, Apart
<1> QED BY <1>7, <1>9, <1>10, <1>13, <1>15, <1>17, <1>18 DEF Inv

-----------------------------------------------------------------------------
(* Every step keeps the invariant.                                         *)
LEMMA StepInv == Inv /\ [Next]_vars => Inv'
<1> SUFFICES ASSUME Inv, [Next]_vars PROVE Inv'
  OBVIOUS
<1>1. ASSUME NEW w \in Workers, PurchaseStep(w) PROVE Inv'
  BY <1>1, CreateReadInv, CreateCommitInv, UpdateReadInv, UpdateHeaderInv, DeleteRowsInv,
     UpdateCommitInv, DeleteStartInv, DeleteCommitInv DEF PurchaseStep
<1>2. ASSUME NEW w \in Workers, VerifyStep(w) PROVE Inv'
  BY <1>2, VerifyStartInv, LockRowsInv, CheckBalanceInv, AllocateFifoInv, VerifyCommitInv
  DEF VerifyStep
<1>3. ASSUME NEW w \in Workers, Abort(w) PROVE Inv'
  BY <1>3, AbortInv
<1>4. CASE Receive
  BY <1>4, ReceiveInv
<1>5. ASSUME NEW u \in Units, ChangeUnit(u) PROVE Inv'
  BY <1>5, ChangeUnitInv
<1>6. CASE UNCHANGED vars
  <2>1. UNCHANGED <<itemUnit, purchase, ledger, verified, edited, call>>
    BY <1>6 DEF vars
  <2>2. TypeOK'
    BY <2>1 DEF Inv, TypeOK
  <2>3. RowsHaveDocuments' /\ RowsShowPurchases' /\ Balanced' /\ NoneShort'
    BY <2>1 DEF Inv, RowsHaveDocuments, RowsShowPurchases, Balanced, NoneShort,
                RowsOf, Layer, Stock, Balance, Arrived
  <2>4. \A d : CallOK(d) => CallOK(d)'
    BY <2>1, CallStays
  <2>5. \A v \in Workers : CallOK(call[v])'
    <3>1. \A v \in Workers : CallOK(call[v]) /\ call'[v] = call[v]
      BY <2>1 DEF Inv
    <3> QED BY <2>4, <3>1
  <2>6. /\ call' \in [Workers -> Calls]
        /\ (\A v, x \in Workers : v # x => Apart(call[v], call[x]))'
    BY <2>1 DEF Inv, Apart
  <2> QED BY <2>2, <2>3, <2>5, <2>6 DEF Inv
<1> QED BY <1>1, <1>2, <1>3, <1>4, <1>5, <1>6 DEF Next

(* The invariant holds in every state.                                     *)
LEMMA InvHolds == Spec => []Inv
BY InitInv, StepInv, PTL DEF Spec

(* Every row has a unit and a quantity and a source key of its own, every  *)
(* purchase its type, whatever calls overlap.                              *)
THEOREM TypeCorrect == Spec => []TypeOK
<1>1. Inv => TypeOK
  BY DEF Inv
<1> QED BY <1>1, InvHolds, PTL

(* f counts what g counts on T, and nothing on the rest of S. *)
CountsOnly(f, S, g, T) ==
  /\ T \in SUBSET S
  /\ \A x \in S : f[x] \in Int
  /\ \A x \in T : g[x] = f[x]
  /\ \A x \in S \ T : f[x] = 0

(* The sums over all purchases and issues are those over the live and the  *)
(* posted ones.                                                            *)
LEMMA SumWhere ==
  ASSUME NEW f, NEW g, NEW S, IsFiniteSet(S), NEW T, CountsOnly(f, S, g, T)
  PROVE  SumFunctionOnSet(f, S) = SumFunctionOnSet(g, T)
<1> USE DEF CountsOnly
<1>1. IsFiniteSet(T) /\ IsFiniteSet(S \ T)
  BY FS_Subset
<1>2. T \cup (S \ T) = S /\ T \cap (S \ T) = {}
  OBVIOUS
<1> DEFINE R == S \ T
<1> HIDE DEF R
<1>3. SumFunctionOnSet(f, T \cup R) = SumFunctionOnSet(f, T) + SumFunctionOnSet(f, R)
  BY <1>1, <1>2, SumUnion DEF R
<1>4. SumFunctionOnSet(f, R) = 0
  BY <1>1, SumZero DEF R
<1>5. SumFunctionOnSet(f, T) = SumFunctionOnSet(g, T)
  BY <1>1, SumSame
<1>6. SumFunctionOnSet(f, T) \in Int
  BY <1>1, SumInt
<1>7. SumFunctionOnSet(f, S) = SumFunctionOnSet(f, T) + SumFunctionOnSet(f, R)
  BY <1>2, <1>3 DEF R
<1> QED BY <1>4, <1>5, <1>6, <1>7

(* Bought is the sum that LedgerShowsDocuments takes over the purchases    *)
(* there are.                                                              *)
LEMMA BoughtIs ==
  ASSUME Inv, NEW u
  PROVE  MapThenSumSet(LAMBDA p : purchase[p].qty, Live(u)) = Bought(purchase, u)
<1> DEFINE f == [p \in Purchases |->
                   IF purchase[p].status = "LIVE" /\ purchase[p].unit = u
                   THEN purchase[p].qty ELSE 0]
           T == Live(u)
           g == [p \in T |-> purchase[p].qty]
<1>1. T \in SUBSET Purchases /\ IsFiniteSet(T)
  BY FiniteAssumption, FS_Subset DEF Live
<1>2. CountsOnly(f, Purchases, g, T)
  BY DEF CountsOnly, Live, Inv, TypeOK
<1>3. MapThenSumSet(LAMBDA p : purchase[p].qty, T) = SumFunctionOnSet(g, T)
  <2> HIDE DEF T
  <2> QED BY <1>1, BoughtIsSum
<1>4. Bought(purchase, u) = SumFunctionOnSet(f, Purchases)
  BY DEF Bought
<1> HIDE DEF f, g, T
<1>5. SumFunctionOnSet(f, Purchases) = SumFunctionOnSet(g, T)
  BY <1>1, <1>2, FiniteAssumption, SumWhere
<1> QED BY <1>3, <1>4, <1>5 DEF T

(* Issued is the sum it takes over the issues that are posted.             *)
LEMMA IssuedIs ==
  ASSUME NEW u PROVE MapThenSumSet(LAMBDA i : Wanted[i], Posted(u)) = Issued(verified, u)
<1> DEFINE f == [i \in Issues |-> IF verified[i] = u THEN Wanted[i] ELSE 0]
           T == Posted(u)
<1>1. T \in SUBSET Issues /\ IsFiniteSet(T)
  BY FiniteAssumption, FS_Subset DEF Posted
<1>2. CountsOnly(f, Issues, Wanted, T)
  BY LedgerConstants DEF CountsOnly, Posted
<1>3. MapThenSumSet(LAMBDA i : Wanted[i], T) = SumFunctionOnSet(Wanted, T)
  BY DEF MapThenSumSet, MapThenFoldSet, SumFunctionOnSet, FoldFunctionOnSet
<1>4. Issued(verified, u) = SumFunctionOnSet(f, Issues)
  BY DEF Issued
<1> HIDE DEF f, T
<1>5. SumFunctionOnSet(f, Issues) = SumFunctionOnSet(Wanted, T)
  BY <1>1, <1>2, FiniteAssumption, SumWhere
<1> QED BY <1>3, <1>4, <1>5 DEF T

(* The ledger shows each purchase as it was last saved and nothing of a    *)
(* deleted one, and its balance is purchases and arrivals less issues,     *)
(* however creations, edits, deletions, dispatches and changes of the unit *)
(* overlap.                                                                *)
THEOREM LedgerIsTheDocuments == Spec => []LedgerShowsDocuments
<1>1. ASSUME Inv PROVE LedgerShowsDocuments
  <2>1. \A u \in Units :
          Balance("AVAILABLE", u)
            = MapThenSumSet(LAMBDA p : purchase[p].qty, Live(u)) + Arrived(u)
              - MapThenSumSet(LAMBDA i : Wanted[i], Posted(u))
    <3> TAKE u \in Units
    <3>1. Balance("AVAILABLE", u) = Bought(purchase, u) + Arrived(u) - Issued(verified, u)
      BY <1>1 DEF Inv, Balanced
    <3> QED BY <1>1, <3>1, BoughtIs, IssuedIs
  <2> QED BY <1>1, <2>1 DEF LedgerShowsDocuments, Inv, RowsShowPurchases
<1> QED BY <1>1, InvHolds, PTL

(* An issue takes the oldest goods first, no more than each layer holds,   *)
(* and as much as it issues.                                               *)
THEOREM OldestGoodsFirst == Spec => []FifoTakesOldestFirst
<1>1. ASSUME Inv PROVE FifoTakesOldestFirst
  <2>1. \A w \in Workers : call[w].pc = "allocated" => Fifo(call[w])
    BY <1>1 DEF Inv, CallOK, Idle, CreateCall, UpdateCall, DeleteCall, VerifyCall
  <2> QED BY <2>1 DEF FifoTakesOldestFirst, Fifo
<1> QED BY <1>1, InvHolds, PTL

(* Only a purchase that was edited or deleted can leave a rate short of    *)
(* goods: what two issues take is never the same.                          *)
THEOREM ShortOnlyAfterAnEdit == Spec => []ShortLayersOnlyByPurchase
<1>1. ASSUME Inv PROVE ShortLayersOnlyByPurchase
  <2> SUFFICES ASSUME NEW u \in Units, NEW row \in Stock("AVAILABLE", u),
                      Net(Layer(u, row.rate)) < 0
               PROVE  <<u, row.rate>> \in edited
    BY DEF ShortLayersOnlyByPurchase
  <2>1. row.rate \in Nat
    BY <1>1 DEF Stock, Inv, RowsHaveDocuments, LedgerRows
  <2>2. Net(Layer(u, row.rate)) \in Int
    BY <1>1, SomeRows, NetInt DEF Layer, Stock, Inv
  <2> QED BY <1>1, <2>1, <2>2 DEF Inv, NoneShort
<1> QED BY <1>1, InvHolds, PTL
=============================================================================
