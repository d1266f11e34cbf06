---------------------------- MODULE SumTheorems ----------------------------
(***************************************************************************)
(* Facts about the sums of the models: SumFunctionOnSet of the community   *)
(* module Functions, a fold whose value is a recursive function on the     *)
(* subsets of the index set.  What a recursion computes is proved here     *)
(* without an induction principle: a nonempty family of subsets of a       *)
(* finite set has a minimal member, so that a claim about every subset     *)
(* holds unless it fails at a smallest one.                                *)
(***************************************************************************)
EXTENDS Integers, FiniteSets, Functions, FiniteSetTheorems, TLAPS

(* Among some subsets of a finite set, one contains no other.              *)
LEMMA MinimalSubset ==
  ASSUME NEW S, IsFiniteSet(S), NEW Bad, Bad \subseteq SUBSET S, Bad # {}
  PROVE  \E T \in Bad : \A U \in SUBSET T : U # T => U \notin Bad
<1>1. IsWellFoundedOn(StrictSubsetOrdering(S), FiniteSubsetsOf(S))
  BY FS_StrictSubsetOrderingWellFounded
<1>2. FiniteSubsetsOf(S) = SUBSET S
  BY FS_FiniteSubsetsOfFinite
<1>3. PICK T \in Bad : \A U \in Bad : ~(<<U, T>> \in StrictSubsetOrdering(S))
  BY <1>1, <1>2, WFMin
<1>4. ASSUME NEW U \in SUBSET T, U # T, U \in Bad PROVE FALSE
  BY <1>3, <1>4 DEF StrictSubsetOrdering
<1> QED BY <1>3, <1>4

(* Some member of a finite set has the greatest of some integers.          *)
LEMMA GreatestMember ==
  ASSUME NEW S, IsFiniteSet(S), S # {}, NEW f, \A x \in S : f[x] \in Int
  PROVE  \E m \in S : \A x \in S : f[x] <= f[m]
<1> DEFINE Bad == {T \in SUBSET S : T # {} /\ ~ \E m \in T : \A x \in T : f[x] <= f[m]}
<1>1. ASSUME Bad # {} PROVE FALSE
  <2>1. PICK T \in Bad : \A U \in SUBSET T : U # T => U \notin Bad
    <3>1. Bad \subseteq SUBSET S
      OBVIOUS
    <3> HIDE DEF Bad
    <3> QED BY <1>1, <3>1, MinimalSubset
  <2>2. PICK a \in T : TRUE
    OBVIOUS
  <2>3. \E x \in T : ~(f[x] <= f[a])
    OBVIOUS
  <2>4. T \ {a} \in SUBSET T /\ T \ {a} # T /\ T \ {a} # {} /\ T \in SUBSET S
    BY <2>2, <2>3
  <2>5. PICK b \in T \ {a} : \A x \in T \ {a} : f[x] <= f[b]
    BY <2>1, <2>4
  <2>6. f[a] \in Int /\ f[b] \in Int /\ \A x \in T : f[x] \in Int
    BY <2>2, <2>4
  <2>7. CASE f[a] <= f[b]
    <3>1. \A x \in T : f[x] <= f[b]
      BY <2>5, <2>7
    <3> QED BY <2>5, <3>1
  <2>8. CASE f[b] < f[a]
    <3>1. \A x \in T : f[x] <= f[a]
      BY <2>5, <2>6, <2>8
    <3> QED BY <2>2, <3>1
  <2> QED BY <2>6, <2>7, <2>8
<1>2. S \notin Bad
  BY <1>1
<1> QED BY <1>2

-----------------------------------------------------------------------------
(* The recursion behind SumFunctionOnSet(f, S), with h for its function.   *)
First(s) == CHOOSE x \in s : TRUE

Adds(f, S, h) ==
  h = [s \in SUBSET S |-> IF s = {} THEN 0 ELSE f[First(s)] + h[s \ {First(s)}]]

(* Of something, there is a first.                                         *)
LEMMA FirstIn == ASSUME NEW s, s # {} PROVE First(s) \in s
BY DEF First

(* Two such functions agree where both are defined.                        *)
LEMMA AddsOnce ==
  ASSUME NEW f, NEW S, IsFiniteSet(S), NEW T, NEW h, NEW g,
         Adds(f, S, h), Adds(f, T, g), NEW s \in SUBSET S, s \in SUBSET T
  PROVE  h[s] = g[s]
<1> DEFINE Bad == {t \in SUBSET s : h[t] # g[t]}
<1>0. IsFiniteSet(s)
  BY FS_Subset
<1>1. ASSUME Bad # {} PROVE FALSE
  <2>1. PICK t \in Bad : \A u \in SUBSET t : u # t => u \notin Bad
    <3>1. Bad \subseteq SUBSET s
      OBVIOUS
    <3> HIDE DEF Bad
    <3> QED BY <1>0, <1>1, <3>1, MinimalSubset
  <2>2. t \in SUBSET S /\ t \in SUBSET T /\ h[t] # g[t]
    OBVIOUS
  <2>3. CASE t = {}
    BY <2>2, <2>3 DEF Adds
  <2>4. CASE t # {}
    <3> DEFINE x == First(t)
    <3>1. x \in t
      BY <2>4, FirstIn
    <3> HIDE DEF x
    <3>2. h[t \ {x}] = g[t \ {x}]
      BY <2>1, <3>1
    <3>3. h[t] = f[x] + h[t \ {x}] /\ g[t] = f[x] + g[t \ {x}]
      BY <2>2, <2>4 DEF Adds, x
    <3> QED BY <2>2, <3>2, <3>3
  <2> QED BY <2>3, <2>4
<1> QED BY <1>1

(* On a finite set there is one.                                           *)
LEMMA AddsExists ==
  ASSUME NEW f, NEW S, IsFiniteSet(S)
  PROVE  \E h : Adds(f, S, h)
<1> DEFINE Bad == {T \in SUBSET S : ~ \E h : Adds(f, T, h)}
<1>1. ASSUME Bad # {} PROVE FALSE
  <2>1. PICK T \in Bad : \A U \in SUBSET T : U # T => U \notin Bad
    <3>1. Bad \subseteq SUBSET S
      OBVIOUS
    <3> HIDE DEF Bad
    <3> QED BY <1>1, <3>1, MinimalSubset
  <2>f. IsFiniteSet(T) /\ T \in SUBSET S
    BY FS_Subset
  <2>2. T # {}
    <3>1. ASSUME T = {} PROVE FALSE
      <4> DEFINE h == [s \in SUBSET {} |-> 0]
      <4>1. Adds(f, {}, h)
        <5>1. \A s \in SUBSET {} : s = {}
          OBVIOUS
        <5> QED BY <5>1 DEF Adds
      <4> QED BY <4>1, <3>1
    <3> QED BY <3>1
  <2> DEFINE H(x) == CHOOSE h : Adds(f, T \ {x}, h)
  <2>3. ASSUME NEW x \in T PROVE Adds(f, T \ {x}, H(x))
    <3>1. T \ {x} \notin Bad /\ T \ {x} \in SUBSET S
      BY <2>1, <2>f
    <3>2. \E h : Adds(f, T \ {x}, h)
      BY <3>1
    <3> QED BY <3>2
  <2> HIDE DEF H
  <2> DEFINE c == First(T)
             h == [s \in SUBSET T |->
                     IF s = {} THEN 0
                     ELSE IF s = T THEN f[c] + H(c)[T \ {c}]
                     ELSE H(First(T \ s))[s]]
  <2>4. c \in T
    BY <2>2, FirstIn
  <2>5. ASSUME NEW s \in SUBSET T, s # T, NEW x \in T, x \notin s
        PROVE  h[s] = H(x)[s]
    <3>1. CASE s = {}
      BY <2>3, <3>1 DEF Adds
    <3>2. CASE s # {}
      <4> DEFINE y == First(T \ s)
      <4>1. y \in T \ s
        BY <2>5, FirstIn
      <4> HIDE DEF y
      <4>2. Adds(f, T \ {x}, H(x)) /\ Adds(f, T \ {y}, H(y))
        BY <2>3, <4>1
      <4>3. s \in SUBSET (T \ {x}) /\ s \in SUBSET (T \ {y})
        BY <2>5, <4>1
      <4>4. IsFiniteSet(T \ {x})
        BY <2>f, FS_Subset
      <4>5. H(x)[s] = H(y)[s]
        BY <4>2, <4>3, <4>4, AddsOnce
      <4>6. h[s] = H(y)[s]
        BY <2>5, <3>2 DEF y
      <4> QED BY <4>5, <4>6
    <3> QED BY <3>1, <3>2
  <2>6. ASSUME NEW s \in SUBSET T
        PROVE  h[s] = IF s = {} THEN 0 ELSE f[First(s)] + h[s \ {First(s)}]
    <3>1. CASE s = {}
      BY <3>1
    <3>2. CASE s = T
      <4>1. h[T \ {c}] = H(c)[T \ {c}]
        <5>1. T \ {c} \in SUBSET T /\ T \ {c} # T /\ c \notin T \ {c}
          BY <2>4
        <5> HIDE DEF c, h
        <5> QED BY <2>4, <2>5, <5>1
      <4>2. h[s] = f[c] + H(c)[T \ {c}]
        BY <2>2, <3>2
      <4> QED BY <2>2, <3>2, <4>1, <4>2
    <3>3. CASE s # {} /\ s # T
      <4> DEFINE y == First(s)
      <4>1. y \in s
        BY <3>3, FirstIn
      <4>2. PICK x \in T : x \notin s
        BY <3>3
      <4> HIDE DEF y
      <4>3. h[s] = H(x)[s] /\ h[s \ {y}] = H(x)[s \ {y}]
        <5>1. s \ {y} \in SUBSET T /\ s \ {y} # T /\ x \notin s \ {y}
          BY <4>2
        <5> HIDE DEF h
        <5> QED BY <2>5, <3>3, <4>2, <5>1
      <4>4. H(x)[s] = f[y] + H(x)[s \ {y}]
        <5>1. s \in SUBSET (T \ {x}) /\ Adds(f, T \ {x}, H(x))
          BY <2>3, <4>2
        <5> HIDE DEF h
        <5> QED BY <3>3, <5>1 DEF Adds, y
      <4> HIDE DEF h
      <4> QED BY <3>3, <4>3, <4>4 DEF y
    <3> QED BY <3>1, <3>2, <3>3
  <2>7. Adds(f, T, h)
    <3>1. h = [s \in SUBSET T |-> h[s]]
      OBVIOUS
    <3> HIDE DEF h
    <3> QED BY <2>6, <3>1 DEF Adds
  <2> QED BY <2>7
<1> QED BY <1>1

-----------------------------------------------------------------------------
(* What is summed is that function at the whole set.                       *)
LEMMA SumUnfold ==
  ASSUME NEW f, NEW S, IsFiniteSet(S), NEW h, Adds(f, S, h)
  PROVE  SumFunctionOnSet(f, S) = h[S]
<1>1. PICK g : Adds(f, S, g) /\ SumFunctionOnSet(f, S) = g[S]
  BY DEF SumFunctionOnSet, FoldFunctionOnSet, MapThenFoldSet, Adds, First
<1> QED BY <1>1, AddsOnce

(* The sum of a subset does not depend on the set it is taken from.        *)
LEMMA SumOfSubset ==
  ASSUME NEW f, NEW S, IsFiniteSet(S), NEW h, Adds(f, S, h), NEW T \in SUBSET S
  PROVE  SumFunctionOnSet(f, T) = h[T]
<1>1. IsFiniteSet(T)
  BY FS_Subset
<1>2. PICK g : Adds(f, T, g)
  BY <1>1, AddsExists
<1>3. SumFunctionOnSet(f, T) = g[T]
  BY <1>1, <1>2, SumUnfold
<1>4. h[T] = g[T]
  BY <1>2, AddsOnce
<1> QED BY <1>3, <1>4

(* Nothing adds up to zero.                                                *)
LEMMA SumEmpty == ASSUME NEW f PROVE SumFunctionOnSet(f, {}) = 0
<1>1. IsFiniteSet({})
  BY FS_EmptySet
<1>2. PICK h : Adds(f, {}, h)
  BY <1>1, AddsExists
<1>3. SumFunctionOnSet(f, {}) = h[{}]
  BY <1>1, <1>2, SumUnfold
<1>4. h[{}] = 0
  BY <1>2 DEF Adds
<1> QED BY <1>3, <1>4

(* A sum takes its First element out.                                      *)
LEMMA SumFirst ==
  ASSUME NEW f, NEW S, IsFiniteSet(S), S # {}
  PROVE  SumFunctionOnSet(f, S) = f[First(S)] + SumFunctionOnSet(f, S \ {First(S)})
<1>1. PICK h : Adds(f, S, h)
  BY AddsExists
<1> DEFINE x == First(S)
<1>2. x \in S
  BY FirstIn
<1>3. h[S] = f[x] + h[S \ {x}]
  BY <1>1 DEF Adds
<1>4. SumFunctionOnSet(f, S) = h[S]
  BY <1>1, SumUnfold
<1>5. SumFunctionOnSet(f, S \ {x}) = h[S \ {x}]
  BY <1>1, SumOfSubset
<1> QED BY <1>3, <1>4, <1>5

(* Integers add up to an integer.                                          *)
LEMMA SumInt ==
  ASSUME NEW f, NEW S, IsFiniteSet(S), \A x \in S : f[x] \in Int
  PROVE  SumFunctionOnSet(f, S) \in Int
<1> DEFINE Bad == {T \in SUBSET S : SumFunctionOnSet(f, T) \notin Int}
<1>1. ASSUME Bad # {} PROVE FALSE
  <2>1. PICK T \in Bad : \A U \in SUBSET T : U # T => U \notin Bad
    <3>1. Bad \subseteq SUBSET S
      OBVIOUS
    <3> HIDE DEF Bad
    <3> QED BY <1>1, <3>1, MinimalSubset
  <2>2. T \in SUBSET S /\ IsFiniteSet(T) /\ T # {}
    <3>1. T \in SUBSET S /\ IsFiniteSet(T)
      BY FS_Subset
    <3>2. T # {}
      BY SumEmpty
    <3> QED BY <3>1, <3>2
  <2> DEFINE x == First(T)
  <2>3. x \in T
    BY <2>2, FirstIn
  <2>4. SumFunctionOnSet(f, T) = f[x] + SumFunctionOnSet(f, T \ {x})
    BY <2>2, SumFirst
  <2> HIDE DEF x
  <2>5. SumFunctionOnSet(f, T \ {x}) \in Int
    BY <2>1, <2>2, <2>3
  <2>6. SumFunctionOnSet(f, T) \in Int
    BY <2>2, <2>3, <2>4, <2>5
  <2> QED BY <2>6
<1> QED BY <1>1

(* The order of the terms does not matter: any one can be taken out first. *)
LEMMA SumTake ==
  ASSUME NEW f, NEW S, IsFiniteSet(S), \A x \in S : f[x] \in Int, NEW a \in S
  PROVE  SumFunctionOnSet(f, S) = f[a] + SumFunctionOnSet(f, S \ {a})
<1> DEFINE Sum(T) == SumFunctionOnSet(f, T)
           Bad == {T \in SUBSET S : \E x \in T : Sum(T) # f[x] + Sum(T \ {x})}
<1>1. ASSUME Bad # {} PROVE FALSE
  <2>1. PICK T \in Bad : \A U \in SUBSET T : U # T => U \notin Bad
    <3>1. Bad \subseteq SUBSET S
      OBVIOUS
    <3> HIDE DEF Bad
    <3> QED BY <1>1, <3>1, MinimalSubset
  <2>2. PICK x \in T : Sum(T) # f[x] + Sum(T \ {x})
    OBVIOUS
  <2>3. T \in SUBSET S /\ IsFiniteSet(T)
    BY FS_Subset
  <2> DEFINE y == First(T)
  <2>4. y \in T /\ Sum(T) = f[y] + Sum(T \ {y})
    BY <2>2, <2>3, FirstIn, SumFirst
  <2> HIDE DEF y
  <2>5. x # y
    BY <2>2, <2>4
  <2>6. Sum(T \ {y}) = f[x] + Sum((T \ {y}) \ {x})
    <3>1. T \ {y} \notin Bad /\ T \ {y} \in SUBSET S /\ x \in T \ {y}
      BY <2>1, <2>3, <2>4, <2>5
    <3> QED BY <3>1
  <2>7. Sum(T \ {x}) = f[y] + Sum((T \ {x}) \ {y})
    <3>1. T \ {x} \notin Bad /\ T \ {x} \in SUBSET S /\ y \in T \ {x}
      BY <2>1, <2>3, <2>4, <2>5
    <3> QED BY <3>1
  <2>8. Sum((T \ {x}) \ {y}) = Sum((T \ {y}) \ {x})
    <3>1. (T \ {x}) \ {y} = (T \ {y}) \ {x}
      OBVIOUS
    <3> QED BY <3>1
  <2>9. Sum((T \ {y}) \ {x}) \in Int
    <3> DEFINE U == (T \ {y}) \ {x}
    <3>1. IsFiniteSet(U) /\ \A z \in U : f[z] \in Int
      BY <2>3, FS_Subset
    <3> HIDE DEF U
    <3>2. Sum(U) \in Int
      BY <3>1, SumInt
    <3> QED BY <3>2 DEF U
  <2>10. f[x] \in Int /\ f[y] \in Int
    BY <2>3, <2>4
  <2>11. Sum(T) = f[y] + (f[x] + Sum((T \ {y}) \ {x}))
    BY <2>4, <2>6
  <2>12. Sum(T) # f[x] + (f[y] + Sum((T \ {y}) \ {x}))
    BY <2>2, <2>7, <2>8
  <2> DEFINE rest == Sum((T \ {y}) \ {x})
  <2> HIDE DEF rest
  <2>13. f[y] + (f[x] + rest) = f[x] + (f[y] + rest)
    BY <2>9, <2>10 DEF rest
  <2> QED BY <2>11, <2>12, <2>13 DEF rest
<1>2. S \notin Bad
  BY <1>1
<1> QED BY <1>2

(* What two functions share adds up to the same.                           *)
LEMMA SumSame ==
  ASSUME NEW f, NEW g, NEW S, IsFiniteSet(S), \A x \in S : f[x] = g[x]
  PROVE  SumFunctionOnSet(f, S) = SumFunctionOnSet(g, S)
<1>1. PICK h : Adds(f, S, h)
  BY AddsExists
<1>2. Adds(g, S, h)
  <2>1. \A s \in SUBSET S : s # {} => First(s) \in S
    BY FirstIn
  <2>2. \A s \in SUBSET S : s # {} => f[First(s)] = g[First(s)]
    BY <2>1
  <2> QED BY <1>1, <2>2 DEF Adds
<1> QED BY <1>1, <1>2, SumUnfold

(* Adding a term that is not there yet.                                    *)
LEMMA SumAdd ==
  ASSUME NEW f, NEW S, IsFiniteSet(S), \A x \in S : f[x] \in Int,
         NEW a, a \notin S, f[a] \in Int
  PROVE  SumFunctionOnSet(f, S \cup {a}) = f[a] + SumFunctionOnSet(f, S)
<1> DEFINE T == S \cup {a}
<1>1. IsFiniteSet(T) /\ (\A x \in T : f[x] \in Int) /\ a \in T /\ T \ {a} = S
  BY FS_AddElement
<1> HIDE DEF T
<1>2. SumFunctionOnSet(f, T) = f[a] + SumFunctionOnSet(f, T \ {a})
  BY <1>1, SumTake
<1> QED BY <1>1, <1>2 DEF T

(* Changing one term changes the sum by the difference.                    *)
LEMMA SumChange ==
  ASSUME NEW f, NEW g, NEW S, IsFiniteSet(S), NEW a \in S,
         \A x \in S : f[x] \in Int, g[a] \in Int, \A x \in S \ {a} : g[x] = f[x]
  PROVE  SumFunctionOnSet(g, S) = SumFunctionOnSet(f, S) + g[a] - f[a]
<1>1. IsFiniteSet(S \ {a}) /\ \A x \in S : g[x] \in Int
  BY FS_RemoveElement
<1>2. SumFunctionOnSet(f, S) = f[a] + SumFunctionOnSet(f, S \ {a})
  BY SumTake
<1>3. SumFunctionOnSet(g, S) = g[a] + SumFunctionOnSet(g, S \ {a})
  BY <1>1, SumTake
<1>4. SumFunctionOnSet(g, S \ {a}) = SumFunctionOnSet(f, S \ {a})
  BY <1>1, SumSame
<1>5. SumFunctionOnSet(f, S \ {a}) \in Int
  BY <1>1, SumInt
<1> QED BY <1>1, <1>2, <1>3, <1>4, <1>5

(* No term above, no sum above.                                            *)
LEMMA SumMonotone ==
  ASSUME NEW f, NEW g, NEW S, IsFiniteSet(S),
         \A x \in S : f[x] \in Int /\ g[x] \in Int /\ f[x] <= g[x]
  PROVE  SumFunctionOnSet(f, S) <= SumFunctionOnSet(g, S)
<1> DEFINE Bad == {T \in SUBSET S : ~(SumFunctionOnSet(f, T) <= SumFunctionOnSet(g, T))}
<1>1. ASSUME Bad # {} PROVE FALSE
  <2>1. PICK T \in Bad : \A U \in SUBSET T : U # T => U \notin Bad
    <3>1. Bad \subseteq SUBSET S
      OBVIOUS
    <3> HIDE DEF Bad
    <3> QED BY <1>1, <3>1, MinimalSubset
  <2>2. T \in SUBSET S /\ IsFiniteSet(T) /\ T # {}
    <3>1. T \in SUBSET S /\ IsFiniteSet(T)
      BY FS_Subset
    <3>2. T # {}
      BY SumEmpty
    <3> QED BY <3>1, <3>2
  <2> DEFINE x == First(T)
             U == T \ {x}
  <2>3. x \in T
    BY <2>2, FirstIn
  <2>4. SumFunctionOnSet(f, T) = f[x] + SumFunctionOnSet(f, U)
    BY <2>2, SumFirst
  <2>5. SumFunctionOnSet(g, T) = g[x] + SumFunctionOnSet(g, U)
    BY <2>2, SumFirst
  <2>6. U \in SUBSET S /\ U # T /\ IsFiniteSet(U) /\ U \in SUBSET T
    BY <2>2, <2>3, FS_RemoveElement
  <2> HIDE DEF x, U
  <2>7. SumFunctionOnSet(f, U) <= SumFunctionOnSet(g, U)
    BY <2>1, <2>6
  <2>8. SumFunctionOnSet(f, U) \in Int /\ SumFunctionOnSet(g, U) \in Int
    BY <2>6, SumInt
  <2>9. SumFunctionOnSet(f, T) <= SumFunctionOnSet(g, T)
    BY <2>2, <2>3, <2>4, <2>5, <2>7, <2>8
  <2> QED BY <2>9
<1> QED BY <1>1

(* If no term is above and the sums are equal, so are all terms.           *)
LEMMA SumEqual ==
  ASSUME NEW f, NEW g, NEW S, IsFiniteSet(S),
         \A x \in S : f[x] \in Int /\ g[x] \in Int /\ f[x] <= g[x],
         SumFunctionOnSet(f, S) >= SumFunctionOnSet(g, S), NEW a \in S
  PROVE  f[a] = g[a]
<1>1. IsFiniteSet(S \ {a}) /\ S \ {a} \in SUBSET S
  BY FS_RemoveElement
<1>2. SumFunctionOnSet(f, S) = f[a] + SumFunctionOnSet(f, S \ {a})
  BY SumTake
<1>3. SumFunctionOnSet(g, S) = g[a] + SumFunctionOnSet(g, S \ {a})
  BY SumTake
<1>4. SumFunctionOnSet(f, S \ {a}) <= SumFunctionOnSet(g, S \ {a})
  BY <1>1, SumMonotone
<1>5. SumFunctionOnSet(f, S \ {a}) \in Int /\ SumFunctionOnSet(g, S \ {a}) \in Int
  BY <1>1, SumInt
<1> QED BY <1>2, <1>3, <1>4, <1>5

(* Zeros add up to zero.                                                   *)
LEMMA SumZero ==
  ASSUME NEW f, NEW S, IsFiniteSet(S), \A x \in S : f[x] = 0
  PROVE  SumFunctionOnSet(f, S) = 0
<1> DEFINE Bad == {T \in SUBSET S : SumFunctionOnSet(f, T) # 0}
<1>1. ASSUME Bad # {} PROVE FALSE
  <2>1. PICK T \in Bad : \A U \in SUBSET T : U # T => U \notin Bad
    <3>1. Bad \subseteq SUBSET S
      OBVIOUS
    <3> HIDE DEF Bad
    <3> QED BY <1>1, <3>1, MinimalSubset
  <2>2. T \in SUBSET S /\ IsFiniteSet(T) /\ T # {}
    <3>1. T \in SUBSET S /\ IsFiniteSet(T)
      BY FS_Subset
    <3>2. T # {}
      BY SumEmpty
    <3> QED BY <3>1, <3>2
  <2> DEFINE x == First(T)
  <2>3. x \in T /\ SumFunctionOnSet(f, T) = f[x] + SumFunctionOnSet(f, T \ {x})
    BY <2>2, FirstIn, SumFirst
  <2> HIDE DEF x
  <2>4. SumFunctionOnSet(f, T \ {x}) = 0
    BY <2>1, <2>2, <2>3
  <2> QED BY <2>2, <2>3, <2>4
<1> QED BY <1>1

(* Quantities add up to a quantity, which is zero only when each is.       *)
LEMMA SumNat ==
  ASSUME NEW f, NEW S, IsFiniteSet(S), \A x \in S : f[x] \in Nat
  PROVE  /\ SumFunctionOnSet(f, S) \in Nat
         /\ SumFunctionOnSet(f, S) = 0 <=> \A x \in S : f[x] = 0
<1> DEFINE zero == [x \in S |-> 0]
<1>1. \A x \in S : zero[x] \in Int /\ f[x] \in Int /\ zero[x] <= f[x] /\ zero[x] = 0
  OBVIOUS
<1> HIDE DEF zero
<1>2. SumFunctionOnSet(zero, S) = 0
  BY <1>1, SumZero
<1>3. SumFunctionOnSet(zero, S) <= SumFunctionOnSet(f, S)
  BY <1>1, SumMonotone
<1>4. SumFunctionOnSet(f, S) \in Int
  BY <1>1, SumInt
<1>5. ASSUME SumFunctionOnSet(f, S) = 0, NEW a \in S PROVE f[a] = 0
  <2>1. SumFunctionOnSet(zero, S) >= SumFunctionOnSet(f, S)
    BY <1>2, <1>5
  <2>2. zero[a] = f[a]
    BY <1>1, <2>1, SumEqual
  <2> QED BY <1>1, <2>2
<1>6. (\A x \in S : f[x] = 0) => SumFunctionOnSet(f, S) = 0
  BY SumZero
<1> QED BY <1>2, <1>3, <1>4, <1>5, <1>6

(* Two functions added term by term add up to both their sums.             *)
LEMMA SumPlus ==
  ASSUME NEW f, NEW g, NEW h, NEW S, IsFiniteSet(S),
         \A x \in S : f[x] \in Int /\ g[x] \in Int /\ h[x] = f[x] + g[x]
  PROVE  SumFunctionOnSet(h, S) = SumFunctionOnSet(f, S) + SumFunctionOnSet(g, S)
<1> DEFINE Bad == {T \in SUBSET S : SumFunctionOnSet(h, T)
                                      # SumFunctionOnSet(f, T) + SumFunctionOnSet(g, T)}
<1>1. ASSUME Bad # {} PROVE FALSE
  <2>1. PICK T \in Bad : \A U \in SUBSET T : U # T => U \notin Bad
    <3>1. Bad \subseteq SUBSET S
      OBVIOUS
    <3> HIDE DEF Bad
    <3> QED BY <1>1, <3>1, MinimalSubset
  <2>2. T \in SUBSET S /\ IsFiniteSet(T) /\ T # {}
    <3>1. T \in SUBSET S /\ IsFiniteSet(T)
      BY FS_Subset
    <3>2. ASSUME T = {} PROVE FALSE
      <4>1. /\ SumFunctionOnSet(f, T) = 0 /\ SumFunctionOnSet(g, T) = 0
            /\ SumFunctionOnSet(h, T) = 0
        BY <3>2, SumEmpty
      <4> QED BY <4>1
    <3> QED BY <3>1, <3>2
  <2> DEFINE x == First(T)
             U == T \ {x}
  <2>3. x \in T
    BY <2>2, FirstIn
  <2>4. SumFunctionOnSet(f, T) = f[x] + SumFunctionOnSet(f, U)
    BY <2>2, SumFirst
  <2>5. SumFunctionOnSet(g, T) = g[x] + SumFunctionOnSet(g, U)
    BY <2>2, SumFirst
  <2>6. SumFunctionOnSet(h, T) = h[x] + SumFunctionOnSet(h, U)
    BY <2>2, SumFirst
  <2>7. U \in SUBSET S /\ U # T /\ IsFiniteSet(U) /\ U \in SUBSET T
    BY <2>2, <2>3, FS_RemoveElement
  <2> HIDE DEF x, U
  <2>8. SumFunctionOnSet(h, U) = SumFunctionOnSet(f, U) + SumFunctionOnSet(g, U)
    BY <2>1, <2>7
  <2>9. SumFunctionOnSet(f, U) \in Int /\ SumFunctionOnSet(g, U) \in Int
    BY <2>7, SumInt
  <2>10. SumFunctionOnSet(h, T) = SumFunctionOnSet(f, T) + SumFunctionOnSet(g, T)
    BY <2>2, <2>3, <2>4, <2>5, <2>6, <2>8, <2>9
  <2> QED BY <2>10
<1> QED BY <1>1

(* Two sets that share nothing add up separately.                          *)
LEMMA SumUnion ==
  ASSUME NEW f, NEW S, NEW R, IsFiniteSet(S), IsFiniteSet(R), S \cap R = {},
         \A x \in S \cup R : f[x] \in Int
  PROVE  SumFunctionOnSet(f, S \cup R) = SumFunctionOnSet(f, S) + SumFunctionOnSet(f, R)
<1> DEFINE Sum(T) == SumFunctionOnSet(f, T)
           Bad == {T \in SUBSET R : Sum(S \cup T) # Sum(S) + Sum(T)}
<1>1. ASSUME Bad # {} PROVE FALSE
  <2>1. PICK T \in Bad : \A U \in SUBSET T : U # T => U \notin Bad
    <3>1. Bad \subseteq SUBSET R
      OBVIOUS
    <3> HIDE DEF Bad
    <3> QED BY <1>1, <3>1, MinimalSubset
  <2>2. T \in SUBSET R /\ IsFiniteSet(T)
    BY FS_Subset
  <2>3. ASSUME T = {} PROVE FALSE
    <3>1. Sum(T) = 0 /\ S \cup T = S /\ Sum(S) \in Int
      BY <2>3, SumEmpty, SumInt
    <3> QED BY <3>1
  <2> DEFINE x == First(T)
             U == T \ {x}
  <2>4. x \in T /\ Sum(T) = f[x] + Sum(U)
    BY <2>2, <2>3, FirstIn, SumFirst
  <2>5. U \in SUBSET T /\ U # T /\ U \in SUBSET R /\ IsFiniteSet(U) /\ x \notin U
    BY <2>2, <2>4, FS_RemoveElement
  <2>6. S \cup T = (S \cup U) \cup {x} /\ x \notin S \cup U
    BY <2>2, <2>4
  <2>7. IsFiniteSet(S \cup U) /\ (\A y \in S \cup U : f[y] \in Int) /\ f[x] \in Int
    BY <2>2, <2>4, <2>5, FS_Union
  <2> HIDE DEF x, U
  <2>8. Sum(S \cup U) = Sum(S) + Sum(U)
    BY <2>1, <2>5
  <2>9. SumFunctionOnSet(f, (S \cup U) \cup {x}) = f[x] + SumFunctionOnSet(f, S \cup U)
    BY <2>6, <2>7, SumAdd
  <2>10. Sum(S) \in Int /\ Sum(U) \in Int
    BY <2>5, SumInt
  <2>11. Sum(S \cup T) = f[x] + Sum(S \cup U)
    BY <2>6, <2>9
  <2> HIDE DEF Sum
  <2>12. Sum(S \cup T) = Sum(S) + Sum(T)
    BY <2>4, <2>7, <2>8, <2>10, <2>11
  <2> QED BY <2>12
<1>2. R \notin Bad
  BY <1>1
<1> QED BY <1>2

-----------------------------------------------------------------------------
(* What holds at 0 and passes on to the next number holds up to n.         *)
LEMMA UpTo ==
  ASSUME NEW n \in Nat, NEW Good, 0 \in Good,
         \A k \in 0..(n - 1) : k \in Good => k + 1 \in Good
  PROVE  \A k \in 0..n : k \in Good
<1> DEFINE Bad == {k \in 0..n : k \notin Good}
           below == [k \in 0..n |-> -k]
<1>1. ASSUME Bad # {} PROVE FALSE
  <2>1. IsFiniteSet(Bad)
    <3>1. IsFiniteSet(0..n) /\ Bad \in SUBSET (0..n)
      BY FS_Interval
    <3> QED BY <3>1, FS_Subset
  <2>2. \A k \in Bad : below[k] \in Int /\ below[k] = -k
    OBVIOUS
  <2> HIDE DEF below
  <2>3. PICK m \in Bad : \A k \in Bad : below[k] <= below[m]
    <3> HIDE DEF Bad
    <3> QED BY <1>1, <2>1, <2>2, GreatestMember
  <2>4. m \in 0..n /\ m \notin Good /\ m # 0
    OBVIOUS
  <2>5. m - 1 \in 0..(n - 1) /\ m - 1 \in 0..n
    BY <2>4
  <2>6. m - 1 \notin Good
    BY <2>4, <2>5
  <2>7. m - 1 \in Bad
    BY <2>5, <2>6
  <2>8. below[m - 1] <= below[m]
    BY <2>3, <2>7
  <2>9. -(m - 1) <= -m
    BY <2>2, <2>7, <2>8
  <2> QED BY <2>4, <2>9
<1> QED BY <1>1

-----------------------------------------------------------------------------
(* The recursion behind any fold over a finite set: from base, step[x, h]  *)
(* takes in the element x that pick takes out of the set.                  *)
Folds(S, base, pick, step, h) ==
  h = [s \in SUBSET S |->
         IF s = {} THEN base ELSE step[<<pick[s], h[s \ {pick[s]}]>>]]

Picks(S, pick) == \A s \in SUBSET S : s # {} => pick[s] \in s

(* Two such functions agree where both are defined.                        *)
LEMMA FoldsOnce ==
  ASSUME NEW S, NEW T, IsFiniteSet(S), NEW base, NEW pick, NEW step, NEW h, NEW g,
         Picks(S, pick),
         Folds(S, base, pick, step, h), Folds(T, base, pick, step, g),
         NEW s \in SUBSET S, s \in SUBSET T
  PROVE  h[s] = g[s]
<1> DEFINE Bad == {t \in SUBSET s : h[t] # g[t]}
<1>0. IsFiniteSet(s)
  BY FS_Subset
<1>1. ASSUME Bad # {} PROVE FALSE
  <2>1. PICK t \in Bad : \A u \in SUBSET t : u # t => u \notin Bad
    <3>1. Bad \subseteq SUBSET s
      OBVIOUS
    <3> HIDE DEF Bad
    <3> QED BY <1>0, <1>1, <3>1, MinimalSubset
  <2>2. t \in SUBSET S /\ t \in SUBSET T /\ h[t] # g[t]
    OBVIOUS
  <2>3. CASE t = {}
    BY <2>2, <2>3 DEF Folds
  <2>4. CASE t # {}
    <3> DEFINE x == pick[t]
    <3>1. x \in t
      BY <2>2, <2>4 DEF Picks
    <3> HIDE DEF x
    <3>2. h[t \ {x}] = g[t \ {x}]
      BY <2>1, <3>1
    <3>3. h[t] = step[<<x, h[t \ {x}]>>] /\ g[t] = step[<<x, g[t \ {x}]>>]
      BY <2>2, <2>4 DEF Folds, x
    <3> QED BY <2>2, <3>2, <3>3
  <2> QED BY <2>3, <2>4
<1> QED BY <1>1

(* There is one.                                                           *)
LEMMA FoldsExists ==
  ASSUME NEW S, IsFiniteSet(S), NEW base, NEW pick, NEW step, Picks(S, pick)
  PROVE  \E h : Folds(S, base, pick, step, h)
<1> DEFINE Bad == {T \in SUBSET S : ~ \E h : Folds(T, base, pick, step, h)}
<1>1. ASSUME Bad # {} PROVE FALSE
  <2>1. PICK T \in Bad : \A U \in SUBSET T : U # T => U \notin Bad
    <3>1. Bad \subseteq SUBSET S
      OBVIOUS
    <3> HIDE DEF Bad
    <3> QED BY <1>1, <3>1, MinimalSubset
  <2>f. IsFiniteSet(T) /\ T \in SUBSET S
    BY FS_Subset
  <2>2. T # {}
    <3>1. ASSUME T = {} PROVE FALSE
      <4> DEFINE h == [s \in SUBSET {} |-> base]
      <4>1. Folds({}, base, pick, step, h)
        <5>1. \A s \in SUBSET {} : s = {}
          OBVIOUS
        <5> QED BY <5>1 DEF Folds
      <4> QED BY <4>1, <3>1
    <3> QED BY <3>1
  <2> DEFINE H(x) == CHOOSE h : Folds(T \ {x}, base, pick, step, h)
  <2>3. ASSUME NEW x \in T PROVE Folds(T \ {x}, base, pick, step, H(x))
    <3>1. T \ {x} \notin Bad /\ T \ {x} \in SUBSET S
      BY <2>1, <2>f
    <3>2. \E h : Folds(T \ {x}, base, pick, step, h)
      BY <3>1
    <3> QED BY <3>2
  <2> HIDE DEF H
  <2> DEFINE c == pick[T]
             h == [s \in SUBSET T |->
                     IF s = {} THEN base
                     ELSE IF s = T THEN step[<<c, H(c)[T \ {c}]>>]
                     ELSE H(First(T \ s))[s]]
  <2>4. c \in T
    BY <2>2, <2>f DEF Picks
  <2>5. ASSUME NEW s \in SUBSET T, s # T, NEW x \in T, x \notin s
        PROVE  h[s] = H(x)[s]
    <3>1. CASE s = {}
      BY <2>3, <3>1 DEF Folds
    <3>2. CASE s # {}
      <4> DEFINE y == First(T \ s)
      <4>1. y \in T \ s
        BY <2>5, FirstIn
      <4> HIDE DEF y
      <4>2. Folds(T \ {x}, base, pick, step, H(x)) /\ Folds(T \ {y}, base, pick, step, H(y))
        BY <2>3, <4>1
      <4>3. s \in SUBSET (T \ {x}) /\ s \in SUBSET (T \ {y})
        BY <2>5, <4>1
      <4>4. IsFiniteSet(T \ {x}) /\ Picks(T \ {x}, pick)
        BY <2>f, FS_Subset DEF Picks
      <4>5. H(x)[s] = H(y)[s]
        BY <4>2, <4>3, <4>4, FoldsOnce
      <4>6. h[s] = H(y)[s]
        BY <2>5, <3>2 DEF y
      <4> QED BY <4>5, <4>6
    <3> QED BY <3>1, <3>2
  <2>6. ASSUME NEW s \in SUBSET T
        PROVE  h[s] = IF s = {} THEN base ELSE step[<<pick[s], h[s \ {pick[s]}]>>]
    <3>1. CASE s = {}
      BY <3>1
    <3>2. CASE s = T
      <4>1. h[T \ {c}] = H(c)[T \ {c}]
        <5>1. T \ {c} \in SUBSET T /\ T \ {c} # T /\ c \notin T \ {c}
          BY <2>4
        <5> HIDE DEF c, h
        <5> QED BY <2>4, <2>5, <5>1
      <4>2. h[s] = step[<<c, H(c)[T \ {c}]>>]
        BY <2>2, <3>2
      <4> QED BY <2>2, <3>2, <4>1, <4>2
    <3>3. CASE s # {} /\ s # T
      <4> DEFINE y == pick[s]
      <4>1. y \in s
        BY <2>f, <3>3 DEF Picks
      <4>2. PICK x \in T : x \notin s
        BY <3>3
      <4> HIDE DEF y
      <4>3. h[s] = H(x)[s] /\ h[s \ {y}] = H(x)[s \ {y}]
        <5>1. s \ {y} \in SUBSET T /\ s \ {y} # T /\ x \notin s \ {y}
          BY <4>2
        <5> HIDE DEF h
        <5> QED BY <2>5, <3>3, <4>2, <5>1
      <4>4. H(x)[s] = step[<<y, H(x)[s \ {y}]>>]
        <5>1. s \in SUBSET (T \ {x}) /\ Folds(T \ {x}, base, pick, step, H(x))
          BY <2>3, <4>2
        <5> HIDE DEF h
        <5> QED BY <3>3, <5>1 DEF Folds, y
      <4> HIDE DEF h
      <4> QED BY <3>3, <4>3, <4>4 DEF y
    <3> QED BY <3>1, <3>2, <3>3
  <2>7. Folds(T, base, pick, step, h)
    <3>1. h = [s \in SUBSET T |-> h[s]]
      OBVIOUS
    <3> HIDE DEF h
    <3> QED BY <2>6, <3>1 DEF Folds
  <2> QED BY <2>7
<1> QED BY <1>1

(* Its values are where base is and every step leads.                      *)
LEMMA FoldsType ==
  ASSUME NEW S, IsFiniteSet(S), NEW V, NEW base \in V, NEW pick,
         NEW step \in [S \X V -> V], NEW h,
         Picks(S, pick),
         Folds(S, base, pick, step, h)
  PROVE  \A s \in SUBSET S : h[s] \in V
<1> DEFINE Bad == {s \in SUBSET S : h[s] \notin V}
<1>1. ASSUME Bad # {} PROVE FALSE
  <2>1. PICK t \in Bad : \A u \in SUBSET t : u # t => u \notin Bad
    <3>1. Bad \subseteq SUBSET S
      OBVIOUS
    <3> HIDE DEF Bad
    <3> QED BY <1>1, <3>1, MinimalSubset
  <2>2. t \in SUBSET S /\ h[t] \notin V
    OBVIOUS
  <2>3. CASE t = {}
    BY <2>2, <2>3 DEF Folds
  <2>4. CASE t # {}
    <3> DEFINE x == pick[t]
    <3>1. x \in t
      BY <2>2, <2>4 DEF Picks
    <3> HIDE DEF x
    <3>2. h[t \ {x}] \in V
      BY <2>1, <2>2, <3>1
    <3>3. h[t] = step[<<x, h[t \ {x}]>>]
      BY <2>2, <2>4 DEF Folds, x
    <3> QED BY <2>2, <3>1, <3>2, <3>3
  <2> QED BY <2>3, <2>4
<1> QED BY <1>1
=============================================================================
