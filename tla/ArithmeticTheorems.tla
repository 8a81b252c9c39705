------------------------- MODULE ArithmeticTheorems -------------------------
(***************************************************************************)
(* Facts about integers that the proofs of the contracts share: products   *)
(* and division, and sums over finite sets.                                *)
(*                                                                         *)
(* The library's induction theorems are about an operator.  The lemmas on  *)
(* sums use instead that strict inclusion of finite sets is well-founded:  *)
(* among the sets for which a lemma fails there would be a minimal one.    *)
(***************************************************************************)
EXTENDS Integers, FiniteSets, Functions, FiniteSetTheorems, WellFoundedInduction,
        TLAPS

-----------------------------------------------------------------------------
(* Integer division.                                                       *)

\* Division rounds down, by less than one divisor.
LEMMA DivBounds ==
    ASSUME NEW a \in Nat, NEW b \in Nat \ {0}
    PROVE  /\ a \div b \in Nat
           /\ b * (a \div b) <= a
           /\ a < b * (a \div b) + b
OBVIOUS

\* A product of naturals is a natural.
LEMMA MulNat ==
    ASSUME NEW a \in Nat, NEW b \in Nat
    PROVE  a * b \in Nat
OBVIOUS

\* Products are monotonic.
LEMMA MulMono ==
    ASSUME NEW a \in Nat, NEW b \in Nat, NEW c \in Nat, a <= b
    PROVE  a * c <= b * c
OBVIOUS

\* Strictly so for a positive factor, hence a common factor cancels.
LEMMA MulCancel ==
    ASSUME NEW a \in Nat, NEW b \in Nat, NEW c \in Nat \ {0}, a * c <= b * c
    PROVE  a <= b
OBVIOUS

\* The quotient of a number below b * c is below c.
LEMMA DivUpper ==
    ASSUME NEW a \in Nat, NEW b \in Nat \ {0}, NEW c \in Nat, a <= b * c
    PROVE  a \div b <= c
<1> DEFINE q == a \div b
<1>1. q \in Nat /\ b * q <= a
  BY DivBounds
<1>2. q * b <= c * b
  BY <1>1
<1> HIDE DEF q
<1>3. q <= c
  BY <1>1, <1>2, MulCancel
<1> QED
  BY <1>3 DEF q

-----------------------------------------------------------------------------
(* Sums of functions: SumFunctionOnSet of the community modules.           *)

\* The element that a fold takes next.
SomeElement(s) == CHOOSE x \in s : TRUE

\* g is the sum of f on the subsets of T, as the fold computes it.
RunningSum(g, f, T) ==
    g = [s \in SUBSET T |-> IF s = {} THEN 0 ELSE f[SomeElement(s)] + g[s \ {SomeElement(s)}]]

\* The definition of the library, with the fold's function named.
LEMMA SumIsChoice ==
    ASSUME NEW f, NEW S
    PROVE  SumFunctionOnSet(f, S) = (CHOOSE g : RunningSum(g, f, S))[S]
  BY DEF SumFunctionOnSet, FoldFunctionOnSet, MapThenFoldSet, RunningSum, SomeElement

\* The sum of a function is the one on its domain.
LEMMA SumOnDomain ==
    ASSUME NEW f
    PROVE  SumFunction(f) = SumFunctionOnSet(f, DOMAIN f)
  BY Zenon DEF SumFunction, SumFunctionOnSet

\* There is one in every non-empty set.
LEMMA SomeElementInSet ==
    ASSUME NEW s, s # {}
    PROVE  SomeElement(s) \in s
  BY DEF SomeElement

\* Induction on finite sets, in the form in which the provers can use it: a
\* non-empty collection of subsets of a finite set has a minimal member.
LEMMA LeastSubset ==
    ASSUME NEW S, IsFiniteSet(S), NEW B \in SUBSET (SUBSET S), B # {}
    PROVE  \E m \in B : \A y \in B : y \subseteq m => y = m
<1>1. IsWellFoundedOn(StrictSubsetOrdering(S), SUBSET S)
  BY FS_StrictSubsetOrderingWellFounded, FS_FiniteSubsetsOfFinite
<1>2. PICK m \in B : \A y \in B : ~ (<<y, m>> \in StrictSubsetOrdering(S))
  BY <1>1, WFMin
<1>3. ASSUME NEW y \in B, y \subseteq m
      PROVE  y = m
  BY <1>2, <1>3 DEF StrictSubsetOrdering
<1> QED BY <1>2, <1>3

\* Sums on the subsets of two sets agree where both are defined.
LEMMA UnfoldingsAgree ==
    ASSUME NEW f, NEW T, NEW U, IsFiniteSet(T), NEW g, NEW h,
           RunningSum(g, f, T), RunningSum(h, f, U)
    PROVE  \A s \in SUBSET T : s \in SUBSET U => g[s] = h[s]
<1> DEFINE B == {s \in SUBSET T : s \in SUBSET U /\ g[s] # h[s]}
<1>1. SUFFICES ASSUME B # {} PROVE FALSE
  OBVIOUS
<1>2. PICK m \in B : \A y \in B : y \subseteq m => y = m
  <2>1. B \in SUBSET (SUBSET T)
    OBVIOUS
  <2> HIDE DEF B
  <2> QED BY <1>1, <2>1, LeastSubset
<1>3. g[m] = IF m = {} THEN 0 ELSE f[SomeElement(m)] + g[m \ {SomeElement(m)}]
  BY DEF RunningSum
<1>4. h[m] = IF m = {} THEN 0 ELSE f[SomeElement(m)] + h[m \ {SomeElement(m)}]
  BY DEF RunningSum
<1>5. m # {}
  BY <1>3, <1>4
<1>6. /\ SomeElement(m) \in m
      /\ m \ {SomeElement(m)} \subseteq m
      /\ m \ {SomeElement(m)} # m
  BY <1>5, SomeElementInSet
<1>7. g[m \ {SomeElement(m)}] = h[m \ {SomeElement(m)}]
  BY <1>2, <1>6
<1> QED BY <1>3, <1>4, <1>7

\* The fold's function exists, so the CHOOSE that defines it finds it.
LEMMA UnfoldingExists ==
    ASSUME NEW f, NEW S, IsFiniteSet(S)
    PROVE  RunningSum(CHOOSE g : RunningSum(g, f, S), f, S)
<1> DEFINE W(U) == CHOOSE g : RunningSum(g, f, U)
           B == {T \in SUBSET S : ~ RunningSum(W(T), f, T)}
<1>1. SUFFICES ASSUME B # {} PROVE FALSE
  OBVIOUS
<1>2. PICK T \in B : \A y \in B : y \subseteq T => y = T
  <2>1. B \in SUBSET (SUBSET S)
    OBVIOUS
  <2> HIDE DEF B
  <2> QED BY <1>1, <2>1, LeastSubset
<1>3. ASSUME NEW U \in SUBSET T, U # T
      PROVE  RunningSum(W(U), f, U) /\ IsFiniteSet(U)
  BY <1>2, <1>3, FS_Subset
<1> DEFINE h == [s \in SUBSET T |->
                   IF s = {} THEN 0
                   ELSE f[SomeElement(s)] + W(s \ {SomeElement(s)})[s \ {SomeElement(s)}]]
<1> HIDE DEF W
<1>4. ASSUME NEW r \in SUBSET T, r # T
      PROVE  h[r] = W(r)[r]
  <2>1. CASE r = {}
    <3>1. RunningSum(W(r), f, r)
      BY <1>3, <1>4
    <3> QED BY <3>1, <2>1 DEF RunningSum
  <2>2. CASE r # {}
    <3> DEFINE q == r \ {SomeElement(r)}
    <3>1. SomeElement(r) \in r
      BY <2>2, SomeElementInSet
    <3>2. q \in SUBSET r /\ q \in SUBSET T /\ q # T
      BY <1>4
    <3>3. /\ RunningSum(W(r), f, r) /\ RunningSum(W(q), f, q)
          /\ IsFiniteSet(q)
      BY <1>3, <1>4, <3>2
    <3>4. W(q)[q] = W(r)[q]
      BY <3>2, <3>3, UnfoldingsAgree
    <3>5. W(r)[r] = f[SomeElement(r)] + W(r)[q]
      BY <3>3, <2>2 DEF RunningSum
    <3>6. h[r] = f[SomeElement(r)] + W(q)[q]
      BY <2>2
    <3> QED BY <3>4, <3>5, <3>6
  <2> QED BY <2>1, <2>2
<1>5. ASSUME NEW s \in SUBSET T
      PROVE  h[s] = IF s = {} THEN 0 ELSE f[SomeElement(s)] + h[s \ {SomeElement(s)}]
  <2>1. CASE s = {}
    BY <2>1
  <2>2. CASE s # {}
    <3>1. SomeElement(s) \in s
      BY <2>2, SomeElementInSet
    <3>2. s \ {SomeElement(s)} \in SUBSET T /\ s \ {SomeElement(s)} # T
      BY <3>1
    <3>3. h[s \ {SomeElement(s)}] = W(s \ {SomeElement(s)})[s \ {SomeElement(s)}]
      BY <3>2, <1>4
    <3>4. h[s] = f[SomeElement(s)] + W(s \ {SomeElement(s)})[s \ {SomeElement(s)}]
      BY <2>2
    <3> QED BY <2>2, <3>3, <3>4
  <2> QED BY <2>1, <2>2
<1>6. h = [s \in SUBSET T |-> h[s]]
  OBVIOUS
<1>7. RunningSum(h, f, T)
  <2> HIDE DEF h
  <2> QED BY <1>5, <1>6 DEF RunningSum
<1>8. RunningSum(W(T), f, T)
  <2> HIDE DEF h
  <2> QED BY <1>7 DEF W
<1> QED BY <1>2, <1>8 DEF W

\* The recursion that the sum satisfies.
LEMMA SumUnfolds ==
    ASSUME NEW f, NEW S, IsFiniteSet(S)
    PROVE  SumFunctionOnSet(f, S) =
             IF S = {} THEN 0
             ELSE f[SomeElement(S)] + SumFunctionOnSet(f, S \ {SomeElement(S)})
<1> DEFINE W(U) == CHOOSE g : RunningSum(g, f, U)
           R == S \ {SomeElement(S)}
<1>1. IsFiniteSet(R) /\ R \in SUBSET S
  BY FS_Subset
<1>2. RunningSum(W(S), f, S) /\ RunningSum(W(R), f, R)
  BY <1>1, UnfoldingExists
<1>3. SumFunctionOnSet(f, S) = W(S)[S] /\ SumFunctionOnSet(f, R) = W(R)[R]
  BY SumIsChoice
<1> HIDE DEF W
<1>4. W(R)[R] = W(S)[R]
  BY <1>1, <1>2, UnfoldingsAgree
<1>5. W(S)[S] = IF S = {} THEN 0 ELSE f[SomeElement(S)] + W(S)[R]
  BY <1>2 DEF RunningSum
<1> QED BY <1>3, <1>4, <1>5

\* The empty sum.
LEMMA SumEmpty ==
    ASSUME NEW f
    PROVE  SumFunctionOnSet(f, {}) = 0
  BY SumUnfolds, FS_EmptySet

\* A sum of integers is an integer.
LEMMA SumInt ==
    ASSUME NEW f, NEW S, IsFiniteSet(S), \A s \in S : f[s] \in Int
    PROVE  SumFunctionOnSet(f, S) \in Int
<1> DEFINE B == {T \in SUBSET S : SumFunctionOnSet(f, T) \notin Int}
<1>1. SUFFICES ASSUME B # {} PROVE FALSE
  OBVIOUS
<1>2. PICK T \in B : \A y \in B : y \subseteq T => y = T
  <2>1. B \in SUBSET (SUBSET S)
    OBVIOUS
  <2> HIDE DEF B
  <2> QED BY <1>1, <2>1, LeastSubset
<1>3. IsFiniteSet(T)
  BY FS_Subset
<1>4. T # {}
  BY SumEmpty
<1>5. SomeElement(T) \in T
  BY <1>4, SomeElementInSet
<1>6. SumFunctionOnSet(f, T \ {SomeElement(T)}) \in Int
  BY <1>2, <1>5
<1> QED BY <1>3, <1>4, <1>5, <1>6, SumUnfolds

\* Any element can be taken out of a sum, whatever the order of the fold.
LEMMA SumSplit ==
    ASSUME NEW f, NEW S, IsFiniteSet(S), \A s \in S : f[s] \in Int, NEW x \in S
    PROVE  SumFunctionOnSet(f, S) = f[x] + SumFunctionOnSet(f, S \ {x})
<1> DEFINE Splits(T) == \A y \in T :
               SumFunctionOnSet(f, T) = f[y] + SumFunctionOnSet(f, T \ {y})
           B == {T \in SUBSET S : ~ Splits(T)}
<1>1. SUFFICES ASSUME B # {} PROVE FALSE
  OBVIOUS
<1>2. PICK T \in B : \A y \in B : y \subseteq T => y = T
  <2>1. B \in SUBSET (SUBSET S)
    OBVIOUS
  <2> HIDE DEF B
  <2> QED BY <1>1, <2>1, LeastSubset
<1>3. \A U \in SUBSET T : IsFiniteSet(U) /\ SumFunctionOnSet(f, U) \in Int
  BY FS_Subset, SumInt
<1>4. PICK y \in T : SumFunctionOnSet(f, T) # f[y] + SumFunctionOnSet(f, T \ {y})
  OBVIOUS
<1> DEFINE p == SomeElement(T)
           R == T \ {p}
<1>5. p \in T
  BY SomeElementInSet
<1>6. SumFunctionOnSet(f, T) = f[p] + SumFunctionOnSet(f, R)
  BY <1>3, SumUnfolds
<1>7. p # y
  BY <1>4, <1>6
<1>8. Splits(R)
  BY <1>2, <1>5
<1>9. SumFunctionOnSet(f, R) = f[y] + SumFunctionOnSet(f, R \ {y})
  BY <1>7, <1>8
<1>10. Splits(T \ {y})
  BY <1>2
<1>11. SumFunctionOnSet(f, T \ {y}) = f[p] + SumFunctionOnSet(f, (T \ {y}) \ {p})
  BY <1>5, <1>7, <1>10
<1>12. (T \ {y}) \ {p} = R \ {y}
  OBVIOUS
<1>13. f[p] \in Int /\ f[y] \in Int /\ SumFunctionOnSet(f, R \ {y}) \in Int
  BY <1>3, <1>5
<1>14. f[p] + (f[y] + SumFunctionOnSet(f, R \ {y}))
         = f[y] + (f[p] + SumFunctionOnSet(f, R \ {y}))
  <2> HIDE DEF p, R
  <2> QED BY <1>13
<1>15. SumFunctionOnSet(f, T) = f[y] + SumFunctionOnSet(f, T \ {y})
  <2> HIDE DEF p, R, B, Splits
  <2> QED BY <1>6, <1>9, <1>11, <1>12, <1>14
<1> QED BY <1>4, <1>15

\* A sum depends on the values only.
LEMMA SumSame ==
    ASSUME NEW f, NEW g, NEW S, IsFiniteSet(S), \A s \in S : f[s] = g[s]
    PROVE  SumFunctionOnSet(f, S) = SumFunctionOnSet(g, S)
<1> DEFINE B == {T \in SUBSET S : SumFunctionOnSet(f, T) # SumFunctionOnSet(g, T)}
<1>1. SUFFICES ASSUME B # {} PROVE FALSE
  OBVIOUS
<1>2. PICK T \in B : \A y \in B : y \subseteq T => y = T
  <2>1. B \in SUBSET (SUBSET S)
    OBVIOUS
  <2> HIDE DEF B
  <2> QED BY <1>1, <2>1, LeastSubset
<1>3. IsFiniteSet(T)
  BY FS_Subset
<1>4. T # {}
  BY SumEmpty
<1>5. SomeElement(T) \in T
  BY <1>4, SomeElementInSet
<1>6. SumFunctionOnSet(f, T \ {SomeElement(T)}) = SumFunctionOnSet(g, T \ {SomeElement(T)})
  BY <1>2, <1>5
<1> QED BY <1>3, <1>4, <1>5, <1>6, SumUnfolds

\* Changing one value changes the sum by as much.
LEMMA SumUpdate ==
    ASSUME NEW f, NEW g, NEW S, IsFiniteSet(S), NEW x \in S,
           \A s \in S : f[s] \in Int,
           \A s \in S : g[s] \in Int,
           \A s \in S \ {x} : g[s] = f[s]
    PROVE  SumFunctionOnSet(g, S) = SumFunctionOnSet(f, S) - f[x] + g[x]
<1>1. IsFiniteSet(S \ {x})
  BY FS_Subset
<1>2. SumFunctionOnSet(f, S \ {x}) = SumFunctionOnSet(g, S \ {x})
  BY <1>1, SumSame
<1>3. SumFunctionOnSet(f, S \ {x}) \in Int
  BY <1>1, SumInt
<1>4. /\ SumFunctionOnSet(f, S) = f[x] + SumFunctionOnSet(f, S \ {x})
      /\ SumFunctionOnSet(g, S) = g[x] + SumFunctionOnSet(g, S \ {x})
  BY SumSplit
<1> QED BY <1>2, <1>3, <1>4

\* Sums are monotonic.
LEMMA SumBelow ==
    ASSUME NEW f, NEW g, NEW S, IsFiniteSet(S),
           \A s \in S : f[s] \in Int,
           \A s \in S : g[s] \in Int,
           \A s \in S : f[s] <= g[s]
    PROVE  SumFunctionOnSet(f, S) <= SumFunctionOnSet(g, S)
<1> DEFINE B == {T \in SUBSET S : ~ (SumFunctionOnSet(f, T) <= SumFunctionOnSet(g, T))}
<1>1. SUFFICES ASSUME B # {} PROVE FALSE
  OBVIOUS
<1>2. PICK T \in B : \A y \in B : y \subseteq T => y = T
  <2>1. B \in SUBSET (SUBSET S)
    OBVIOUS
  <2> HIDE DEF B
  <2> QED BY <1>1, <2>1, LeastSubset
<1>3. IsFiniteSet(T)
  BY FS_Subset
<1>4. T # {}
  BY SumEmpty
<1>5. SomeElement(T) \in T
  BY <1>4, SomeElementInSet
<1> DEFINE R == T \ {SomeElement(T)}
<1>6. /\ SumFunctionOnSet(f, R) <= SumFunctionOnSet(g, R)
      /\ IsFiniteSet(R)
  BY <1>2, <1>5, FS_Subset
<1>7. SumFunctionOnSet(f, R) \in Int /\ SumFunctionOnSet(g, R) \in Int
  BY <1>6, SumInt
<1>8. /\ SumFunctionOnSet(f, T) = f[SomeElement(T)] + SumFunctionOnSet(f, R)
      /\ SumFunctionOnSet(g, T) = g[SomeElement(T)] + SumFunctionOnSet(g, R)
  BY <1>3, <1>4, SumUnfolds
<1>9. f[SomeElement(T)] \in Int /\ g[SomeElement(T)] \in Int /\ f[SomeElement(T)] <= g[SomeElement(T)]
  BY <1>5
<1> QED BY <1>6, <1>7, <1>8, <1>9

\* Zeros add up to zero.
LEMMA SumZero ==
    ASSUME NEW f, NEW S, IsFiniteSet(S), \A s \in S : f[s] = 0
    PROVE  SumFunctionOnSet(f, S) = 0
<1> DEFINE B == {T \in SUBSET S : SumFunctionOnSet(f, T) # 0}
<1>1. SUFFICES ASSUME B # {} PROVE FALSE
  OBVIOUS
<1>2. PICK T \in B : \A y \in B : y \subseteq T => y = T
  <2>1. B \in SUBSET (SUBSET S)
    OBVIOUS
  <2> HIDE DEF B
  <2> QED BY <1>1, <2>1, LeastSubset
<1>3. IsFiniteSet(T) /\ T # {}
  BY FS_Subset, SumEmpty
<1>5. SomeElement(T) \in T
  BY <1>3, SomeElementInSet
<1>6. SumFunctionOnSet(f, T \ {SomeElement(T)}) = 0
  BY <1>2, <1>5
<1> QED BY <1>3, <1>5, <1>6, SumUnfolds

\* A sum of naturals is one, and no term exceeds it.
LEMMA SumNat ==
    ASSUME NEW f, NEW S, IsFiniteSet(S), \A s \in S : f[s] \in Nat
    PROVE  /\ SumFunctionOnSet(f, S) \in Nat
           /\ \A x \in S : f[x] <= SumFunctionOnSet(f, S)
<1> DEFINE z == [s \in S |-> 0]
<1>1. ASSUME NEW T \in SUBSET S
      PROVE  SumFunctionOnSet(f, T) \in Nat
  <2>1. IsFiniteSet(T)
    BY FS_Subset
  <2>2. SumFunctionOnSet(f, T) \in Int
    BY <2>1, SumInt
  <2>3. SumFunctionOnSet(z, T) = 0
    BY <2>1, SumZero
  <2>4. SumFunctionOnSet(z, T) <= SumFunctionOnSet(f, T)
    BY <2>1, SumBelow
  <2> QED BY <2>2, <2>3, <2>4
<1>2. ASSUME NEW x \in S
      PROVE  f[x] <= SumFunctionOnSet(f, S)
  <2>1. SumFunctionOnSet(f, S) = f[x] + SumFunctionOnSet(f, S \ {x})
    BY SumSplit
  <2> QED BY <2>1, <1>1
<1> QED BY <1>1, <1>2

\* The sum of sums.
LEMMA SumPlus ==
    ASSUME NEW f, NEW g, NEW h, NEW S, IsFiniteSet(S),
           \A s \in S : f[s] \in Int,
           \A s \in S : g[s] \in Int,
           \A s \in S : h[s] = f[s] + g[s]
    PROVE  SumFunctionOnSet(h, S) = SumFunctionOnSet(f, S) + SumFunctionOnSet(g, S)
<1> DEFINE B == {T \in SUBSET S : SumFunctionOnSet(h, T) #
                    SumFunctionOnSet(f, T) + SumFunctionOnSet(g, T)}
<1>1. SUFFICES ASSUME B # {} PROVE FALSE
  OBVIOUS
<1>2. PICK T \in B : \A y \in B : y \subseteq T => y = T
  <2>1. B \in SUBSET (SUBSET S)
    OBVIOUS
  <2> HIDE DEF B
  <2> QED BY <1>1, <2>1, LeastSubset
<1>3. IsFiniteSet(T)
  BY FS_Subset
<1>4. T # {}
  <2>1. /\ SumFunctionOnSet(f, {}) = 0 /\ SumFunctionOnSet(g, {}) = 0
        /\ SumFunctionOnSet(h, {}) = 0
    BY SumEmpty
  <2>2. 0 = 0 + 0
    OBVIOUS
  <2> QED BY <2>1, <2>2
<1>5. SomeElement(T) \in T
  BY <1>4, SomeElementInSet
<1> DEFINE R == T \ {SomeElement(T)}
<1>6. /\ SumFunctionOnSet(h, R) = SumFunctionOnSet(f, R) + SumFunctionOnSet(g, R)
      /\ IsFiniteSet(R)
  BY <1>2, <1>5, FS_Subset
<1>7. SumFunctionOnSet(f, R) \in Int /\ SumFunctionOnSet(g, R) \in Int
  BY <1>6, SumInt
<1>8. /\ SumFunctionOnSet(f, T) = f[SomeElement(T)] + SumFunctionOnSet(f, R)
      /\ SumFunctionOnSet(g, T) = g[SomeElement(T)] + SumFunctionOnSet(g, R)
      /\ SumFunctionOnSet(h, T) = h[SomeElement(T)] + SumFunctionOnSet(h, R)
  BY <1>3, <1>4, SumUnfolds
<1>9. /\ f[SomeElement(T)] \in Int /\ g[SomeElement(T)] \in Int
      /\ h[SomeElement(T)] = f[SomeElement(T)] + g[SomeElement(T)]
  BY <1>5
<1>10. SumFunctionOnSet(h, T) # SumFunctionOnSet(f, T) + SumFunctionOnSet(g, T)
  OBVIOUS
<1> HIDE DEF R, B
<1> QED BY <1>6, <1>7, <1>8, <1>9, <1>10

\* The sum over a disjoint union.
LEMMA SumUnion ==
    ASSUME NEW f, NEW S, NEW T, IsFiniteSet(S), IsFiniteSet(T), S \cap T = {},
           \A s \in S \cup T : f[s] \in Int
    PROVE  SumFunctionOnSet(f, S \cup T) = SumFunctionOnSet(f, S) + SumFunctionOnSet(f, T)
<1> DEFINE B == {U \in SUBSET S : SumFunctionOnSet(f, U \cup T) #
                    SumFunctionOnSet(f, U) + SumFunctionOnSet(f, T)}
<1>1. SUFFICES ASSUME B # {} PROVE FALSE
  OBVIOUS
<1>2. PICK U \in B : \A y \in B : y \subseteq U => y = U
  <2>1. B \in SUBSET (SUBSET S)
    OBVIOUS
  <2> HIDE DEF B
  <2> QED BY <1>1, <2>1, LeastSubset
<1>3. \A V \in SUBSET S : IsFiniteSet(V) /\ IsFiniteSet(V \cup T)
  BY FS_Subset, FS_Union
<1>4. /\ SumFunctionOnSet(f, T) \in Int
      /\ \A V \in SUBSET S : /\ SumFunctionOnSet(f, V) \in Int
                              /\ SumFunctionOnSet(f, V \cup T) \in Int
  BY <1>3, SumInt
<1>5. U # {}
  <2>1. {} \cup T = T /\ SumFunctionOnSet(f, {}) = 0
    BY SumEmpty
  <2>2. SumFunctionOnSet(f, T) = 0 + SumFunctionOnSet(f, T)
    BY <1>4
  <2>3. SumFunctionOnSet(f, {} \cup T) = SumFunctionOnSet(f, {}) + SumFunctionOnSet(f, T)
    BY <2>1, <2>2
  <2> QED BY <2>3
<1>6. PICK x \in U : TRUE
  BY <1>5
<1> DEFINE R == U \ {x}
<1>7. SumFunctionOnSet(f, R \cup T) = SumFunctionOnSet(f, R) + SumFunctionOnSet(f, T)
  BY <1>2, <1>6
<1>8. SumFunctionOnSet(f, U) = f[x] + SumFunctionOnSet(f, R)
  BY <1>3, SumSplit
<1>9. SumFunctionOnSet(f, U \cup T) = f[x] + SumFunctionOnSet(f, R \cup T)
  <2>1. (U \cup T) \ {x} = R \cup T
    OBVIOUS
  <2> QED BY <2>1, <1>3, SumSplit
<1>10. f[x] \in Int /\ SumFunctionOnSet(f, R) \in Int
  BY <1>4
<1>11. SumFunctionOnSet(f, U \cup T) # SumFunctionOnSet(f, U) + SumFunctionOnSet(f, T)
  OBVIOUS
<1> HIDE DEF R, B
<1> QED BY <1>4, <1>7, <1>8, <1>9, <1>10, <1>11

\* The elements with a given key, and with a key of a set, and their sums.
WithKey(f, key, U, w) == [u \in U |-> IF key[u] = w THEN f[u] ELSE 0]
WithKeys(f, key, U, G) == [u \in U |-> IF key[u] \in G THEN f[u] ELSE 0]
KeySum(f, key, U, w) == SumFunctionOnSet(WithKey(f, key, U, w), U)
KeysSum(f, key, U, G) == SumFunctionOnSet(WithKeys(f, key, U, G), U)

\* Adding up key by key is adding up.
LEMMA SumOfGroups ==
    ASSUME NEW U, IsFiniteSet(U), NEW f, NEW key, \A u \in U : f[u] \in Int,
           NEW S, IsFiniteSet(S), NEW g,
           \A w \in S : g[w] = KeySum(f, key, U, w)
    PROVE  SumFunctionOnSet(g, S) = KeysSum(f, key, U, S)
<1> DEFINE B == {T \in SUBSET S : SumFunctionOnSet(g, T) # KeysSum(f, key, U, T)}
<1>1. SUFFICES ASSUME B # {} PROVE FALSE
  OBVIOUS
<1>2. PICK T \in B : \A y \in B : y \subseteq T => y = T
  <2>1. B \in SUBSET (SUBSET S)
    OBVIOUS
  <2> HIDE DEF B
  <2> QED BY <1>1, <2>1, LeastSubset
<1>3. /\ \A w : \A u \in U : WithKey(f, key, U, w)[u] \in Int
      /\ \A G : \A u \in U : WithKeys(f, key, U, G)[u] \in Int
  BY DEF WithKey, WithKeys
<1>4. (\A w : KeySum(f, key, U, w) \in Int) /\ (\A G : KeysSum(f, key, U, G) \in Int)
  BY <1>3, SumInt DEF KeySum, KeysSum
<1>5. T # {}
  <2>1. KeysSum(f, key, U, {}) = 0
    <3>1. \A u \in U : WithKeys(f, key, U, {})[u] = 0
      BY DEF WithKeys
    <3> QED BY <3>1, SumZero DEF KeysSum
  <2>2. SumFunctionOnSet(g, {}) = 0
    BY SumEmpty
  <2>3. T = {} => SumFunctionOnSet(g, T) = KeysSum(f, key, U, T)
    BY <2>1, <2>2
  <2> QED BY <2>3
<1>6. PICK x \in T : TRUE
  BY <1>5
<1> DEFINE R == T \ {x}
<1>7. SumFunctionOnSet(g, R) = KeysSum(f, key, U, R)
  BY <1>2, <1>6
<1>8. \A w \in S : g[w] \in Int
  BY <1>4
<1>9. SumFunctionOnSet(g, T) = g[x] + SumFunctionOnSet(g, R)
  <2>1. IsFiniteSet(T) /\ \A w \in T : g[w] \in Int
    BY <1>8, FS_Subset
  <2> QED BY <2>1, SumSplit
<1>10. g[x] = KeySum(f, key, U, x)
  OBVIOUS
<1>11. KeysSum(f, key, U, T) = KeySum(f, key, U, x) + KeysSum(f, key, U, R)
  <2> DEFINE a == WithKey(f, key, U, x)
             b == WithKeys(f, key, U, R)
             c == WithKeys(f, key, U, T)
  <2>1. ASSUME NEW u \in U PROVE c[u] = a[u] + b[u]
    <3>1. /\ c[u] = IF key[u] \in T THEN f[u] ELSE 0
          /\ a[u] = IF key[u] = x THEN f[u] ELSE 0
          /\ b[u] = IF key[u] \in R THEN f[u] ELSE 0
      BY DEF WithKey, WithKeys
    <3>2. f[u] \in Int /\ (key[u] \in T <=> key[u] = x \/ key[u] \in R) /\ x \notin R
      OBVIOUS
    <3> HIDE DEF R, a, b, c
    <3> QED BY <3>1, <3>2
  <2>2. (\A u \in U : a[u] \in Int) /\ (\A u \in U : b[u] \in Int)
    BY <1>3
  <2> HIDE DEF a, b, c
  <2>3. SumFunctionOnSet(c, U) = SumFunctionOnSet(a, U) + SumFunctionOnSet(b, U)
    BY <2>1, <2>2, SumPlus
  <2> QED BY <2>3 DEF a, b, c, KeySum, KeysSum
<1>12. SumFunctionOnSet(g, T) # KeysSum(f, key, U, T)
  OBVIOUS
<1> QED BY <1>7, <1>9, <1>10, <1>11, <1>12

\* A sum on a part of a set, as a sum on the whole set.
LEMMA SumOnSubset ==
    ASSUME NEW S, IsFiniteSet(S), NEW T \in SUBSET S, NEW f, NEW g,
           \A s \in T : f[s] \in Int,
           \A s \in T : g[s] = f[s],
           \A s \in S \ T : g[s] = 0
    PROVE  SumFunctionOnSet(f, T) = SumFunctionOnSet(g, S)
<1>1. IsFiniteSet(T) /\ IsFiniteSet(S \ T)
  BY FS_Subset, FS_Difference
<1>2. SumFunctionOnSet(g, T) = SumFunctionOnSet(f, T) /\ SumFunctionOnSet(g, S \ T) = 0
  BY <1>1, SumSame, SumZero
<1>3. SumFunctionOnSet(g, T \cup (S \ T))
        = SumFunctionOnSet(g, T) + SumFunctionOnSet(g, S \ T)
  <2>1. \A s \in T \cup (S \ T) : g[s] \in Int
    OBVIOUS
  <2>2. T \cap (S \ T) = {}
    OBVIOUS
  <2> QED
    BY <1>1, <2>1, <2>2, SumUnion
<1>4. T \cup (S \ T) = S /\ SumFunctionOnSet(f, T) \in Int
  BY <1>1, SumInt
<1>5. SumFunctionOnSet(g, S) = SumFunctionOnSet(g, T) + SumFunctionOnSet(g, S \ T)
  BY <1>3, <1>4, Zenon
<1> QED
  BY <1>2, <1>4, <1>5

\* A common factor.
LEMMA SumScale ==
    ASSUME NEW f, NEW h, NEW S, IsFiniteSet(S), NEW k \in Int,
           \A s \in S : f[s] \in Int,
           \A s \in S : h[s] = k * f[s]
    PROVE  SumFunctionOnSet(h, S) = k * SumFunctionOnSet(f, S)
<1> DEFINE B == {T \in SUBSET S : SumFunctionOnSet(h, T) # k * SumFunctionOnSet(f, T)}
<1>1. SUFFICES ASSUME B # {} PROVE FALSE
  OBVIOUS
<1>2. PICK T \in B : \A y \in B : y \subseteq T => y = T
  <2>1. B \in SUBSET (SUBSET S)
    OBVIOUS
  <2> HIDE DEF B
  <2> QED BY <1>1, <2>1, LeastSubset
<1>3. IsFiniteSet(T)
  BY FS_Subset
<1>4. T # {}
  <2>1. SumFunctionOnSet(f, {}) = 0 /\ SumFunctionOnSet(h, {}) = 0
    BY SumEmpty
  <2>2. 0 = k * 0
    OBVIOUS
  <2> QED BY <2>1, <2>2
<1>5. SomeElement(T) \in T
  BY <1>4, SomeElementInSet
<1> DEFINE R == T \ {SomeElement(T)}
<1>6. SumFunctionOnSet(h, R) = k * SumFunctionOnSet(f, R) /\ IsFiniteSet(R)
  BY <1>2, <1>5, FS_Subset
<1>7. SumFunctionOnSet(f, R) \in Int
  BY <1>6, SumInt
<1>8. /\ SumFunctionOnSet(f, T) = f[SomeElement(T)] + SumFunctionOnSet(f, R)
      /\ SumFunctionOnSet(h, T) = h[SomeElement(T)] + SumFunctionOnSet(h, R)
  BY <1>3, <1>4, SumUnfolds
<1>9. f[SomeElement(T)] \in Int /\ h[SomeElement(T)] = k * f[SomeElement(T)]
  BY <1>5
<1>10. SumFunctionOnSet(h, T) # k * SumFunctionOnSet(f, T)
  OBVIOUS
<1> HIDE DEF R, B
<1>11. \A a, b \in Int : k * (a + b) = k * a + k * b
  OBVIOUS
<1> QED BY <1>6, <1>7, <1>8, <1>9, <1>10, <1>11

\* Rows and columns: a table may be summed either way.
Column(f, U, b) == [u \in U |-> f[u][b]]

LEMMA SumSwap ==
    ASSUME NEW U, IsFiniteSet(U), NEW S, IsFiniteSet(S), NEW f,
           \A u \in U : \A b \in S : f[u][b] \in Int,
           NEW rows, \A u \in U : rows[u] = SumFunctionOnSet(f[u], S),
           NEW columns, \A b \in S : columns[b] = SumFunctionOnSet(Column(f, U, b), U)
    PROVE  SumFunctionOnSet(rows, U) = SumFunctionOnSet(columns, S)
<1> DEFINE Cols(T) == [b \in S |-> SumFunctionOnSet(Column(f, U, b), T)]
           B == {T \in SUBSET U : SumFunctionOnSet(rows, T) # SumFunctionOnSet(Cols(T), S)}
<1>0. B = {}
  <2>1. SUFFICES ASSUME B # {} PROVE FALSE
    OBVIOUS
  <2>2. PICK T \in B : \A y \in B : y \subseteq T => y = T
    <3>1. B \in SUBSET (SUBSET U)
      OBVIOUS
    <3> HIDE DEF B
    <3> QED BY <2>1, <3>1, LeastSubset
  <2>3. IsFiniteSet(T) /\ T \subseteq U
    BY FS_Subset
  <2>4. T # {}
    <3>1. \A b \in S : Cols({})[b] = 0
      BY SumEmpty
    <3>2. SumFunctionOnSet(Cols({}), S) = 0
      BY <3>1, SumZero
    <3>3. SumFunctionOnSet(rows, {}) = 0
      BY SumEmpty
    <3> QED BY <3>2, <3>3
  <2> DEFINE x == SomeElement(T)
             R == T \ {x}
  <2>5. x \in T /\ x \in U
    BY <2>3, <2>4, SomeElementInSet
  <2>6. SumFunctionOnSet(rows, R) = SumFunctionOnSet(Cols(R), S) /\ IsFiniteSet(R) /\ R \subseteq U
    <3>1. R \in SUBSET U /\ R \subseteq T /\ R # T /\ R \in SUBSET T
      BY <2>3, <2>5
    <3>2. IsFiniteSet(R)
      BY <2>3, <3>1, FS_Subset
    <3>3. R \notin B
      BY <2>2, <3>1
    <3> HIDE DEF R
    <3>4. SumFunctionOnSet(rows, R) = SumFunctionOnSet(Cols(R), S)
      BY <3>1, <3>3, Zenon
    <3> QED
      BY <3>1, <3>2, <3>4
  <2>7. SumFunctionOnSet(rows, T) = rows[x] + SumFunctionOnSet(rows, R)
    BY <2>3, <2>4, SumUnfolds
  <2>8. rows[x] = SumFunctionOnSet(f[x], S)
    BY <2>5
  <2>9. ASSUME NEW b \in S
        PROVE  Cols(T)[b] = f[x][b] + Cols(R)[b] /\ Cols(R)[b] \in Int
    <3> DEFINE c == Column(f, U, b)
    <3>1. SumFunctionOnSet(c, T) = c[x] + SumFunctionOnSet(c, R)
      BY <2>3, <2>4, SumUnfolds
    <3>2. c[x] = f[x][b]
      BY <2>5 DEF Column
    <3>3. SumFunctionOnSet(c, R) \in Int
      <4>1. \A u \in R : c[u] \in Int
        BY <2>6 DEF Column
      <4> QED BY <2>6, <4>1, SumInt
    <3> QED BY <3>1, <3>2, <3>3
  <2>10. SumFunctionOnSet(Cols(T), S) = SumFunctionOnSet(f[x], S) + SumFunctionOnSet(Cols(R), S)
    <3> DEFINE g == Cols(R)
               h == Cols(T)
               row == f[x]
    <3>1. /\ \A b \in S : row[b] \in Int
          /\ \A b \in S : g[b] \in Int
          /\ \A b \in S : h[b] = row[b] + g[b]
      BY <2>5, <2>9
    <3> HIDE DEF g, h, row
    <3>2. SumFunctionOnSet(h, S) = SumFunctionOnSet(row, S) + SumFunctionOnSet(g, S)
      BY <3>1, SumPlus
    <3> QED BY <3>2 DEF g, h, row
  <2>11. SumFunctionOnSet(rows, T) # SumFunctionOnSet(Cols(T), S)
    OBVIOUS
  <2> HIDE DEF Cols, B, x, R
  <2> QED BY <2>6, <2>7, <2>8, <2>10, <2>11
<1>1. SumFunctionOnSet(rows, U) = SumFunctionOnSet(Cols(U), S)
  BY <1>0
<1>2. \A b \in S : Cols(U)[b] = columns[b]
  OBVIOUS
<1> HIDE DEF Cols
<1>3. SumFunctionOnSet(Cols(U), S) = SumFunctionOnSet(columns, S)
  BY <1>2, SumSame
<1> QED BY <1>1, <1>3

\* A sum of equal values.
LEMMA SumConstant ==
    ASSUME NEW f, NEW S, IsFiniteSet(S), NEW k \in Int, \A s \in S : f[s] = k
    PROVE  SumFunctionOnSet(f, S) = k * Cardinality(S)
<1> DEFINE B == {T \in SUBSET S : SumFunctionOnSet(f, T) # k * Cardinality(T)}
<1>1. SUFFICES ASSUME B # {} PROVE FALSE
  OBVIOUS
<1>2. PICK T \in B : \A y \in B : y \subseteq T => y = T
  <2>1. B \in SUBSET (SUBSET S)
    OBVIOUS
  <2> HIDE DEF B
  <2> QED BY <1>1, <2>1, LeastSubset
<1>3. IsFiniteSet(T)
  BY FS_Subset
<1>4. T # {}
  <2>1. SumFunctionOnSet(f, {}) = 0 /\ Cardinality({}) = 0
    BY SumEmpty, FS_EmptySet
  <2>2. 0 = k * 0
    OBVIOUS
  <2> QED BY <2>1, <2>2
<1>5. PICK x \in T : TRUE
  BY <1>4
<1> DEFINE R == T \ {x}
<1>6. SumFunctionOnSet(f, R) = k * Cardinality(R)
  BY <1>2, <1>5
<1>7. Cardinality(R) = Cardinality(T) - 1 /\ Cardinality(T) \in Nat
  BY <1>3, FS_RemoveElement, FS_CardinalityType
<1>8. SumFunctionOnSet(f, T) = k + SumFunctionOnSet(f, R)
  BY <1>3, SumSplit
<1>9. SumFunctionOnSet(f, T) # k * Cardinality(T)
  OBVIOUS
<1> HIDE DEF R, B
<1>10. \A n \in Nat : k + k * (n - 1) = k * n
  OBVIOUS
<1> QED BY <1>6, <1>7, <1>8, <1>9, <1>10

\* The values with a given key, when the value depends on the key only.
LEMMA KeySumCounts ==
    ASSUME NEW P, IsFiniteSet(P), NEW p, NEW h, NEW f, \A i \in P : f[i] = h[p[i]],
           NEW w, h[w] \in Int
    PROVE  KeySum(f, p, P, w) = h[w] * Cardinality({i \in P : p[i] = w})
<1> DEFINE T == {i \in P : p[i] = w}
           c == [i \in T |-> h[w]]
           g == WithKey(f, p, P, w)
<1>1. T \in SUBSET P /\ IsFiniteSet(T)
  BY FS_Subset
<1>2. /\ \A i \in T : c[i] = h[w]
      /\ \A i \in T : c[i] \in Int
      /\ \A i \in T : g[i] = c[i]
      /\ \A i \in P \ T : g[i] = 0
  BY DEF WithKey
<1> HIDE DEF T, c, g
<1>3. SumFunctionOnSet(c, T) = h[w] * Cardinality(T)
  BY <1>1, <1>2, SumConstant
<1>4. SumFunctionOnSet(c, T) = SumFunctionOnSet(g, P)
  BY <1>1, <1>2, SumOnSubset
<1> QED
  BY <1>3, <1>4 DEF KeySum, T, g

\* How often w occurs in p, and the same lemma in these words.
Occurrences(P, p, w) == Cardinality({i \in P : p[i] = w})

LEMMA KeySumOccurrences ==
    ASSUME NEW P, IsFiniteSet(P), NEW p, NEW h, NEW f, \A i \in P : f[i] = h[p[i]],
           NEW w, h[w] \in Int
    PROVE  KeySum(f, p, P, w) = h[w] * Occurrences(P, p, w)
BY KeySumCounts DEF Occurrences

\* The image of a finite set.
LEMMA FiniteImage ==
    ASSUME NEW P, IsFiniteSet(P), NEW p
    PROVE  IsFiniteSet({p[i] : i \in P})
<1> DEFINE T == {p[i] : i \in P}
           f == [i \in P |-> p[i]]
<1>1. f \in Surjection(P, T)
  BY DEF Surjection
<1> QED
  BY <1>1, FS_Surjection

\* A sum is the sum over the keys.
LEMMA SumOverKeys ==
    ASSUME NEW P, IsFiniteSet(P), NEW p, NEW f, \A i \in P : f[i] \in Int,
           NEW S, IsFiniteSet(S), \A i \in P : p[i] \in S
    PROVE  SumFunctionOnSet(f, P) = SumFunctionOnSet([w \in S |-> KeySum(f, p, P, w)], S)
<1> DEFINE g == [w \in S |-> KeySum(f, p, P, w)]
           h == WithKeys(f, p, P, S)
<1>1. \A w \in S : g[w] = KeySum(f, p, P, w)
  OBVIOUS
<1>2. \A i \in P : h[i] = f[i]
  BY DEF WithKeys
<1> HIDE DEF g, h
<1>3. SumFunctionOnSet(g, S) = KeysSum(f, p, P, S)
  BY <1>1, SumOfGroups
<1>4. SumFunctionOnSet(h, P) = SumFunctionOnSet(f, P)
  BY <1>2, SumSame
<1> QED
  BY <1>3, <1>4 DEF KeysSum, g, h

\* f gives the list p, indexed by P, the weights h; p and q have each weighty
\* value equally often.
Weighs(f, P, p, h) == \A i \in P : f[i] = h[p[i]] /\ h[p[i]] \in Int
AsOften(P, p, Q, q, h) ==
    \A w : h[w] # 0 => Cardinality({i \in P : p[i] = w}) = Cardinality({j \in Q : q[j] = w})

\* Then the two lists weigh the same.
LEMMA SumByCounts ==
    ASSUME NEW P, NEW Q, IsFiniteSet(P), IsFiniteSet(Q), NEW p, NEW q, NEW h, NEW f, NEW g,
           Weighs(f, P, p, h), Weighs(g, Q, q, h), AsOften(P, p, Q, q, h)
    PROVE  SumFunctionOnSet(f, P) = SumFunctionOnSet(g, Q)
<1> DEFINE S == {p[i] : i \in P} \cup {q[j] : j \in Q}
           a == [w \in S |-> KeySum(f, p, P, w)]
           b == [w \in S |-> KeySum(g, q, Q, w)]
<1>1. IsFiniteSet(S)
  <2>1. IsFiniteSet({p[i] : i \in P}) /\ IsFiniteSet({q[j] : j \in Q})
    BY FiniteImage, Zenon
  <2> QED
    BY <2>1, FS_Union, Zenon
<1>2. /\ \A i \in P : p[i] \in S
      /\ \A j \in Q : q[j] \in S
      /\ \A w \in S : h[w] \in Int
      /\ \A i \in P : f[i] \in Int
      /\ \A j \in Q : g[j] \in Int
      /\ \A i \in P : f[i] = h[p[i]]
      /\ \A j \in Q : g[j] = h[q[j]]
  BY DEF Weighs
<1> HIDE DEF S
<1>3. ASSUME NEW w \in S PROVE a[w] = b[w]
  <2>1. a[w] = KeySum(f, p, P, w) /\ b[w] = KeySum(g, q, Q, w)
    OBVIOUS
  <2>2. h[w] \in Int
    BY <1>2
  <2>3. KeySum(f, p, P, w) = h[w] * Cardinality({i \in P : p[i] = w})
    <3>1. \A i \in P : f[i] = h[p[i]]
      BY <1>2, Zenon
    <3>2. KeySum(f, p, P, w) = h[w] * Occurrences(P, p, w)
      BY <2>2, <3>1, KeySumOccurrences, Zenon
    <3> QED
      BY <3>2, Zenon DEF Occurrences
  <2>4. KeySum(g, q, Q, w) = h[w] * Cardinality({j \in Q : q[j] = w})
    <3>1. \A j \in Q : g[j] = h[q[j]]
      BY <1>2, Zenon
    <3>2. KeySum(g, q, Q, w) = h[w] * Occurrences(Q, q, w)
      BY <2>2, <3>1, KeySumOccurrences, Zenon
    <3> QED
      BY <3>2, Zenon DEF Occurrences
  <2>5. CASE h[w] # 0
    <3>1. Cardinality({i \in P : p[i] = w}) = Cardinality({j \in Q : q[j] = w})
      BY <2>5 DEF AsOften
    <3> QED
      BY <2>1, <2>3, <2>4, <3>1
  <2>6. CASE h[w] = 0
    <3>1. /\ Cardinality({i \in P : p[i] = w}) \in Nat
          /\ Cardinality({j \in Q : q[j] = w}) \in Nat
      BY FS_Subset, FS_CardinalityType
    <3> QED
      BY <2>1, <2>3, <2>4, <2>6, <3>1
  <2> QED
    BY <2>5, <2>6
<1>4. /\ SumFunctionOnSet(f, P) = SumFunctionOnSet(a, S)
      /\ SumFunctionOnSet(g, Q) = SumFunctionOnSet(b, S)
  BY <1>1, <1>2, SumOverKeys
<1> HIDE DEF a, b
<1> QED
  BY <1>1, <1>3, <1>4, SumSame

LEMMA OftenEverywhere ==
    ASSUME NEW P, NEW p, NEW Q, NEW q, NEW h,
           \A w : Cardinality({i \in P : p[i] = w}) = Cardinality({j \in Q : q[j] = w})
    PROVE  AsOften(P, p, Q, q, h)
BY DEF AsOften

\* The order in which a sum lists its values does not matter.
LEMMA SumReindex ==
    ASSUME NEW K, NEW B, IsFiniteSet(K), IsFiniteSet(B), NEW r, NEW f, NEW g,
           \A k \in K : r[k] \in B /\ f[k] = g[r[k]],
           \A j, k \in K : r[j] = r[k] => j = k,
           \A b \in B : g[b] \in Int /\ \E k \in K : r[k] = b
    PROVE  SumFunctionOnSet(f, K) = SumFunctionOnSet(g, B)
<1> DEFINE id == [b \in B |-> b]
<1>1. ASSUME NEW w PROVE Cardinality({i \in K : r[i] = w}) = Cardinality({j \in B : id[j] = w})
  <2>1. CASE w \in B
    <3>1. PICK k \in K : r[k] = w
      BY <2>1
    <3>2. {i \in K : r[i] = w} = {k} /\ {j \in B : id[j] = w} = {w}
      BY <2>1, <3>1
    <3> QED
      BY <3>2, FS_Singleton
  <2>2. CASE w \notin B
    <3>1. {i \in K : r[i] = w} = {} /\ {j \in B : id[j] = w} = {}
      BY <2>2
    <3> QED
      BY <3>1
  <2> QED
    BY <2>1, <2>2
<1>2. /\ \A k \in K : f[k] = g[r[k]] /\ g[r[k]] \in Int
      /\ \A b \in B : g[b] = g[id[b]] /\ g[id[b]] \in Int
  OBVIOUS
<1> HIDE DEF id
<1>3. Weighs(f, K, r, g) /\ Weighs(g, B, id, g)
  BY <1>2 DEF Weighs
<1>4. AsOften(K, r, B, id, g)
  BY <1>1, OftenEverywhere, Zenon
<1> QED
  BY <1>3, <1>4, SumByCounts

\* q has each weighty value at least as often as p.
NoMoreOften(P, p, Q, q, h) ==
    \A w : h[w] # 0 => Cardinality({i \in P : p[i] = w}) <= Cardinality({j \in Q : q[j] = w})

\* Then q weighs at least as much.
LEMMA SumByMoreCounts ==
    ASSUME NEW P, NEW Q, IsFiniteSet(P), IsFiniteSet(Q), NEW p, NEW q, NEW h, NEW f, NEW g,
           Weighs(f, P, p, h), Weighs(g, Q, q, h), NoMoreOften(P, p, Q, q, h),
           \A i \in P : h[p[i]] \in Nat, \A j \in Q : h[q[j]] \in Nat
    PROVE  SumFunctionOnSet(f, P) <= SumFunctionOnSet(g, Q)
<1> DEFINE S == {p[i] : i \in P} \cup {q[j] : j \in Q}
           a == [w \in S |-> KeySum(f, p, P, w)]
           b == [w \in S |-> KeySum(g, q, Q, w)]
<1>1. IsFiniteSet(S)
  <2>1. IsFiniteSet({p[i] : i \in P}) /\ IsFiniteSet({q[j] : j \in Q})
    BY FiniteImage, Zenon
  <2> QED
    BY <2>1, FS_Union, Zenon
<1>2. /\ \A i \in P : p[i] \in S
      /\ \A j \in Q : q[j] \in S
      /\ \A w \in S : h[w] \in Nat
      /\ \A i \in P : f[i] \in Int
      /\ \A j \in Q : g[j] \in Int
      /\ \A i \in P : f[i] = h[p[i]]
      /\ \A j \in Q : g[j] = h[q[j]]
  BY DEF Weighs
<1> HIDE DEF S
<1>3. ASSUME NEW w \in S PROVE a[w] \in Int /\ b[w] \in Int /\ a[w] <= b[w]
  <2>1. a[w] = KeySum(f, p, P, w) /\ b[w] = KeySum(g, q, Q, w)
    OBVIOUS
  <2>2. h[w] \in Nat /\ h[w] \in Int
    BY <1>2
  <2>3. KeySum(f, p, P, w) = h[w] * Cardinality({i \in P : p[i] = w})
    <3>1. \A i \in P : f[i] = h[p[i]]
      BY <1>2, Zenon
    <3>2. KeySum(f, p, P, w) = h[w] * Occurrences(P, p, w)
      BY <2>2, <3>1, KeySumOccurrences, Zenon
    <3> QED
      BY <3>2, Zenon DEF Occurrences
  <2>4. KeySum(g, q, Q, w) = h[w] * Cardinality({j \in Q : q[j] = w})
    <3>1. \A j \in Q : g[j] = h[q[j]]
      BY <1>2, Zenon
    <3>2. KeySum(g, q, Q, w) = h[w] * Occurrences(Q, q, w)
      BY <2>2, <3>1, KeySumOccurrences, Zenon
    <3> QED
      BY <3>2, Zenon DEF Occurrences
  <2> DEFINE k == h[w]
             m == Cardinality({i \in P : p[i] = w})
             n == Cardinality({j \in Q : q[j] = w})
  <2>5. m \in Nat /\ n \in Nat
    BY FS_Subset, FS_CardinalityType
  <2>6. k = 0 \/ m <= n
    BY DEF NoMoreOften
  <2>7. k \in Nat /\ a[w] = k * m /\ b[w] = k * n
    BY <2>1, <2>2, <2>3, <2>4
  <2> HIDE DEF a, b, m, n, k
  <2>8. k * m \in Nat /\ k * n \in Nat /\ k * m <= k * n
    <3>1. CASE k = 0
      BY <2>5, <3>1
    <3>2. CASE m <= n
      <4>1. m * k <= n * k
        BY <2>5, <2>7, <3>2, MulMono
      <4> QED
        BY <2>5, <2>7, <4>1, MulNat
    <3> QED
      BY <2>6, <3>1, <3>2
  <2> QED
    BY <2>7, <2>8
<1>4. /\ SumFunctionOnSet(f, P) = SumFunctionOnSet(a, S)
      /\ SumFunctionOnSet(g, Q) = SumFunctionOnSet(b, S)
  BY <1>1, <1>2, SumOverKeys
<1> HIDE DEF a, b
<1>5. /\ \A w \in S : a[w] \in Int
      /\ \A w \in S : b[w] \in Int
      /\ \A w \in S : a[w] <= b[w]
  BY <1>3
<1> QED
  BY <1>1, <1>4, <1>5, SumBelow

-----------------------------------------------------------------------------
(* Natural numbers: least elements and powers.                             *)

\* A non-empty set of natural numbers has a least element.
LEMMA LeastNatural ==
    ASSUME NEW S \in SUBSET Nat, S # {}
    PROVE  \E k \in S : \A l \in S : k <= l
<1> DEFINE R == {ss \in Nat \X Nat : ss[1] < ss[2]}
<1>1. IsWellFoundedOn(R, Nat)
  BY NatLessThanWellFounded, Zenon DEF OpToRel
<1>2. \E k \in S : \A l \in S : ~ (<<l, k>> \in R)
  <2> HIDE DEF R
  <2> QED
    BY <1>1, WFMin
<1>3. ASSUME NEW k \in S, NEW l \in S, <<l, k>> \notin R PROVE k <= l
  <2>1. <<l, k>> \in Nat \X Nat /\ <<l, k>>[1] = l /\ <<l, k>>[2] = k
    OBVIOUS
  <2>2. ~ (<<l, k>>[1] < <<l, k>>[2])
    BY <1>3, <2>1, Zenon
  <2> QED
    BY <2>1, <2>2
<1> QED
  BY <1>2, <1>3

\* A bounded one has a greatest.
LEMMA GreatestNatural ==
    ASSUME NEW n \in Nat, NEW S \in SUBSET (0..n), S # {}
    PROVE  \E k \in S : \A l \in S : k >= l
<1> DEFINE D == {n - l : l \in S}
<1>1. D \in SUBSET Nat /\ D # {}
  <2>1. \A l \in S : n - l \in Nat
    OBVIOUS
  <2> QED
    BY <2>1
<1>2. PICK d \in D : \A e \in D : d <= e
  <2> HIDE DEF D
  <2> QED
    BY <1>1, LeastNatural
<1>3. PICK k \in S : d = n - k
  OBVIOUS
<1>4. ASSUME NEW l \in S PROVE k >= l
  <2>1. d <= n - l
    BY <1>2
  <2> QED
    BY <1>3, <2>1
<1> QED
  BY <1>4

\* g is the table of the powers of b up to k.
PowersUpTo(g, b, k) ==
    /\ g[0] = 1
    /\ \A n \in 1..k : g[n] = b * g[n - 1]

\* There is such a table for every k.
LEMMA PowersUpToExist ==
    ASSUME NEW b \in Nat, NEW k \in Nat
    PROVE  \E g \in [Nat -> Nat] : PowersUpTo(g, b, k)
<1> DEFINE Missing == {n \in Nat : ~ \E g \in [Nat -> Nat] : PowersUpTo(g, b, n)}
<1>1. SUFFICES ASSUME Missing # {} PROVE FALSE
  OBVIOUS
<1>2. PICK n \in Missing : \A l \in Missing : n <= l
  <2>1. Missing \in SUBSET Nat
    OBVIOUS
  <2> HIDE DEF Missing
  <2> QED
    BY <1>1, <2>1, LeastNatural
<1>3. n # 0
  <2>1. [i \in Nat |-> 1] \in [Nat -> Nat] /\ PowersUpTo([i \in Nat |-> 1], b, 0)
    BY DEF PowersUpTo
  <2> QED
    BY <2>1
<1>4. n - 1 \in Nat /\ n - 1 \notin Missing
  BY <1>2, <1>3
<1>5. PICK g \in [Nat -> Nat] : PowersUpTo(g, b, n - 1)
  BY <1>4
<1> DEFINE h == [g EXCEPT ![n] = b * g[n - 1]]
<1>6. h \in [Nat -> Nat]
  <2>1. g[n - 1] \in Nat
    BY <1>4
  <2>2. b * g[n - 1] \in Nat
    BY <2>1, MulNat
  <2> QED
    BY <2>2
<1>7. PowersUpTo(h, b, n)
  <2>1. h[0] = 1
    BY <1>3, <1>5 DEF PowersUpTo
  <2>2. ASSUME NEW i \in 1..n PROVE h[i] = b * h[i - 1]
    <3>1. CASE i = n
      <4>1. h[n] = b * g[n - 1] /\ h[n - 1] = g[n - 1]
        BY <1>4
      <4> QED
        BY <3>1, <4>1
    <3>2. CASE i # n
      <4>1. i \in 1..(n - 1) /\ i \in Nat /\ i - 1 \in Nat /\ i - 1 # n
        BY <3>2
      <4>2. h[i] = g[i] /\ h[i - 1] = g[i - 1]
        BY <3>2, <4>1
      <4>3. g[i] = b * g[i - 1]
        BY <1>5, <4>1 DEF PowersUpTo
      <4> QED
        BY <4>2, <4>3
    <3> QED
      BY <3>1, <3>2
  <2> HIDE DEF h
  <2> QED
    BY <2>1, <2>2 DEF PowersUpTo
<1> QED
  BY <1>2, <1>6, <1>7

\* Two of them agree as far as both go.
LEMMA PowersAgree ==
    ASSUME NEW b \in Nat, NEW k \in Nat, NEW g, NEW h,
           PowersUpTo(g, b, k), PowersUpTo(h, b, k)
    PROVE  \A n \in 0..k : g[n] = h[n]
<1> DEFINE Differ == {n \in 0..k : g[n] # h[n]}
<1>1. SUFFICES ASSUME Differ # {} PROVE FALSE
  OBVIOUS
<1>2. PICK n \in Differ : \A l \in Differ : n <= l
  <2>1. Differ \in SUBSET Nat
    OBVIOUS
  <2> HIDE DEF Differ
  <2> QED
    BY <1>1, <2>1, LeastNatural
<1>3. n # 0
  BY DEF PowersUpTo
<1>4. n - 1 \in 0..k /\ n \in 1..k /\ n - 1 \notin Differ
  BY <1>2, <1>3
<1>5. g[n - 1] = h[n - 1]
  BY <1>4
<1>6. g[n] = b * g[n - 1] /\ h[n] = b * h[n - 1]
  BY <1>4 DEF PowersUpTo
<1> QED
  BY <1>5, <1>6

\* The recursion that defines the powers of b has a solution, in Nat.
LEMMA PowersExist ==
    ASSUME NEW b \in Nat
    PROVE  \E f \in [Nat -> Nat] :
             f = [n \in Nat |-> IF n = 0 THEN 1 ELSE b * f[n - 1]]
<1> DEFINE T(k) == CHOOSE g \in [Nat -> Nat] : PowersUpTo(g, b, k)
           f    == [n \in Nat |-> T(n)[n]]
<1>1. \A k \in Nat : T(k) \in [Nat -> Nat] /\ PowersUpTo(T(k), b, k)
  BY PowersUpToExist
<1> HIDE DEF T
<1>2. f \in [Nat -> Nat]
  BY <1>1
<1>3. ASSUME NEW n \in Nat PROVE f[n] = IF n = 0 THEN 1 ELSE b * f[n - 1]
  <2>1. CASE n = 0
    BY <1>1, <2>1 DEF PowersUpTo
  <2>2. CASE n # 0
    <3>1. n - 1 \in Nat /\ n \in 1..n /\ n - 1 \in 0..(n - 1)
      BY <2>2
    <3>2. PowersUpTo(T(n), b, n) /\ PowersUpTo(T(n - 1), b, n - 1)
      BY <1>1, <3>1
    <3>3. PowersUpTo(T(n), b, n - 1)
      BY <3>2, <3>1 DEF PowersUpTo
    <3>4. T(n)[n - 1] = T(n - 1)[n - 1]
      <4> DEFINE g == T(n)
                 h == T(n - 1)
                 k == n - 1
      <4>1. k \in Nat /\ k \in 0..k /\ PowersUpTo(g, b, k) /\ PowersUpTo(h, b, k)
        BY <3>1, <3>2, <3>3
      <4> HIDE DEF g, h, k
      <4>2. g[k] = h[k]
        BY <4>1, PowersAgree
      <4> QED
        BY <4>2 DEF g, h, k
    <3>5. T(n)[n] = b * T(n)[n - 1]
      BY <3>1, <3>2 DEF PowersUpTo
    <3>6. f[n] = T(n)[n] /\ f[n - 1] = T(n - 1)[n - 1]
      BY <3>1
    <3> HIDE DEF f
    <3> QED
      BY <2>2, <3>4, <3>5, <3>6
  <2> QED
    BY <2>1, <2>2
<1>4. f = [n \in Nat |-> f[n]]
  OBVIOUS
<1> HIDE DEF f
<1>5. f = [n \in Nat |-> IF n = 0 THEN 1 ELSE b * f[n - 1]]
  BY <1>3, <1>4
<1> QED
  BY <1>2, <1>5

=============================================================================
