----------------------------- MODULE SumsProofs -----------------------------
(***************************************************************************)
(* What the proofs need to know of sums, orders, folds and sizes.  Total is *)
(* a fold over a set, hence a recursive function that takes the elements   *)
(* in an order of its own: that the function exists, that any element may  *)
(* be taken first and that only the values on the set count is proved by   *)
(* induction on the size of the set, in the form of the least number that  *)
(* is a counterexample.  Orders of finite sets, folds over sequences and   *)
(* the sizes of disjoint unions are treated likewise.                      *)
(***************************************************************************)
EXTENDS Sums, FiniteSetTheorems, WellFoundedInduction, TLAPS

\* A set of numbers that is not empty has a least one.
LEMMA LeastNatural ==
  ASSUME NEW S \in SUBSET Nat, S # {}
  PROVE  \E m \in S : \A n \in S : m <= n
<1>. DEFINE R == OpToRel(<, Nat)
<1>1. IsWellFoundedOn(R, Nat)  BY NatLessThanWellFounded
<1>2. \A m, n \in S : <<n, m>> \in R <=> n < m  BY DEF OpToRel
<1>. HIDE DEF R
<1>3. PICK m \in S : \A n \in S : ~(<<n, m>> \in R)  BY <1>1, WFMin
<1>4. \A n \in S : ~(n < m)  BY <1>2, <1>3
<1>. QED  BY <1>4

\* A set of numbers that holds 0 and with each number the next holds them all.
LEMMA Inductive ==
  ASSUME NEW P \in SUBSET Nat, 0 \in P, \A n \in P : n + 1 \in P
  PROVE  P = Nat
<1>1. SUFFICES ASSUME Nat \ P # {} PROVE FALSE  OBVIOUS
<1>2. PICK m \in Nat \ P : \A n \in Nat \ P : m <= n  BY <1>1, LeastNatural
<1>3. m - 1 \in Nat /\ m - 1 \in P  BY <1>2
<1>. QED  BY <1>2, <1>3

\* The quotient is the greatest number of times the divisor fits.
LEMMA Quotient ==
  ASSUME NEW a \in Nat, NEW b \in Nat \ {0}, NEW i \in Nat, i <= a \div b
  PROVE  i * b <= a
<1>. DEFINE q == a \div b
<1>1. q \in Nat /\ q * b <= a  OBVIOUS
<1>. HIDE DEF q
<1>2. i <= q  BY DEF q
<1>3. i * b <= q * b  BY <1>1, <1>2
<1>4. i * b \in Nat /\ q * b \in Nat  BY <1>1
<1>. QED  BY <1>1, <1>3, <1>4

\* A product of a positive number and a positive one is positive.
LEMMA Product ==
  ASSUME NEW a \in Int, NEW p \in Nat \ {0}
  PROVE  (a * p > 0 <=> a > 0) /\ (a * p >= 0 <=> a >= 0)
OBVIOUS

-----------------------------------------------------------------------------
\* the element that is taken first, and the recursion that Total is
First(s) == CHOOSE x \in s : TRUE
Sum(f, g, s) == IF s = {} THEN 0 ELSE f[First(s)] + g[s \ {First(s)}]
IsSum(f, S, g) == g = [s \in SUBSET S |-> Sum(f, g, s)]

LEMMA FirstIn == ASSUME NEW s, s # {} PROVE First(s) \in s
BY DEF First

LEMMA SumExists ==
  ASSUME NEW f, NEW S, IsFiniteSet(S)
  PROVE  \E g : IsSum(f, S, g)
<1>. DEFINE Upto(n, g) == \A s \in SUBSET S : Cardinality(s) <= n => g[s] = Sum(f, g, s)
            P == {n \in Nat : \E g : Upto(n, g)}
<1>0. \A s \in SUBSET S : IsFiniteSet(s) /\ Cardinality(s) \in Nat /\ (Cardinality(s) = 0 <=> s = {})
  BY FS_Subset, FS_CardinalityType, FS_EmptySet
<1>1. 0 \in P
  <2>. DEFINE g == [s \in SUBSET S |-> 0]
  <2>1. Upto(0, g)  BY <1>0 DEF Sum
  <2>. QED  BY <2>1
<1>2. ASSUME NEW n \in P PROVE n + 1 \in P
  <2>1. PICK g : Upto(n, g)  OBVIOUS
  <2>. DEFINE h == [s \in SUBSET S |-> Sum(f, g, s)]
  <2>2. ASSUME NEW s \in SUBSET S, Cardinality(s) <= n + 1 PROVE h[s] = Sum(f, h, s)
    <3>1. CASE s = {}  BY <3>1 DEF Sum
    <3>2. CASE s # {}
      <4>. DEFINE t == s \ {First(s)}
      <4>1. t \in SUBSET S /\ Cardinality(t) = Cardinality(s) - 1
        BY <1>0, <3>2, FirstIn, FS_RemoveElement
      <4>2. h[t] = g[t]  BY <1>0, <2>1, <2>2, <4>1
      <4>. QED  BY <3>2, <4>2 DEF Sum
    <3>. QED  BY <3>1, <3>2
  <2>3. Upto(n + 1, h)  BY <2>2
  <2>. HIDE DEF h
  <2>4. \E k : Upto(n + 1, k)  BY <2>3
  <2>. QED  BY <2>4
<1>3. Cardinality(S) \in P
  <2>. HIDE DEF P
  <2>1. P \in SUBSET Nat  BY DEF P
  <2>2. P = Nat  BY <1>1, <1>2, <2>1, Inductive
  <2>. QED  BY <2>2, FS_CardinalityType
<1>4. PICK g : Upto(Cardinality(S), g)  BY <1>3
<1>. DEFINE h == [s \in SUBSET S |-> g[s]]
<1>5. \A s \in SUBSET S : Cardinality(s) <= Cardinality(S)  BY FS_Subset
<1>6. ASSUME NEW s \in SUBSET S PROVE h[s] = Sum(f, h, s)
  <2>1. h[s] = Sum(f, g, s)  BY <1>4, <1>5
  <2>2. s \ {First(s)} \in SUBSET S  OBVIOUS
  <2>. QED  BY <2>1, <2>2 DEF Sum
<1>7. h = [s \in SUBSET S |-> Sum(f, h, s)]  BY <1>6
<1>. QED  BY <1>7 DEF IsSum

\* Two such sums agree where their functions do.
LEMMA SumUnique ==
  ASSUME NEW f, NEW g, NEW S, NEW T, IsFiniteSet(T), T \subseteq S, \A x \in T : f[x] = g[x],
         NEW p, IsSum(f, S, p), NEW q, IsSum(g, T, q)
  PROVE  p[T] = q[T]
<1>. DEFINE P == {n \in Nat : \A s \in SUBSET T : Cardinality(s) <= n => p[s] = q[s]}
<1>0. \A s \in SUBSET T : IsFiniteSet(s) /\ Cardinality(s) \in Nat /\ (Cardinality(s) = 0 <=> s = {})
  BY FS_Subset, FS_CardinalityType, FS_EmptySet
<1>1. \A s \in SUBSET T : p[s] = Sum(f, p, s) /\ q[s] = Sum(g, q, s)
  BY DEF IsSum
<1>2. 0 \in P  BY <1>0, <1>1 DEF Sum
<1>3. ASSUME NEW n \in P PROVE n + 1 \in P
  <2>1. SUFFICES ASSUME NEW s \in SUBSET T, Cardinality(s) <= n + 1, s # {} PROVE p[s] = q[s]
    BY <1>1 DEF Sum
  <2>. DEFINE t == s \ {First(s)}
  <2>2. t \in SUBSET T /\ Cardinality(t) = Cardinality(s) - 1 /\ First(s) \in T
    BY <1>0, <2>1, FirstIn, FS_RemoveElement
  <2>3. p[t] = q[t]  BY <1>0, <2>1, <2>2
  <2>. QED  BY <1>1, <2>1, <2>2, <2>3 DEF Sum
<1>. HIDE DEF P
<1>4. P = Nat
  <2>1. P \in SUBSET Nat  BY DEF P
  <2>. QED  BY <1>2, <1>3, <2>1, Inductive
<1>. QED  BY <1>0, <1>4 DEF P

-----------------------------------------------------------------------------
LEMMA TotalIs ==
  ASSUME NEW f, NEW S, IsFiniteSet(S)
  PROVE  \E g : IsSum(f, S, g) /\ Total(f, S) = g[S]
<1>. DEFINE g == CHOOSE g : IsSum(f, S, g)
<1>1. IsSum(f, S, g)  BY SumExists
<1>2. Total(f, S) = g[S]
  BY DEF Total, MapThenSumSet, MapThenFoldSet, IsSum, Sum, First
<1>. QED  BY <1>1, <1>2

\* Only the values on the set count.
LEMMA TotalSame ==
  ASSUME NEW f, NEW g, NEW S, IsFiniteSet(S), \A x \in S : f[x] = g[x]
  PROVE  Total(f, S) = Total(g, S)
<1>1. PICK p : IsSum(f, S, p) /\ Total(f, S) = p[S]  BY TotalIs
<1>2. PICK q : IsSum(g, S, q) /\ Total(g, S) = q[S]  BY TotalIs
<1>. QED  BY <1>1, <1>2, SumUnique

LEMMA TotalFirst ==
  ASSUME NEW f, NEW S, IsFiniteSet(S)
  PROVE  Total(f, S) = IF S = {} THEN 0 ELSE f[First(S)] + Total(f, S \ {First(S)})
<1>1. PICK p : IsSum(f, S, p) /\ Total(f, S) = p[S]  BY TotalIs
<1>2. p[S] = Sum(f, p, S)  BY <1>1 DEF IsSum
<1>3. CASE S = {}  BY <1>1, <1>2, <1>3 DEF Sum
<1>4. CASE S # {}
  <2>. DEFINE T == S \ {First(S)}
  <2>1. IsFiniteSet(T) /\ T \subseteq S  BY FS_Subset
  <2>2. PICK q : IsSum(f, T, q) /\ Total(f, T) = q[T]  BY <2>1, TotalIs
  <2>3. p[T] = q[T]  BY <1>1, <2>1, <2>2, SumUnique
  <2>. QED  BY <1>1, <1>2, <1>4, <2>2, <2>3 DEF Sum
<1>. QED  BY <1>3, <1>4

LEMMA TotalEmpty == ASSUME NEW f PROVE Total(f, {}) = 0
BY TotalFirst, FS_EmptySet

\* A sum of integers is an integer, and one of naturals a natural; any element
\* may be taken first.
LEMMA TotalInt ==
  ASSUME NEW f, NEW S, IsFiniteSet(S), \A x \in S : f[x] \in Int
  PROVE  Total(f, S) \in Int
<1>. DEFINE P == {n \in Nat : \A T \in SUBSET S : Cardinality(T) <= n => Total(f, T) \in Int}
<1>0. \A T \in SUBSET S : IsFiniteSet(T) /\ Cardinality(T) \in Nat /\ (Cardinality(T) = 0 <=> T = {})
  BY FS_Subset, FS_CardinalityType, FS_EmptySet
<1>1. 0 \in P  BY <1>0, TotalEmpty
<1>2. ASSUME NEW n \in P PROVE n + 1 \in P
  <2>1. SUFFICES ASSUME NEW T \in SUBSET S, Cardinality(T) <= n + 1, T # {} PROVE Total(f, T) \in Int
    BY TotalEmpty
  <2>. DEFINE U == T \ {First(T)}
  <2>2. First(T) \in T /\ U \in SUBSET S /\ Cardinality(U) = Cardinality(T) - 1
    BY <1>0, <2>1, FirstIn, FS_RemoveElement
  <2>3. Total(f, U) \in Int  BY <1>0, <2>1, <2>2
  <2>4. Total(f, T) = f[First(T)] + Total(f, U)  BY <1>0, <2>1, TotalFirst
  <2>. QED  BY <2>2, <2>3, <2>4
<1>. HIDE DEF P
<1>3. P = Nat
  <2>1. P \in SUBSET Nat  BY DEF P
  <2>. QED  BY <1>1, <1>2, <2>1, Inductive
<1>. QED  BY <1>0, <1>3 DEF P

LEMMA TotalRemove ==
  ASSUME NEW f, NEW S, IsFiniteSet(S), \A x \in S : f[x] \in Int, NEW e \in S
  PROVE  Total(f, S) = f[e] + Total(f, S \ {e})
<1>. DEFINE Holds(T) == \A x \in T : Total(f, T) = f[x] + Total(f, T \ {x})
            P == {n \in Nat : \A T \in SUBSET S : Cardinality(T) <= n => Holds(T)}
<1>0. \A T \in SUBSET S : IsFiniteSet(T) /\ Cardinality(T) \in Nat /\ (Cardinality(T) = 0 <=> T = {})
  BY FS_Subset, FS_CardinalityType, FS_EmptySet
<1>1. 0 \in P  BY <1>0
<1>2. ASSUME NEW n \in P PROVE n + 1 \in P
  <2>1. SUFFICES ASSUME NEW T \in SUBSET S, Cardinality(T) <= n + 1, NEW x \in T
                 PROVE  Total(f, T) = f[x] + Total(f, T \ {x})
    OBVIOUS
  <2>. DEFINE c == First(T)
  <2>2. c \in T /\ Total(f, T) = f[c] + Total(f, T \ {c})  BY <1>0, <2>1, FirstIn, TotalFirst
  <2>3. CASE x = c  BY <2>2, <2>3
  <2>4. CASE x # c
    <3>1. Holds(T \ {c})
      <4>1. T \ {c} \in SUBSET S /\ Cardinality(T \ {c}) = Cardinality(T) - 1  BY <1>0, <2>2, FS_RemoveElement
      <4>. QED  BY <1>0, <2>1, <4>1
    <3>2. Holds(T \ {x})
      <4>1. T \ {x} \in SUBSET S /\ Cardinality(T \ {x}) = Cardinality(T) - 1  BY <1>0, <2>1, FS_RemoveElement
      <4>. QED  BY <1>0, <2>1, <4>1
    <3>3. (T \ {c}) \ {x} = (T \ {x}) \ {c}  OBVIOUS
    <3>4. Total(f, T \ {c}) = f[x] + Total(f, (T \ {c}) \ {x})  BY <2>4, <3>1
    <3>5. Total(f, T \ {x}) = f[c] + Total(f, (T \ {c}) \ {x})  BY <2>2, <2>4, <3>2, <3>3
    <3>6. Total(f, (T \ {c}) \ {x}) \in Int
      <4>1. (T \ {c}) \ {x} \in SUBSET S  OBVIOUS
      <4>. QED  BY <1>0, <4>1, TotalInt
    <3>. QED  BY <2>2, <3>4, <3>5, <3>6
  <2>. QED  BY <2>3, <2>4
<1>. HIDE DEF P
<1>3. P = Nat
  <2>1. P \in SUBSET Nat  BY DEF P
  <2>. QED  BY <1>1, <1>2, <2>1, Inductive
<1>. QED  BY <1>0, <1>3 DEF P

\* One element more.
LEMMA TotalAdd ==
  ASSUME NEW f, NEW S, IsFiniteSet(S), NEW e, e \notin S, \A x \in S \cup {e} : f[x] \in Int
  PROVE  Total(f, S \cup {e}) = f[e] + Total(f, S)
<1>1. IsFiniteSet(S \cup {e}) /\ (S \cup {e}) \ {e} = S  BY FS_AddElement
<1>. QED  BY <1>1, TotalRemove

\* A sum is that of a part and that of the rest.
LEMMA TotalSplit ==
  ASSUME NEW f, NEW S, IsFiniteSet(S), \A x \in S : f[x] \in Int, NEW R \in SUBSET S
  PROVE  Total(f, S) = Total(f, R) + Total(f, S \ R)
<1>. DEFINE Holds(T) == Total(f, S) = Total(f, T) + Total(f, S \ T)
            P == {n \in Nat : \A T \in SUBSET S : Cardinality(T) <= n => Holds(T)}
<1>0. \A T \in SUBSET S : /\ IsFiniteSet(T) /\ Cardinality(T) \in Nat /\ (Cardinality(T) = 0 <=> T = {})
                          /\ Total(f, T) \in Int
  BY FS_Subset, FS_CardinalityType, FS_EmptySet, TotalInt
<1>1. Holds({})
  <2>1. S \ {} = S  OBVIOUS
  <2>. QED  BY <1>0, <2>1, TotalEmpty
<1>2. 0 \in P
  <2>1. SUFFICES ASSUME NEW T \in SUBSET S, Cardinality(T) <= 0 PROVE Holds(T)  OBVIOUS
  <2>2. T = {}  BY <1>0, <2>1
  <2>. QED  BY <1>1, <2>2
<1>3. ASSUME NEW n \in P PROVE n + 1 \in P
  <2>1. SUFFICES ASSUME NEW T \in SUBSET S, Cardinality(T) <= n + 1, T # {} PROVE Holds(T)
    BY <1>1
  <2>2. PICK e : e \in T  BY <2>1
  <2>. DEFINE U == T \ {e}
  <2>3. U \in SUBSET S /\ Cardinality(U) = Cardinality(T) - 1  BY <1>0, <2>1, <2>2, FS_RemoveElement
  <2>4. Holds(U)  BY <1>0, <2>1, <2>3
  <2>5. Total(f, T) = f[e] + Total(f, U)  BY <1>0, <2>1, <2>2, TotalRemove
  <2>6. Total(f, S \ U) = f[e] + Total(f, S \ T)
    <3>1. S \ U \in SUBSET S /\ e \in S \ U /\ (S \ U) \ {e} = S \ T  BY <2>1, <2>2
    <3>. QED  BY <1>0, <3>1, TotalRemove
  <2>7. f[e] \in Int /\ Total(f, U) \in Int /\ Total(f, S \ T) \in Int
    <3>1. S \ T \in SUBSET S  OBVIOUS
    <3>. QED  BY <1>0, <2>2, <2>3, <3>1
  <2>. QED  BY <2>4, <2>5, <2>6, <2>7
<1>. HIDE DEF P
<1>4. P = Nat
  <2>1. P \in SUBSET Nat  BY DEF P
  <2>. QED  BY <1>2, <1>3, <2>1, Inductive
<1>. QED  BY <1>0, <1>4 DEF P

\* A sum is at most two others when each of its terms is.
LEMMA TotalAtMost ==
  ASSUME NEW f, NEW g, NEW h, NEW S, IsFiniteSet(S),
         \A x \in S : f[x] \in Int /\ g[x] \in Int /\ h[x] \in Int /\ f[x] <= g[x] + h[x]
  PROVE  Total(f, S) <= Total(g, S) + Total(h, S)
<1>. DEFINE Holds(T) == Total(f, T) <= Total(g, T) + Total(h, T)
            P == {n \in Nat : \A T \in SUBSET S : Cardinality(T) <= n => Holds(T)}
<1>0. \A T \in SUBSET S : /\ IsFiniteSet(T) /\ Cardinality(T) \in Nat /\ (Cardinality(T) = 0 <=> T = {})
                          /\ Total(f, T) \in Int /\ Total(g, T) \in Int /\ Total(h, T) \in Int
  BY FS_Subset, FS_CardinalityType, FS_EmptySet, TotalInt
<1>1. Holds({})  BY TotalEmpty
<1>2. 0 \in P
  <2>1. SUFFICES ASSUME NEW T \in SUBSET S, Cardinality(T) <= 0 PROVE Holds(T)  OBVIOUS
  <2>2. T = {}  BY <1>0, <2>1
  <2>. QED  BY <1>1, <2>2
<1>3. ASSUME NEW n \in P PROVE n + 1 \in P
  <2>1. SUFFICES ASSUME NEW T \in SUBSET S, Cardinality(T) <= n + 1, T # {} PROVE Holds(T)
    BY <1>1
  <2>2. PICK e : e \in T  BY <2>1
  <2>. DEFINE U == T \ {e}
  <2>3. U \in SUBSET S /\ Cardinality(U) = Cardinality(T) - 1  BY <1>0, <2>1, <2>2, FS_RemoveElement
  <2>4. Holds(U)  BY <1>0, <2>1, <2>3
  <2>5. Total(f, T) = f[e] + Total(f, U) /\ Total(g, T) = g[e] + Total(g, U) /\ Total(h, T) = h[e] + Total(h, U)
    BY <1>0, <2>1, <2>2, TotalRemove
  <2>6. /\ f[e] \in Int /\ g[e] \in Int /\ h[e] \in Int /\ f[e] <= g[e] + h[e]
        /\ Total(f, U) \in Int /\ Total(g, U) \in Int /\ Total(h, U) \in Int
    BY <1>0, <2>2, <2>3
  <2>. QED  BY <2>4, <2>5, <2>6
<1>. HIDE DEF P
<1>4. P = Nat
  <2>1. P \in SUBSET Nat  BY DEF P
  <2>. QED  BY <1>2, <1>3, <2>1, Inductive
<1>. QED  BY <1>0, <1>4 DEF P

LEMMA TotalNat ==
  ASSUME NEW f, NEW S, IsFiniteSet(S), \A x \in S : f[x] \in Nat
  PROVE  Total(f, S) \in Nat
<1>. DEFINE P == {n \in Nat : \A T \in SUBSET S : Cardinality(T) <= n => Total(f, T) >= 0}
<1>0. \A T \in SUBSET S : /\ IsFiniteSet(T) /\ Cardinality(T) \in Nat /\ (Cardinality(T) = 0 <=> T = {})
                          /\ Total(f, T) \in Int
  BY FS_Subset, FS_CardinalityType, FS_EmptySet, TotalInt
<1>1. 0 \in P  BY <1>0, TotalEmpty
<1>2. ASSUME NEW n \in P PROVE n + 1 \in P
  <2>1. SUFFICES ASSUME NEW T \in SUBSET S, Cardinality(T) <= n + 1, T # {} PROVE Total(f, T) >= 0
    BY TotalEmpty
  <2>2. PICK e : e \in T  BY <2>1
  <2>3. T \ {e} \in SUBSET S /\ Cardinality(T \ {e}) = Cardinality(T) - 1  BY <1>0, <2>1, <2>2, FS_RemoveElement
  <2>4. Total(f, T \ {e}) >= 0 /\ Total(f, T \ {e}) \in Int  BY <1>0, <2>1, <2>3
  <2>5. Total(f, T) = f[e] + Total(f, T \ {e})  BY <1>0, <2>1, <2>2, TotalRemove
  <2>6. f[e] \in Nat  BY <2>2
  <2>. QED  BY <2>4, <2>5, <2>6
<1>. HIDE DEF P
<1>3. P = Nat
  <2>1. P \in SUBSET Nat  BY DEF P
  <2>. QED  BY <1>1, <1>2, <2>1, Inductive
<1>4. Total(f, S) >= 0 /\ Total(f, S) \in Int  BY <1>0, <1>3 DEF P
<1>. QED  BY <1>4

LEMMA TotalZero ==
  ASSUME NEW f, NEW S, IsFiniteSet(S), \A x \in S : f[x] = 0
  PROVE  Total(f, S) = 0
<1>. DEFINE P == {n \in Nat : \A T \in SUBSET S : Cardinality(T) <= n => Total(f, T) = 0}
<1>0. \A T \in SUBSET S : IsFiniteSet(T) /\ Cardinality(T) \in Nat /\ (Cardinality(T) = 0 <=> T = {})
  BY FS_Subset, FS_CardinalityType, FS_EmptySet
<1>1. 0 \in P  BY <1>0, TotalEmpty
<1>2. ASSUME NEW n \in P PROVE n + 1 \in P
  <2>1. SUFFICES ASSUME NEW T \in SUBSET S, Cardinality(T) <= n + 1, T # {} PROVE Total(f, T) = 0
    BY TotalEmpty
  <2>2. PICK e : e \in T  BY <2>1
  <2>3. T \ {e} \in SUBSET S /\ Cardinality(T \ {e}) = Cardinality(T) - 1  BY <1>0, <2>1, <2>2, FS_RemoveElement
  <2>4. Total(f, T \ {e}) = 0  BY <1>0, <2>1, <2>3
  <2>5. Total(f, T) = f[e] + Total(f, T \ {e})  BY <1>0, <2>1, <2>2, TotalRemove
  <2>. QED  BY <2>2, <2>4, <2>5
<1>. HIDE DEF P
<1>3. P = Nat
  <2>1. P \in SUBSET Nat  BY DEF P
  <2>. QED  BY <1>1, <1>2, <2>1, Inductive
<1>. QED  BY <1>0, <1>3 DEF P

-----------------------------------------------------------------------------
(* Orders of finite sets                                                    *)

\* R orders S: no element comes before itself, and of two one does.
Orders(R, S) ==
  /\ \A x \in S : <<x, x>> \notin R
  /\ \A x, y \in S : x # y => <<x, y>> \in R \/ <<y, x>> \in R
  /\ \A x, y, z \in S : <<x, y>> \in R /\ <<y, z>> \in R => <<x, z>> \in R

\* q holds as many elements of S as there are, in the order R.
SortedBy(q, R, S) ==
  /\ q \in [1..Cardinality(S) -> S]
  /\ \A i, k \in 1..Cardinality(S) : i < k => <<q[i], q[k]>> \in R

\* Elements sorted by an order: every one has a place of its own.
LEMMA SortedHoldsAll ==
  ASSUME NEW S, IsFiniteSet(S), NEW R, Orders(R, S), NEW q, SortedBy(q, R, S)
  PROVE  /\ \A i, k \in 1..Cardinality(S) : q[i] = q[k] => i = k
         /\ \A x \in S : \E i \in 1..Cardinality(S) : q[i] = x
<1>. DEFINE n == Cardinality(S)
<1>1. n \in Nat /\ IsFiniteSet(1..n) /\ Cardinality(1..n) = n  BY FS_CardinalityType, FS_Interval
<1>. HIDE DEF n
<1>2. \A i, k \in 1..n : q[i] = q[k] => i = k
  <2>. SUFFICES ASSUME NEW i \in 1..n, NEW k \in 1..n, i < k PROVE q[i] # q[k]
    BY <1>1
  <2>1. <<q[i], q[k]>> \in R /\ q[i] \in S  BY DEF n, SortedBy
  <2>. QED  BY <2>1 DEF Orders
<1>3. q \in Injection(1..n, S)  BY <1>2 DEF Injection, IsInjective, n, SortedBy
<1>4. q \in Surjection(1..n, S)
  <2>1. Cardinality(1..n) = Cardinality(S)  BY <1>1 DEF n
  <2>. QED  BY <1>3, <2>1, FS_Injection
<1>. QED  BY <1>2, <1>4 DEF Surjection, n

\* A finite set can be sorted: an element's place is one behind those before it.
LEMMA OrderExists ==
  ASSUME NEW S, IsFiniteSet(S), NEW R, Orders(R, S)
  PROVE  \E q : SortedBy(q, R, S)
<1>. DEFINE n == Cardinality(S)
            Less(x) == {y \in S : <<y, x>> \in R}
            rank == [x \in S |-> Cardinality(Less(x)) + 1]
<1>0. n \in Nat /\ IsFiniteSet(1..n) /\ Cardinality(1..n) = n  BY FS_CardinalityType, FS_Interval
<1>1. \A x \in S : Cardinality(Less(x)) \in Nat /\ IsFiniteSet(Less(x)) /\ Cardinality(Less(x)) < n
  <2>1. SUFFICES ASSUME NEW x \in S
                 PROVE  Cardinality(Less(x)) \in Nat /\ IsFiniteSet(Less(x)) /\ Cardinality(Less(x)) < n
    OBVIOUS
  <2>2. Less(x) \in SUBSET S /\ Less(x) # S  BY DEF Orders
  <2>. HIDE DEF Less
  <2>. QED  BY <1>0, <2>2, FS_Subset, FS_CardinalityType
<1>2. \A x, y \in S : <<x, y>> \in R => Cardinality(Less(x)) < Cardinality(Less(y))
  <2>1. SUFFICES ASSUME NEW x \in S, NEW y \in S, <<x, y>> \in R
                 PROVE  Cardinality(Less(x)) < Cardinality(Less(y))
    OBVIOUS
  <2>2. Less(x) \in SUBSET Less(y) /\ Less(x) # Less(y)  BY <2>1 DEF Orders
  <2>. HIDE DEF Less
  <2>. QED  BY <1>1, <2>2, FS_Subset
<1>. HIDE DEF Less
<1>3. rank \in [S -> 1..n] /\ \A x \in S : rank[x] = Cardinality(Less(x)) + 1  BY <1>0, <1>1
<1>. HIDE DEF rank, n
<1>4. \A x, y \in S : <<x, y>> \in R => rank[x] < rank[y]  BY <1>1, <1>2, <1>3
<1>5. \A x, y \in S : rank[x] = rank[y] => x = y
  <2>1. \A x \in S : rank[x] \in Int  BY <1>0, <1>3
  <2>2. ASSUME NEW x \in S, NEW y \in S, x # y PROVE rank[x] # rank[y]
    <3>1. <<x, y>> \in R \/ <<y, x>> \in R  BY <2>2 DEF Orders
    <3>. QED  BY <1>4, <2>1, <3>1
  <2>. QED  BY <2>2
<1>6. rank \in Injection(S, 1..n)  BY <1>3, <1>5 DEF Injection, IsInjective
<1>7. rank \in Surjection(S, 1..n)  BY <1>0, <1>6, FS_Injection DEF n
<1>. DEFINE q == [i \in 1..n |-> CHOOSE x \in S : rank[x] = i]
<1>8. q \in [1..n -> S] /\ \A i \in 1..n : rank[q[i]] = i
  <2>1. \A i \in 1..n : \E x \in S : rank[x] = i  BY <1>7 DEF Surjection
  <2>. QED  BY <2>1
<1>. HIDE DEF q
<1>9. ASSUME NEW i \in 1..n, NEW k \in 1..n, i < k PROVE <<q[i], q[k]>> \in R
  <2>1. q[i] \in S /\ q[k] \in S /\ rank[q[i]] = i /\ rank[q[k]] = k  BY <1>8
  <2>2. q[i] # q[k]  BY <1>0, <1>9, <2>1
  <2>3. <<q[k], q[i]>> \in R => k < i  BY <1>4, <2>1
  <2>. QED  BY <1>0, <1>9, <2>1, <2>2, <2>3 DEF Orders
<1>. QED  BY <1>8, <1>9 DEF n, SortedBy

\* Cutting down to a multiple reaches at most as far.
LEMMA Floor ==
  ASSUME NEW a \in Int, NEW h \in Nat \ {0}
  PROVE  h * (a \div h) \in Int /\ h * (a \div h) <= a
OBVIOUS

\* Cutting up reaches at least as far.
LEMMA Ceiling ==
  ASSUME NEW a \in Int, NEW h \in Nat \ {0}
  PROVE  h * ((a + h - 1) \div h) \in Int /\ a <= h * ((a + h - 1) \div h)
<1>. DEFINE q == (a + h - 1) \div h
<1>1. q \in Int /\ h * q \in Int /\ a + h - 1 < h * q + h  OBVIOUS
<1>. HIDE DEF q
<1>2. a <= h * q  BY <1>1
<1>. QED  BY <1>1, <1>2 DEF q

\* A finite set of integers has a least one, which is Min, and a greatest, Max.
LEMMA Bounded ==
  ASSUME NEW S, IsFiniteSet(S), S # {}, S \subseteq Int
  PROVE  \E m \in S : \A x \in S : m <= x
<1>. DEFINE R == {p \in S \X S : p[1] < p[2]}
<1>0. \A x \in S : x \in Int  OBVIOUS
<1>1. Orders(R, S)  BY <1>0 DEF Orders
<1>01. \A x, y \in S : <<x, y>> \in R <=> x < y  OBVIOUS
<1>. HIDE DEF R
<1>2. PICK q : SortedBy(q, R, S)  BY <1>1, OrderExists
<1>3. Cardinality(S) \in Nat /\ Cardinality(S) # 0  BY FS_CardinalityType, FS_EmptySet
<1>4. 1 \in 1..Cardinality(S) /\ q[1] \in S  BY <1>2, <1>3 DEF SortedBy
<1>5. \A x \in S : \E i \in 1..Cardinality(S) : q[i] = x  BY <1>1, <1>2, SortedHoldsAll
<1>6. ASSUME NEW x \in S PROVE q[1] <= x
  <2>1. PICK i \in 1..Cardinality(S) : q[i] = x  BY <1>5
  <2>2. i = 1 \/ 1 < i  BY <1>3
  <2>3. 1 < i => q[1] < x  BY <1>01, <1>2, <1>4, <2>1 DEF SortedBy
  <2>4. q[1] \in Int /\ x \in Int  BY <1>0, <1>4
  <2>5. CASE i = 1  BY <2>1, <2>4, <2>5
  <2>6. CASE 1 < i  BY <2>3, <2>4, <2>6
  <2>. QED  BY <2>2, <2>5, <2>6
<1>. QED  BY <1>4, <1>6

LEMMA MinMax ==
  ASSUME NEW S, IsFiniteSet(S), S # {}, S \subseteq Int
  PROVE  Min(S) \in S /\ Max(S) \in S /\ \A x \in S : Min(S) <= x /\ x <= Max(S)
<1>0. \A x \in S : x \in Int  OBVIOUS
<1>1. PICK m \in S : \A x \in S : m <= x  BY Bounded
<1>2. Min(S) \in S /\ \A x \in S : Min(S) <= x
  BY <1>1 DEF Min
<1>. DEFINE T == {-x : x \in S}
<1>3. IsFiniteSet(T) /\ T # {} /\ T \subseteq Int
  <2>1. IsFiniteSet(T)
    <3>. DEFINE g == [x \in S |-> -x]
    <3>1. g \in Surjection(S, T)  BY DEF Surjection
    <3>. QED  BY <3>1, FS_Surjection
  <2>. QED  BY <1>0, <2>1
<1>. HIDE DEF T
<1>4. PICK p \in T : \A x \in T : p <= x  BY <1>3, Bounded
<1>5. PICK k \in S : p = -k  BY DEF T
<1>6. \A x \in S : k >= x
  <2>1. SUFFICES ASSUME NEW x \in S PROVE k >= x  OBVIOUS
  <2>2. p <= -x  BY <1>4 DEF T
  <2>. QED  BY <1>0, <1>5, <2>2
<1>7. Max(S) \in S /\ \A x \in S : Max(S) >= x  BY <1>6 DEF Max
<1>8. \A x \in S : x <= Max(S)  BY <1>0, <1>7
<1>. QED  BY <1>2, <1>7, <1>8

-----------------------------------------------------------------------------
(* Folds over sequences.  FoldLeft is a recursive function on the sets of   *)
(* positions that takes the last position first.                            *)

\* the greatest position is one
LEMMA MaxIn ==
  ASSUME NEW n \in Nat, NEW s \in SUBSET (1..n), s # {}
  PROVE  Max(s) \in s /\ \A i \in s : i <= Max(s)
<1>. DEFINE T == {m \in 0..n : n - m \in s}
<1>1. PICK i \in s : TRUE  OBVIOUS
<1>2. n - i \in 0..n /\ n - (n - i) = i  OBVIOUS
<1>3. T \in SUBSET Nat /\ T # {}
  <2>1. n - i \in T  BY <1>2
  <2>2. \A m \in T : m \in Nat  OBVIOUS
  <2>. HIDE DEF T
  <2>. QED  BY <2>1, <2>2
<1>4. PICK m \in T : \A k \in T : m <= k  BY <1>3, LeastNatural
<1>5. n - m \in s /\ m \in 0..n  OBVIOUS
<1>6. \A j \in s : n - m >= j
  <2>1. SUFFICES ASSUME NEW j \in s PROVE n - m >= j  OBVIOUS
  <2>2. n - j \in 0..n /\ n - (n - j) = j  OBVIOUS
  <2>3. n - j \in T  BY <2>2
  <2>4. m <= n - j  BY <1>4, <2>3
  <2>. QED  BY <1>5, <2>4
<1>7. Max(s) \in s /\ \A j \in s : Max(s) >= j  BY <1>5, <1>6 DEF Max
<1>. QED  BY <1>7

\* the recursion of a fold whose step at position i is f[<<acc, i>>]
Folding(f, base, g, s) == IF s = {} THEN base ELSE f[<<g[s \ {Max(s)}], Max(s)>>]

IsFolding(f, base, n, g) == g = [s \in SUBSET (1..n) |-> Folding(f, base, g, s)]

\* Such a function exists, and its values are in A.
LEMMA FoldingExists ==
  ASSUME NEW n \in Nat, NEW A, NEW base \in A, NEW f \in [A \X (1..n) -> A]
  PROVE  \E g : IsFolding(f, base, n, g) /\ \A s \in SUBSET (1..n) : g[s] \in A
<1>. DEFINE D == 1..n
            Upto(k, g) == /\ \A s \in SUBSET D : Cardinality(s) <= k => g[s] = Folding(f, base, g, s)
                          /\ \A s \in SUBSET D : g[s] \in A
            P == {k \in Nat : \E g : Upto(k, g)}
<1>0. \A s \in SUBSET D : IsFiniteSet(s) /\ Cardinality(s) \in Nat /\ (Cardinality(s) = 0 <=> s = {})
  <2>1. IsFiniteSet(D)  BY FS_Interval
  <2>. HIDE DEF D
  <2>. QED  BY <2>1, FS_Subset, FS_CardinalityType, FS_EmptySet
<1>01. \A s \in SUBSET D : s # {} => s \ {Max(s)} \in SUBSET D /\ Cardinality(s \ {Max(s)}) = Cardinality(s) - 1
  BY <1>0, MaxIn, FS_RemoveElement
<1>03. \A s \in SUBSET D : s # {} => Max(s) \in D  BY MaxIn
<1>04. f \in [A \X D -> A]  OBVIOUS
<1>02. IsFiniteSet(D)  BY FS_Interval
<1>. HIDE DEF D
<1>1. 0 \in P
  <2>. DEFINE g == [s \in SUBSET D |-> base]
  <2>1. Upto(0, g)  BY <1>0 DEF Folding
  <2>. QED  BY <2>1
<1>2. ASSUME NEW k \in P PROVE k + 1 \in P
  <2>1. PICK g : Upto(k, g)  OBVIOUS
  <2>. DEFINE h == [s \in SUBSET D |-> Folding(f, base, g, s)]
  <2>2. ASSUME NEW s \in SUBSET D, Cardinality(s) <= k + 1 PROVE h[s] = Folding(f, base, h, s)
    <3>1. CASE s = {}  BY <3>1 DEF Folding
    <3>2. CASE s # {}
      <4>. DEFINE t == s \ {Max(s)}
      <4>1. t \in SUBSET D /\ Cardinality(t) = Cardinality(s) - 1  BY <1>01, <3>2
      <4>2. h[t] = g[t]
        <5>1. Cardinality(t) <= k  BY <1>0, <2>2, <4>1
        <5>. QED  BY <2>1, <4>1, <5>1
      <4>. QED  BY <3>2, <4>2 DEF Folding
    <3>. QED  BY <3>1, <3>2
  <2>3. \A s \in SUBSET D : h[s] \in A
    <3>1. SUFFICES ASSUME NEW s \in SUBSET D, s # {} PROVE h[s] \in A  BY DEF Folding
    <3>2. g[s \ {Max(s)}] \in A /\ Max(s) \in D  BY <1>01, <1>03, <2>1, <3>1
    <3>3. <<g[s \ {Max(s)}], Max(s)>> \in A \X D  BY <3>2
    <3>. QED  BY <1>04, <3>1, <3>3 DEF Folding
  <2>5. Upto(k + 1, h)  BY <2>2, <2>3
  <2>. HIDE DEF h
  <2>4. \E e : Upto(k + 1, e)  BY <2>5
  <2>. QED  BY <2>4
<1>3. Cardinality(D) \in P
  <2>. HIDE DEF P
  <2>1. P \in SUBSET Nat  BY DEF P
  <2>2. P = Nat  BY <1>1, <1>2, <2>1, Inductive
  <2>. QED  BY <1>0, <2>2
<1>4. PICK g : Upto(Cardinality(D), g)  BY <1>3
<1>. DEFINE h == [s \in SUBSET D |-> g[s]]
<1>5. \A s \in SUBSET D : Cardinality(s) <= Cardinality(D)  BY <1>02, FS_Subset
<1>6. ASSUME NEW s \in SUBSET D PROVE h[s] = Folding(f, base, h, s)
  <2>1. h[s] = Folding(f, base, g, s)  BY <1>4, <1>5
  <2>2. s \ {Max(s)} \in SUBSET D  OBVIOUS
  <2>. QED  BY <2>1, <2>2 DEF Folding
<1>7. h = [s \in SUBSET D |-> Folding(f, base, h, s)]  BY <1>6
<1>8. \A s \in SUBSET D : h[s] \in A  BY <1>4
<1>. QED  BY <1>7, <1>8 DEF D, IsFolding

\* The positions up to k: k is the last one.
LEMMA Positions ==
  ASSUME NEW n \in Nat, NEW k \in 1..n
  PROVE  /\ 1..k \in SUBSET (1..n) /\ 1..k # {} /\ k \in 1..k
         /\ Max(1..k) = k /\ (1..k) \ {k} = 1..(k - 1)
<1>1. 1..k \in SUBSET (1..n) /\ 1..k # {} /\ k \in 1..k  OBVIOUS
<1>2. Max(1..k) = k
  <2>1. k \in Nat /\ 1..k \in SUBSET (1..k)  OBVIOUS
  <2>2. Max(1..k) \in 1..k /\ k <= Max(1..k)  BY <1>1, <2>1, MaxIn
  <2>. QED  BY <2>2
<1>. QED  BY <1>1, <1>2

-----------------------------------------------------------------------------
(* Sizes *)

\* The instants of an interval.
LEMMA Span ==
  ASSUME NEW a \in Int, NEW b \in Int, a < b
  PROVE  IsFiniteSet(a..(b - 1)) /\ Cardinality(a..(b - 1)) = b - a
<1>. DEFINE e == b - 1
<1>1. e \in Int /\ ~(a > e) /\ e - a + 1 = b - a  OBVIOUS
<1>. HIDE DEF e
<1>2. IsFiniteSet(a..e) /\ Cardinality(a..e) = IF a > e THEN 0 ELSE e - a + 1  BY <1>1, FS_Interval
<1>3. IsFiniteSet(a..e) /\ Cardinality(a..e) = b - a  BY <1>1, <1>2
<1>. QED  BY <1>3 DEF e

\* Two sets that have no element in common.
LEMMA DisjointUnion ==
  ASSUME NEW S, IsFiniteSet(S), NEW T, IsFiniteSet(T), S \cap T = {}
  PROVE  IsFiniteSet(S \cup T) /\ Cardinality(S \cup T) = Cardinality(S) + Cardinality(T)
<1>1. Cardinality(S \cap T) = 0  BY FS_EmptySet
<1>2. Cardinality(S) \in Nat /\ Cardinality(T) \in Nat  BY FS_CardinalityType
<1>3. IsFiniteSet(S \cup T) /\ Cardinality(S \cup T) = Cardinality(S) + Cardinality(T) - Cardinality(S \cap T)
  BY FS_Union
<1>. QED  BY <1>1, <1>2, <1>3

\* what the parts have together
Parts(X, T) == UNION {X[i] : i \in T}

\* The sizes of disjoint sets add up to that of their union.
LEMMA TotalOfParts ==
  ASSUME NEW S, IsFiniteSet(S), NEW X, \A i \in S : IsFiniteSet(X[i]),
         \A i, k \in S : i # k => X[i] \cap X[k] = {},
         NEW f, \A i \in S : f[i] = Cardinality(X[i])
  PROVE  IsFiniteSet(Parts(X, S)) /\ Total(f, S) = Cardinality(Parts(X, S))
<1>. DEFINE Holds(T) == IsFiniteSet(Parts(X, T)) /\ Total(f, T) = Cardinality(Parts(X, T))
            P == {n \in Nat : \A T \in SUBSET S : Cardinality(T) <= n => Holds(T)}
<1>0. \A T \in SUBSET S : IsFiniteSet(T) /\ Cardinality(T) \in Nat /\ (Cardinality(T) = 0 <=> T = {})
  BY FS_Subset, FS_CardinalityType, FS_EmptySet
<1>01. \A i \in S : f[i] \in Int  BY FS_CardinalityType
<1>1. Holds({})
  <2>1. Parts(X, {}) = {}  BY DEF Parts
  <2>. QED  BY <2>1, TotalEmpty, FS_EmptySet
<1>2. 0 \in P
  <2>1. SUFFICES ASSUME NEW T \in SUBSET S, Cardinality(T) <= 0 PROVE Holds(T)  OBVIOUS
  <2>2. T = {}  BY <1>0, <2>1
  <2>. QED  BY <1>1, <2>2
<1>3. ASSUME NEW n \in P PROVE n + 1 \in P
  <2>1. SUFFICES ASSUME NEW T \in SUBSET S, Cardinality(T) <= n + 1, T # {} PROVE Holds(T)
    BY <1>1
  <2>2. PICK e : e \in T  BY <2>1
  <2>. DEFINE U == T \ {e}
  <2>3. U \in SUBSET S /\ Cardinality(U) = Cardinality(T) - 1  BY <1>0, <2>1, <2>2, FS_RemoveElement
  <2>4. Holds(U)  BY <1>0, <2>1, <2>3
  <2>5. Total(f, T) = f[e] + Total(f, U)  BY <1>0, <1>01, <2>1, <2>2, TotalRemove
  <2>6. Parts(X, T) = X[e] \cup Parts(X, U)  BY <2>2 DEF Parts
  <2>7. X[e] \cap Parts(X, U) = {}
    <3>1. e \in S /\ \A i \in U : i \in S /\ i # e  BY <2>2
    <3>2. \A i \in U : X[e] \cap X[i] = {}  BY <3>1
    <3>. QED  BY <3>2 DEF Parts
  <2>8. IsFiniteSet(X[e]) /\ f[e] = Cardinality(X[e])  BY <2>2
  <2>9. IsFiniteSet(Parts(X, T)) /\ Cardinality(Parts(X, T)) = Cardinality(X[e]) + Cardinality(Parts(X, U))
    <3>1. IsFiniteSet(Parts(X, U))  BY <2>4
    <3>. HIDE DEF U
    <3>2. /\ IsFiniteSet(X[e] \cup Parts(X, U))
          /\ Cardinality(X[e] \cup Parts(X, U)) = Cardinality(X[e]) + Cardinality(Parts(X, U))
      BY <2>7, <2>8, <3>1, DisjointUnion
    <3>. QED  BY <2>6, <3>2
  <2>. QED  BY <2>4, <2>5, <2>8, <2>9
<1>. HIDE DEF P
<1>4. P = Nat
  <2>1. P \in SUBSET Nat  BY DEF P
  <2>. QED  BY <1>2, <1>3, <2>1, Inductive
<1>. QED  BY <1>0, <1>4 DEF P

\* A name put to each element does not change their number.
LEMMA Tagged ==
  ASSUME NEW n, NEW T, IsFiniteSet(T)
  PROVE  IsFiniteSet({n} \X T) /\ Cardinality({n} \X T) = Cardinality(T)
<1>. DEFINE g == [t \in T |-> <<n, t>>]
<1>1. g \in Injection(T, {n} \X T)  BY DEF Injection, IsInjective
<1>2. g \in Surjection(T, {n} \X T)
  <2>1. \A p \in {n} \X T : \E t \in T : g[t] = p
    <3>1. SUFFICES ASSUME NEW p \in {n} \X T PROVE \E t \in T : g[t] = p  OBVIOUS
    <3>2. p[2] \in T /\ g[p[2]] = p  OBVIOUS
    <3>. QED  BY <3>2
  <2>2. g \in [T -> {n} \X T]  OBVIOUS
  <2>. QED  BY <2>1, <2>2 DEF Surjection
<1>3. IsFiniteSet({n} \X T)  BY <1>2, FS_Surjection
<1>. HIDE DEF g
<1>. QED  BY <1>1, <1>2, <1>3, FS_Surjection
=============================================================================
