------------------------------ MODULE SumTheorems ------------------------------
(*****************************************************************************)
(* Sums of a function over finite sets: what the ledgers, wallets and stock  *)
(* of the other modules are compared with.  SumFunctionOnSet is a fold, by a *)
(* recursive function on the subsets of the set, which takes the elements in *)
(* an order of its own; the lemmas here make the order irrelevant.           *)
(*                                                                           *)
(* Induction is stated for sets (a set of numbers that holds 0 and the       *)
(* successors of its members holds all), so that every step is first-order.  *)
(*****************************************************************************)
EXTENDS Integers, FiniteSets, FiniteSetsExt, FiniteSetTheorems, WellFoundedInduction, TLAPS

-----------------------------------------------------------------------------
(* Induction.                                                                 *)

\* A set of numbers with 0 and with the successor of each member is all of Nat.
LEMMA NatInductionInSet ==
  ASSUME NEW C, 0 \in C, \A n \in Nat : n \in C => n + 1 \in C
  PROVE  Nat \subseteq C
<1> DEFINE R == {ss \in Nat \X Nat : ss[1] < ss[2]}
<1>1. IsWellFoundedOn(R, Nat)
  BY NatLessThanWellFounded DEF OpToRel
<1>2. \A m, n \in Nat : m < n => <<m, n>> \in R
  OBVIOUS
<1> HIDE DEF R
<1> SUFFICES ASSUME Nat \ C # {}
             PROVE  FALSE
  OBVIOUS
<1>3. PICK n \in Nat \ C : \A m \in Nat \ C : ~ (<<m, n>> \in R)
  BY <1>1, WFMin
<1>4. n # 0
  OBVIOUS
<1>5. n - 1 \in Nat /\ n - 1 < n /\ n = (n - 1) + 1
  BY <1>4
<1>6. n - 1 \in C
  BY <1>2, <1>3, <1>5
<1> QED BY <1>5, <1>6

\* A family of subsets with the empty one that is closed under adding an element has
\* every subset of a finite set.
LEMMA SetInductionInSet ==
  ASSUME NEW S, IsFiniteSet(S), NEW C, {} \in C,
         \A T \in SUBSET S : \A x \in S \ T : T \in C => T \cup {x} \in C
  PROVE  SUBSET S \subseteq C
<1> DEFINE N == {n \in Nat : \A T \in SUBSET S : Cardinality(T) = n => T \in C}
<1>0. \A T \in SUBSET S : IsFiniteSet(T) /\ Cardinality(T) \in Nat
  BY FS_Subset, FS_CardinalityType
<1>1. 0 \in N
  BY <1>0, FS_EmptySet
<1>2. ASSUME NEW n \in Nat, n \in N
      PROVE  n + 1 \in N
  <2> SUFFICES ASSUME NEW T \in SUBSET S, Cardinality(T) = n + 1
               PROVE  T \in C
    OBVIOUS
  <2>1. T # {}
    BY <1>0, FS_EmptySet
  <2>2. PICK x \in T : TRUE
    BY <2>1
  <2>3. T \ {x} \in SUBSET S /\ Cardinality(T \ {x}) = n
    <3>1. Cardinality(T \ {x}) = Cardinality(T) - 1
      BY <1>0, <2>2, FS_RemoveElement
    <3> QED BY <3>1
  <2>4. T \ {x} \in C
    BY <1>2, <2>3
  <2>5. (T \ {x}) \cup {x} = T /\ x \in S \ (T \ {x})
    OBVIOUS
  <2> QED BY <2>3, <2>4, <2>5
<1> HIDE DEF N
<1>3. Nat \subseteq N
  BY <1>1, <1>2, NatInductionInSet
<1> QED BY <1>0, <1>3 DEF N

-----------------------------------------------------------------------------
(* The fold that SumFunctionOnSet is.                                         *)

Pick(T) == CHOOSE x \in T : TRUE
IsSum(h, f, S) ==
  h = [T \in SUBSET S |-> IF T = {} THEN 0 ELSE f[Pick(T)] + h[T \ {Pick(T)}]]

LEMMA SumUnfolds ==
  ASSUME NEW f, NEW S
  PROVE  SumFunctionOnSet(f, S) = (CHOOSE sum : IsSum(sum, f, S))[S]
BY DEF SumFunctionOnSet, FoldFunctionOnSet, MapThenFoldSet, IsSum, Pick

\* h adds up the subsets of S of n elements and fewer.
Adds(h, f, S, n) ==
  \A T \in SUBSET S : Cardinality(T) <= n =>
    h[T] = IF T = {} THEN 0 ELSE f[Pick(T)] + h[T \ {Pick(T)}]

LEMMA PartialSumsExist ==
  ASSUME NEW f, NEW S, IsFiniteSet(S)
  PROVE  \A n \in Nat : \E h : Adds(h, f, S, n)
<1> DEFINE N == {n \in Nat : \E h : Adds(h, f, S, n)}
<1>0. \A T \in SUBSET S : IsFiniteSet(T) /\ Cardinality(T) \in Nat
  BY FS_Subset, FS_CardinalityType
<1>1. 0 \in N
  <2>1. Adds([T \in SUBSET S |-> 0], f, S, 0)
    BY <1>0, FS_EmptySet DEF Adds
  <2> QED BY <2>1
<1>2. ASSUME NEW n \in Nat, n \in N
      PROVE  n + 1 \in N
  <2>1. PICK h : Adds(h, f, S, n)
    BY <1>2
  <2> DEFINE k == [T \in SUBSET S |->
                     IF Cardinality(T) <= n THEN h[T] ELSE f[Pick(T)] + h[T \ {Pick(T)}]]
  <2>2. ASSUME NEW T \in SUBSET S, Cardinality(T) <= n + 1
        PROVE  k[T] = IF T = {} THEN 0 ELSE f[Pick(T)] + k[T \ {Pick(T)}]
    <3>1. CASE T = {}
      <4>1. Cardinality(T) = 0
        BY <1>0, <3>1, FS_EmptySet
      <4> QED BY <2>1, <3>1, <4>1 DEF Adds
    <3>2. CASE T # {}
      <4>1. Pick(T) \in T
        BY <3>2 DEF Pick
      <4>2. T \ {Pick(T)} \in SUBSET S /\ Cardinality(T \ {Pick(T)}) = Cardinality(T) - 1
        BY <1>0, <4>1, FS_RemoveElement
      <4>3. Cardinality(T \ {Pick(T)}) <= n
        BY <1>0, <2>2, <4>2
      <4>4. k[T \ {Pick(T)}] = h[T \ {Pick(T)}]
        BY <4>2, <4>3
      <4>5. k[T] = f[Pick(T)] + h[T \ {Pick(T)}]
        <5>1. CASE Cardinality(T) <= n
          BY <2>1, <3>2, <5>1 DEF Adds
        <5>2. CASE ~ (Cardinality(T) <= n)
          BY <5>2
        <5> QED BY <5>1, <5>2
      <4> QED BY <3>2, <4>4, <4>5
    <3> QED BY <3>1, <3>2
  <2> HIDE DEF k
  <2>3. Adds(k, f, S, n + 1)
    BY <2>2 DEF Adds
  <2> QED BY <2>3
<1> HIDE DEF N
<1>3. Nat \subseteq N
  BY <1>1, <1>2, NatInductionInSet
<1> QED BY <1>3 DEF N

LEMMA SumExists ==
  ASSUME NEW f, NEW S, IsFiniteSet(S)
  PROVE  \E h : IsSum(h, f, S)
<1> DEFINE n == Cardinality(S)
<1>1. n \in Nat /\ \A T \in SUBSET S : Cardinality(T) <= n
  BY FS_Subset, FS_CardinalityType
<1> HIDE DEF n
<1>2. PICK h : Adds(h, f, S, n)
  BY <1>1, PartialSumsExist
<1> DEFINE k == [T \in SUBSET S |-> h[T]]
<1>3. ASSUME NEW T \in SUBSET S
      PROVE  k[T] = IF T = {} THEN 0 ELSE f[Pick(T)] + k[T \ {Pick(T)}]
  BY <1>1, <1>2 DEF Adds
<1>4. IsSum(k, f, S)
  BY <1>3 DEF IsSum
<1> QED BY <1>4

\* Two such functions agree wherever both are defined and the summands agree.
LEMMA SumUnique ==
  ASSUME NEW f, NEW g, NEW S, IsFiniteSet(S), NEW A, NEW B, S \subseteq A, S \subseteq B,
         \A x \in S : f[x] = g[x],
         NEW h, IsSum(h, f, A), NEW k, IsSum(k, g, B)
  PROVE  h[S] = k[S]
<1> DEFINE C == {T \in SUBSET S : h[T] = k[T]}
           N == {n \in Nat : \A T \in SUBSET S : Cardinality(T) = n => h[T] = k[T]}
<1>0. \A T \in SUBSET S : IsFiniteSet(T) /\ Cardinality(T) \in Nat
  BY FS_Subset, FS_CardinalityType
<1>1. \A T \in SUBSET S :
        /\ h[T] = IF T = {} THEN 0 ELSE f[Pick(T)] + h[T \ {Pick(T)}]
        /\ k[T] = IF T = {} THEN 0 ELSE g[Pick(T)] + k[T \ {Pick(T)}]
  BY DEF IsSum
<1>2. 0 \in N
  BY <1>0, <1>1, FS_EmptySet
<1>3. ASSUME NEW n \in Nat, n \in N
      PROVE  n + 1 \in N
  <2> SUFFICES ASSUME NEW T \in SUBSET S, Cardinality(T) = n + 1
               PROVE  h[T] = k[T]
    OBVIOUS
  <2>1. T # {}
    BY <1>0, FS_EmptySet
  <2>2. Pick(T) \in T
    BY <2>1 DEF Pick
  <2>3. T \ {Pick(T)} \in SUBSET S /\ Cardinality(T \ {Pick(T)}) = Cardinality(T) - 1
    BY <1>0, <2>2, FS_RemoveElement
  <2>4. Cardinality(T \ {Pick(T)}) = n
    BY <2>3
  <2>5. h[T \ {Pick(T)}] = k[T \ {Pick(T)}]
    BY <1>3, <2>3, <2>4
  <2>6. f[Pick(T)] = g[Pick(T)]
    BY <2>2
  <2> QED BY <1>1, <2>1, <2>5, <2>6
<1> HIDE DEF N
<1>4. Nat \subseteq N
  BY <1>2, <1>3, NatInductionInSet
<1> QED BY <1>0, <1>4 DEF N

-----------------------------------------------------------------------------
(* What a sum is.                                                             *)

\* The sum depends on the values in the set alone.
LEMMA SumSame ==
  ASSUME NEW f, NEW g, NEW S, IsFiniteSet(S), \A x \in S : f[x] = g[x]
  PROVE  SumFunctionOnSet(f, S) = SumFunctionOnSet(g, S)
<1> DEFINE h == CHOOSE sum : IsSum(sum, f, S)
           k == CHOOSE sum : IsSum(sum, g, S)
<1>1. IsSum(h, f, S) /\ IsSum(k, g, S)
  BY SumExists
<1> HIDE DEF h, k
<1>2. h[S] = k[S]
  BY <1>1, SumUnique
<1> QED BY <1>2, SumUnfolds DEF h, k

LEMMA SumEmpty ==
  ASSUME NEW f
  PROVE  SumFunctionOnSet(f, {}) = 0
<1> DEFINE h == CHOOSE sum : IsSum(sum, f, {})
<1>1. IsSum(h, f, {})
  BY SumExists, FS_EmptySet
<1> HIDE DEF h
<1>2. h[{}] = 0
  BY <1>1 DEF IsSum
<1> QED BY <1>2, SumUnfolds DEF h

\* The element that the fold takes first.
LEMMA SumPicks ==
  ASSUME NEW f, NEW S, IsFiniteSet(S), S # {}
  PROVE  SumFunctionOnSet(f, S) = f[Pick(S)] + SumFunctionOnSet(f, S \ {Pick(S)})
<1> DEFINE T == S \ {Pick(S)}
           h == CHOOSE sum : IsSum(sum, f, S)
           k == CHOOSE sum : IsSum(sum, f, T)
<1>1. IsFiniteSet(T)
  BY FS_RemoveElement
<1>2. IsSum(h, f, S) /\ IsSum(k, f, T)
  BY <1>1, SumExists
<1>3. SumFunctionOnSet(f, S) = h[S] /\ SumFunctionOnSet(f, T) = k[T]
  BY SumUnfolds
<1> HIDE DEF h, k
<1>4. h[T] = k[T]
  BY <1>1, <1>2, SumUnique
<1>5. h[S] = f[Pick(S)] + h[T]
  BY <1>2 DEF IsSum
<1> QED BY <1>3, <1>4, <1>5

LEMMA SumType ==
  ASSUME NEW f, NEW S, IsFiniteSet(S), \A x \in S : f[x] \in Int
  PROVE  SumFunctionOnSet(f, S) \in Int
<1> DEFINE N == {n \in Nat : \A T \in SUBSET S : Cardinality(T) = n => SumFunctionOnSet(f, T) \in Int}
<1>0. \A T \in SUBSET S : IsFiniteSet(T) /\ Cardinality(T) \in Nat
  BY FS_Subset, FS_CardinalityType
<1>1. 0 \in N
  BY <1>0, SumEmpty, FS_EmptySet
<1>2. ASSUME NEW n \in Nat, n \in N
      PROVE  n + 1 \in N
  <2> SUFFICES ASSUME NEW T \in SUBSET S, Cardinality(T) = n + 1
               PROVE  SumFunctionOnSet(f, T) \in Int
    OBVIOUS
  <2>1. T # {}
    BY <1>0, FS_EmptySet
  <2>2. Pick(T) \in T
    BY <2>1 DEF Pick
  <2>3. T \ {Pick(T)} \in SUBSET S /\ Cardinality(T \ {Pick(T)}) = Cardinality(T) - 1
    BY <1>0, <2>2, FS_RemoveElement
  <2>4. SumFunctionOnSet(f, T \ {Pick(T)}) \in Int
    BY <1>2, <2>3
  <2>5. SumFunctionOnSet(f, T) = f[Pick(T)] + SumFunctionOnSet(f, T \ {Pick(T)})
    BY <1>0, <2>1, SumPicks
  <2> QED BY <2>2, <2>4, <2>5
<1> HIDE DEF N
<1>3. Nat \subseteq N
  BY <1>1, <1>2, NatInductionInSet
<1> QED BY <1>0, <1>3 DEF N

\* Any element may be taken first.
LEMMA SumRemove ==
  ASSUME NEW f, NEW S, IsFiniteSet(S), \A x \in S : f[x] \in Int, NEW a \in S
  PROVE  SumFunctionOnSet(f, S) = f[a] + SumFunctionOnSet(f, S \ {a})
<1> DEFINE Takes(T) == \A x \in T : SumFunctionOnSet(f, T) = f[x] + SumFunctionOnSet(f, T \ {x})
           N == {n \in Nat : \A T \in SUBSET S : Cardinality(T) = n => Takes(T)}
<1>0. \A T \in SUBSET S : IsFiniteSet(T) /\ Cardinality(T) \in Nat
  BY FS_Subset, FS_CardinalityType
<1>1. 0 \in N
  BY <1>0, FS_EmptySet
<1>2. ASSUME NEW n \in Nat, n \in N
      PROVE  n + 1 \in N
  <2> SUFFICES ASSUME NEW T \in SUBSET S, Cardinality(T) = n + 1, NEW x \in T
               PROVE  SumFunctionOnSet(f, T) = f[x] + SumFunctionOnSet(f, T \ {x})
    OBVIOUS
  <2> DEFINE p == Pick(T)
  <2>1. p \in T
    BY DEF Pick
  <2>2. SumFunctionOnSet(f, T) = f[p] + SumFunctionOnSet(f, T \ {p})
    BY <1>0, SumPicks
  <2> HIDE DEF p
  <2>3. CASE x = p
    BY <2>2, <2>3
  <2>4. CASE x # p
    <3>1. T \ {p} \in SUBSET S /\ T \ {x} \in SUBSET S
      OBVIOUS
    <3>2. Cardinality(T \ {p}) = n /\ Cardinality(T \ {x}) = n
      <4>1. Cardinality(T \ {p}) = Cardinality(T) - 1 /\ Cardinality(T \ {x}) = Cardinality(T) - 1
        BY <1>0, <2>1, FS_RemoveElement
      <4> QED BY <4>1
    <3>3. SumFunctionOnSet(f, T \ {p}) = f[x] + SumFunctionOnSet(f, (T \ {p}) \ {x})
      BY <1>2, <2>4, <3>1, <3>2
    <3>4. SumFunctionOnSet(f, T \ {x}) = f[p] + SumFunctionOnSet(f, (T \ {x}) \ {p})
      BY <1>2, <2>1, <2>4, <3>1, <3>2
    <3>5. (T \ {p}) \ {x} = (T \ {x}) \ {p}
      OBVIOUS
    <3> DEFINE r == SumFunctionOnSet(f, (T \ {x}) \ {p})
    <3>6. (T \ {x}) \ {p} \in SUBSET S /\ IsFiniteSet((T \ {x}) \ {p})
      BY <1>0
    <3>7. r \in Int
      BY <3>6, SumType
    <3>8. f[x] \in Int /\ f[p] \in Int
      BY <2>1
    <3> HIDE DEF r
    <3>9. SumFunctionOnSet(f, T) = f[p] + (f[x] + r) /\ SumFunctionOnSet(f, T \ {x}) = f[p] + r
      BY <2>2, <3>3, <3>4, <3>5 DEF r
    <3> QED BY <3>7, <3>8, <3>9
  <2> QED BY <2>3, <2>4
<1> HIDE DEF N
<1>3. Nat \subseteq N
  BY <1>1, <1>2, NatInductionInSet
<1>4. Takes(S)
  BY <1>0, <1>3 DEF N
<1> QED BY <1>4

\* One element more.
LEMMA SumAdd ==
  ASSUME NEW f, NEW S, IsFiniteSet(S), NEW a, a \notin S, \A x \in S \cup {a} : f[x] \in Int
  PROVE  SumFunctionOnSet(f, S \cup {a}) = f[a] + SumFunctionOnSet(f, S)
<1>1. IsFiniteSet(S \cup {a})
  BY FS_AddElement
<1>2. (S \cup {a}) \ {a} = S
  OBVIOUS
<1>3. SumFunctionOnSet(f, S \cup {a}) = f[a] + SumFunctionOnSet(f, (S \cup {a}) \ {a})
  BY <1>1, SumRemove
<1> QED BY <1>2, <1>3

\* Two functions that agree but for one element of the set.
LEMMA SumChange ==
  ASSUME NEW f, NEW g, NEW S, IsFiniteSet(S), \A x \in S : f[x] \in Int,
         NEW a \in S, g[a] \in Int, \A x \in S \ {a} : g[x] = f[x]
  PROVE  SumFunctionOnSet(g, S) = (SumFunctionOnSet(f, S) - f[a]) + g[a]
<1>1. IsFiniteSet(S \ {a})
  BY FS_RemoveElement
<1>2. \A x \in S : g[x] \in Int
  OBVIOUS
<1>3. SumFunctionOnSet(f, S) = f[a] + SumFunctionOnSet(f, S \ {a})
  BY SumRemove
<1>4. SumFunctionOnSet(g, S) = g[a] + SumFunctionOnSet(g, S \ {a})
  BY <1>2, SumRemove
<1>5. SumFunctionOnSet(g, S \ {a}) = SumFunctionOnSet(f, S \ {a})
  BY <1>1, SumSame
<1>6. SumFunctionOnSet(f, S \ {a}) \in Int
  BY <1>1, SumType
<1> DEFINE r == SumFunctionOnSet(f, S \ {a})
<1>7. r \in Int /\ f[a] \in Int /\ g[a] \in Int
      /\ SumFunctionOnSet(f, S) = f[a] + r /\ SumFunctionOnSet(g, S) = g[a] + r
  BY <1>3, <1>4, <1>5, <1>6
<1> HIDE DEF r
<1> QED BY <1>7

\* The same with an element that is new, or gone.
LEMMA SumGrows ==
  ASSUME NEW f, NEW g, NEW S, IsFiniteSet(S), \A x \in S : f[x] \in Int /\ g[x] = f[x],
         NEW a, a \notin S, g[a] \in Int
  PROVE  SumFunctionOnSet(g, S \cup {a}) = SumFunctionOnSet(f, S) + g[a]
<1>1. SumFunctionOnSet(g, S \cup {a}) = g[a] + SumFunctionOnSet(g, S)
  BY SumAdd
<1>2. SumFunctionOnSet(g, S) = SumFunctionOnSet(f, S)
  BY SumSame
<1>3. SumFunctionOnSet(f, S) \in Int
  BY SumType
<1> QED BY <1>1, <1>2, <1>3

LEMMA SumShrinks ==
  ASSUME NEW f, NEW g, NEW S, IsFiniteSet(S), \A x \in S : f[x] \in Int,
         NEW a \in S, \A x \in S \ {a} : g[x] = f[x]
  PROVE  SumFunctionOnSet(g, S \ {a}) = SumFunctionOnSet(f, S) - f[a]
<1>1. IsFiniteSet(S \ {a})
  BY FS_RemoveElement
<1>2. SumFunctionOnSet(f, S) = f[a] + SumFunctionOnSet(f, S \ {a})
  BY SumRemove
<1>3. SumFunctionOnSet(g, S \ {a}) = SumFunctionOnSet(f, S \ {a})
  BY <1>1, SumSame
<1>4. SumFunctionOnSet(f, S \ {a}) \in Int /\ f[a] \in Int
  BY <1>1, SumType
<1> QED BY <1>2, <1>3, <1>4

\* Amounts add up to an amount.
LEMMA SumNat ==
  ASSUME NEW f, NEW S, IsFiniteSet(S), \A x \in S : f[x] \in Nat
  PROVE  SumFunctionOnSet(f, S) \in Nat
<1> DEFINE N == {T \in SUBSET S : SumFunctionOnSet(f, T) \in Nat}
<1>1. {} \in N
  BY SumEmpty
<1>2. ASSUME NEW T \in SUBSET S, NEW x \in S \ T, T \in N
      PROVE  T \cup {x} \in N
  <2>1. IsFiniteSet(T)
    BY FS_Subset
  <2>2. SumFunctionOnSet(f, T \cup {x}) = f[x] + SumFunctionOnSet(f, T)
    BY <2>1, SumAdd
  <2>3. SumFunctionOnSet(f, T) \in Nat /\ f[x] \in Nat
    BY <1>2
  <2> QED BY <2>2, <2>3
<1> HIDE DEF N
<1>3. SUBSET S \subseteq N
  BY <1>1, <1>2, SetInductionInSet
<1> QED BY <1>3 DEF N

\* No amount exceeds the sum it is part of.
LEMMA SumPart ==
  ASSUME NEW f, NEW S, IsFiniteSet(S), \A x \in S : f[x] \in Nat, NEW a \in S
  PROVE  f[a] <= SumFunctionOnSet(f, S)
<1>1. IsFiniteSet(S \ {a})
  BY FS_RemoveElement
<1>2. SumFunctionOnSet(f, S \ {a}) \in Nat
  BY <1>1, SumNat
<1>3. SumFunctionOnSet(f, S) = f[a] + SumFunctionOnSet(f, S \ {a})
  BY SumRemove
<1>4. f[a] \in Nat
  OBVIOUS
<1> QED BY <1>2, <1>3, <1>4
=============================================================================
