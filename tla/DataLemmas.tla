------------------------------ MODULE DataLemmas ------------------------------
(****************************************************************************)
(* Facts about the data of the models that their proofs share.              *)
(*                                                                          *)
(* Sums: the community modules' sum of a function over a finite set, which  *)
(* the models use for what a contract owes, what a book has filled and what *)
(* a pool has lent. The sum is a recursive function on the subsets of the   *)
(* set, that takes its elements in the order in which CHOOSE picks them;    *)
(* the lemmas say that the order does not matter, and what one more element *)
(* or one other value does to the sum.                                      *)
(*                                                                          *)
(* Sequences: what concatenating, cutting, inserting and keeping some       *)
(* elements does, position by position.                                     *)
(****************************************************************************)
EXTENDS Integers, Functions, FiniteSets, SequencesExt, Subsequence, FiniteSetTheorems,
        SequenceTheorems, WellFoundedInduction, TLAPS

(* Induction, with the property given by the set of those that have it.     *)
LEMMA SetOfNatInduction ==
    ASSUME NEW T, 0 \in T, \A n \in Nat : n \in T => n + 1 \in T
    PROVE  Nat \subseteq T
<1> DEFINE R == {p \in Nat \X Nat : p[1] < p[2]}
           F == Nat \ T
<1> SUFFICES ASSUME F # {} PROVE FALSE
  OBVIOUS
<1>1. IsWellFoundedOn(R, Nat)
  BY NatLessThanWellFounded DEF OpToRel
<1>2. F \subseteq Nat
  OBVIOUS
<1>3. PICK x \in F : \A y \in F : <<y, x>> \notin R
  <2> HIDE DEF R, F
  <2> QED BY <1>1, <1>2, WFMin
<1>4. x \in Nat /\ x # 0 /\ x - 1 \in Nat /\ x - 1 < x /\ (x - 1) + 1 = x
  OBVIOUS
<1>5. <<x - 1, x>> \in R
  BY <1>4
<1>6. x - 1 \in T
  BY <1>3, <1>4, <1>5
<1>7. x \in T
  BY <1>4, <1>6
<1> QED BY <1>7

(* A property of the subsets of a finite set that a set has when all        *)
(* smaller subsets have it.                                                 *)
LEMMA SmallerSetsInduction ==
    ASSUME NEW S, IsFiniteSet(S), NEW T,
           \A A \in SUBSET S :
               (\A x \in A : A \ {x} \in T) => A \in T
    PROVE  SUBSET S \subseteq T
<1> DEFINE N == {n \in Nat : \A A \in SUBSET S : Cardinality(A) = n => A \in T}
<1>1. \A A \in SUBSET S : IsFiniteSet(A) /\ Cardinality(A) \in Nat
  BY FS_Subset, FS_CardinalityType
<1>2. 0 \in N
  <2> SUFFICES ASSUME NEW A \in SUBSET S, Cardinality(A) = 0 PROVE A \in T
    OBVIOUS
  <2>1. A = {}
    BY <1>1, FS_EmptySet
  <2> QED BY <2>1
<1>3. ASSUME NEW n \in Nat, n \in N PROVE n + 1 \in N
  <2> SUFFICES ASSUME NEW A \in SUBSET S, Cardinality(A) = n + 1 PROVE A \in T
    OBVIOUS
  <2>1. ASSUME NEW x \in A PROVE A \ {x} \in T
    <3>1. IsFiniteSet(A)
      BY <1>1
    <3>2. Cardinality(A \ {x}) = Cardinality(A) - 1
      BY <3>1, FS_RemoveElement
    <3>3. A \ {x} \in SUBSET S
      OBVIOUS
    <3>4. Cardinality(A \ {x}) = n
      BY <3>2
    <3> QED BY <1>3, <3>3, <3>4
  <2> QED BY <2>1
<1>4. Nat \subseteq N
  <2> HIDE DEF N
  <2> QED BY <1>2, <1>3, SetOfNatInduction
<1> QED
  <2> SUFFICES ASSUME NEW A \in SUBSET S PROVE A \in T
    OBVIOUS
  <2>1. Cardinality(A) \in N
    BY <1>1, <1>4
  <2> QED BY <2>1

-----------------------------------------------------------------------------
(* The recursive function behind SumFunctionOnSet.                          *)
Picked(s) == CHOOSE x \in s : TRUE

IsSumFunction(g, f, D) ==
    g = [s \in D |-> IF s = {} THEN 0 ELSE f[Picked(s)] + g[s \ {Picked(s)}]]

LEMMA SumIsChosen ==
    ASSUME NEW f, NEW S
    PROVE  SumFunctionOnSet(f, S) = (CHOOSE g : IsSumFunction(g, f, SUBSET S))[S]
BY DEF SumFunctionOnSet, FoldFunctionOnSet, MapThenFoldSet, IsSumFunction, Picked

LEMMA PickedIn ==
    ASSUME NEW s, s # {} PROVE Picked(s) \in s
BY DEF Picked

(* There is such a function on the subsets of up to k elements, for every k *)
(* and so on all subsets of a finite set.                                   *)
LEMMA SumFunctionExists ==
    ASSUME NEW f, NEW S, IsFiniteSet(S)
    PROVE  \E g : IsSumFunction(g, f, SUBSET S)
<1> DEFINE Small(k) == {s \in SUBSET S : Cardinality(s) <= k}
           Exists(k) == \E g : IsSumFunction(g, f, Small(k))
           N == {k \in Nat : Exists(k)}
<1>1. \A s \in SUBSET S : IsFiniteSet(s) /\ Cardinality(s) \in Nat
  BY FS_Subset, FS_CardinalityType
<1>2. 0 \in N
  <2> DEFINE g == [s \in Small(0) |-> 0]
  <2>1. \A s \in Small(0) : s = {}
    BY <1>1, FS_EmptySet
  <2>2. g = [s \in Small(0) |-> IF s = {} THEN 0 ELSE f[Picked(s)] + g[s \ {Picked(s)}]]
    BY <2>1
  <2>3. IsSumFunction(g, f, Small(0))
    BY <2>2 DEF IsSumFunction
  <2> QED BY <2>3
<1>3. ASSUME NEW k \in Nat, k \in N PROVE k + 1 \in N
  <2>1. PICK g : IsSumFunction(g, f, Small(k))
    BY <1>3
  <2> DEFINE Value(h, s) == IF s = {} THEN 0 ELSE f[Picked(s)] + h[s \ {Picked(s)}]
             h == [s \in Small(k + 1) |-> Value(g, s)]
  <2>2. \A s \in Small(k + 1) : s # {} => s \ {Picked(s)} \in Small(k)
    <3> SUFFICES ASSUME NEW s \in Small(k + 1), s # {} PROVE s \ {Picked(s)} \in Small(k)
      OBVIOUS
    <3>1. Picked(s) \in s
      BY PickedIn
    <3>2. Cardinality(s \ {Picked(s)}) = Cardinality(s) - 1
      BY <1>1, <3>1, FS_RemoveElement
    <3> QED BY <1>1, <3>2
  <2>3. \A s \in Small(k) : s \in Small(k + 1)
    BY <1>1
  <2>4. \A s \in Small(k) : g[s] = Value(g, s)
    BY <2>1 DEF IsSumFunction
  <2>5. \A s \in Small(k) : h[s] = g[s]
    BY <2>3, <2>4
  <2>6. \A s \in Small(k + 1) : Value(g, s) = Value(h, s)
    <3> SUFFICES ASSUME NEW s \in Small(k + 1), s # {}
                 PROVE  g[s \ {Picked(s)}] = h[s \ {Picked(s)}]
      OBVIOUS
    <3> QED BY <2>2, <2>5
  <2>7. h = [s \in Small(k + 1) |-> Value(h, s)]
    BY <2>6
  <2>8. IsSumFunction(h, f, Small(k + 1))
    BY <2>7 DEF IsSumFunction
  <2>9. Exists(k + 1)
    <3> HIDE DEF h
    <3> QED BY <2>8
  <2> HIDE DEF Exists
  <2> QED BY <2>9
<1>4. Nat \subseteq N
  <2> HIDE DEF N
  <2> QED BY <1>2, <1>3, SetOfNatInduction
<1>5. Cardinality(S) \in N
  BY <1>1, <1>4
<1>6. SUBSET S = Small(Cardinality(S))
  <2>1. \A s \in SUBSET S : Cardinality(s) <= Cardinality(S)
    BY FS_Subset
  <2> QED BY <2>1
<1> QED BY <1>5, <1>6

(* The function on a smaller domain is the restriction of the larger one.   *)
LEMMA SumFunctionUnique ==
    ASSUME NEW f, NEW S, NEW T, IsFiniteSet(S), T \subseteq S,
           NEW g, NEW h, IsSumFunction(g, f, SUBSET S), IsSumFunction(h, f, SUBSET T)
    PROVE  g[T] = h[T]
<1> DEFINE E == {s \in SUBSET T : g[s] = h[s]}
<1>1. ASSUME NEW A \in SUBSET T, \A x \in A : A \ {x} \in E PROVE A \in E
  <2>1. CASE A = {}
    BY <2>1 DEF IsSumFunction
  <2>2. CASE A # {}
    <3>1. Picked(A) \in A
      BY <2>2, PickedIn
    <3>2. g[A \ {Picked(A)}] = h[A \ {Picked(A)}]
      BY <1>1, <3>1
    <3>3. g[A] = f[Picked(A)] + g[A \ {Picked(A)}]
      BY <2>2 DEF IsSumFunction
    <3>4. h[A] = f[Picked(A)] + h[A \ {Picked(A)}]
      BY <2>2 DEF IsSumFunction
    <3> QED BY <3>2, <3>3, <3>4
  <2> QED BY <2>1, <2>2
<1>2. IsFiniteSet(T)
  BY FS_Subset
<1>3. SUBSET T \subseteq E
  <2> HIDE DEF E
  <2> QED BY <1>1, <1>2, SmallerSetsInduction
<1> QED BY <1>3

(* The sum over the empty set, and over a set with the picked one out.      *)
LEMMA SumEmpty ==
    ASSUME NEW f PROVE SumFunctionOnSet(f, {}) = 0
<1>1. PICK g : IsSumFunction(g, f, SUBSET {})
  BY SumFunctionExists, FS_EmptySet
<1>2. IsSumFunction((CHOOSE h : IsSumFunction(h, f, SUBSET {})), f, SUBSET {})
  BY <1>1
<1> QED BY <1>2, SumIsChosen DEF IsSumFunction

LEMMA SumPicked ==
    ASSUME NEW f, NEW S, IsFiniteSet(S), S # {}
    PROVE  /\ Picked(S) \in S
           /\ SumFunctionOnSet(f, S) = f[Picked(S)] + SumFunctionOnSet(f, S \ {Picked(S)})
<1> DEFINE T == S \ {Picked(S)}
           g == CHOOSE h : IsSumFunction(h, f, SUBSET S)
           h == CHOOSE k : IsSumFunction(k, f, SUBSET T)
<1>1. IsFiniteSet(T)
  BY FS_Subset
<1>2. IsSumFunction(g, f, SUBSET S)
  BY SumFunctionExists
<1>3. IsSumFunction(h, f, SUBSET T)
  BY <1>1, SumFunctionExists
<1>4. g[T] = h[T]
  <2>1. T \subseteq S
    OBVIOUS
  <2>2. \A a, b : IsSumFunction(a, f, SUBSET S) /\ IsSumFunction(b, f, SUBSET T) => a[T] = b[T]
    <3> HIDE DEF T
    <3> QED BY <2>1, SumFunctionUnique
  <2> HIDE DEF g, h, T
  <2> QED BY Zenon, <1>2, <1>3, <2>2
<1>5. g[S] = f[Picked(S)] + g[T]
  <2> HIDE DEF g, h
  <2> QED BY <1>2 DEF IsSumFunction
<1>6. SumFunctionOnSet(f, S) = g[S] /\ SumFunctionOnSet(f, T) = h[T]
  BY SumIsChosen
<1> QED BY <1>4, <1>5, <1>6, PickedIn

-----------------------------------------------------------------------------
(* A sum of integers is an integer, and of naturals a natural.              *)
LEMMA SumInt ==
    ASSUME NEW f, NEW S, IsFiniteSet(S), \A x \in S : f[x] \in Int
    PROVE  SumFunctionOnSet(f, S) \in Int
<1> DEFINE E == {A \in SUBSET S : SumFunctionOnSet(f, A) \in Int}
<1>1. ASSUME NEW A \in SUBSET S, \A x \in A : A \ {x} \in E PROVE A \in E
  <2>1. CASE A = {}
    BY <2>1, SumEmpty
  <2>2. CASE A # {}
    <3>1. IsFiniteSet(A)
      BY FS_Subset
    <3>2. /\ Picked(A) \in A
          /\ SumFunctionOnSet(f, A) = f[Picked(A)] + SumFunctionOnSet(f, A \ {Picked(A)})
      BY <2>2, <3>1, SumPicked
    <3>3. f[Picked(A)] \in Int /\ SumFunctionOnSet(f, A \ {Picked(A)}) \in Int
      BY <1>1, <3>2
    <3>4. SumFunctionOnSet(f, A) \in Int
      BY <3>2, <3>3
    <3> QED BY <3>4
  <2> QED BY <2>1, <2>2
<1>2. SUBSET S \subseteq E
  <2> HIDE DEF E
  <2> QED BY <1>1, SmallerSetsInduction
<1> QED BY <1>2

LEMMA SumNat ==
    ASSUME NEW f, NEW S, IsFiniteSet(S), \A x \in S : f[x] \in Nat
    PROVE  SumFunctionOnSet(f, S) \in Nat
<1> DEFINE E == {A \in SUBSET S : SumFunctionOnSet(f, A) \in Nat}
<1>1. ASSUME NEW A \in SUBSET S, \A x \in A : A \ {x} \in E PROVE A \in E
  <2>1. CASE A = {}
    BY <2>1, SumEmpty
  <2>2. CASE A # {}
    <3>1. IsFiniteSet(A)
      BY FS_Subset
    <3>2. /\ Picked(A) \in A
          /\ SumFunctionOnSet(f, A) = f[Picked(A)] + SumFunctionOnSet(f, A \ {Picked(A)})
      BY <2>2, <3>1, SumPicked
    <3>3. f[Picked(A)] \in Nat /\ SumFunctionOnSet(f, A \ {Picked(A)}) \in Nat
      BY <1>1, <3>2
    <3>4. SumFunctionOnSet(f, A) \in Nat
      BY <3>2, <3>3
    <3> QED BY <3>4
  <2> QED BY <2>1, <2>2
<1>2. SUBSET S \subseteq E
  <2> HIDE DEF E
  <2> QED BY <1>1, SmallerSetsInduction
<1> QED BY <1>2

(* Any element may be taken out first.                                      *)
LEMMA SumElement ==
    ASSUME NEW f, NEW S, IsFiniteSet(S), \A x \in S : f[x] \in Int, NEW e \in S
    PROVE  SumFunctionOnSet(f, S) = f[e] + SumFunctionOnSet(f, S \ {e})
<1> DEFINE E == {A \in SUBSET S : \A x \in A :
                    SumFunctionOnSet(f, A) = f[x] + SumFunctionOnSet(f, A \ {x})}
<1>0. \A A \in SUBSET S : IsFiniteSet(A) /\ SumFunctionOnSet(f, A) \in Int
  <2> SUFFICES ASSUME NEW A \in SUBSET S
               PROVE  IsFiniteSet(A) /\ SumFunctionOnSet(f, A) \in Int
    OBVIOUS
  <2>1. IsFiniteSet(A) /\ \A x \in A : f[x] \in Int
    BY FS_Subset
  <2> QED BY <2>1, SumInt
<1>1. ASSUME NEW A \in SUBSET S, \A x \in A : A \ {x} \in E PROVE A \in E
  <2> SUFFICES ASSUME NEW x \in A
               PROVE  SumFunctionOnSet(f, A) = f[x] + SumFunctionOnSet(f, A \ {x})
    OBVIOUS
  <2> DEFINE c == Picked(A)
  <2>1. c \in A /\ SumFunctionOnSet(f, A) = f[c] + SumFunctionOnSet(f, A \ {c})
    BY <1>0, SumPicked
  <2>2. CASE x = c
    BY <2>1, <2>2
  <2>3. CASE x # c
    <3>1. SumFunctionOnSet(f, A \ {c}) = f[x] + SumFunctionOnSet(f, (A \ {c}) \ {x})
      BY <1>1, <2>1, <2>3
    <3>2. SumFunctionOnSet(f, A \ {x}) = f[c] + SumFunctionOnSet(f, (A \ {x}) \ {c})
      BY <1>1, <2>1, <2>3
    <3>3. (A \ {c}) \ {x} = (A \ {x}) \ {c}
      OBVIOUS
    <3>4. f[x] \in Int /\ f[c] \in Int /\ SumFunctionOnSet(f, (A \ {x}) \ {c}) \in Int
      BY <1>0, <2>1
    <3>5. \A p, q, r \in Int : p + (q + r) = q + (p + r)
      OBVIOUS
    <3> DEFINE r == SumFunctionOnSet(f, (A \ {x}) \ {c})
    <3>6. SumFunctionOnSet(f, A) = f[c] + (f[x] + r)
      BY Zenon, <2>1, <3>1, <3>3
    <3>7. f[x] + SumFunctionOnSet(f, A \ {x}) = f[x] + (f[c] + r)
      BY Zenon, <3>2
    <3>8. f[x] + (f[c] + r) = f[c] + (f[x] + r)
      BY Zenon, <3>4, <3>5
    <3> QED BY Zenon, <3>6, <3>7, <3>8
  <2> QED BY <2>2, <2>3
<1>2. SUBSET S \subseteq E
  <2> HIDE DEF E
  <2> QED BY <1>1, SmallerSetsInduction
<1> QED BY <1>2

(* The sum over a front of the positions, one further.                       *)
LEMMA SumOfFront ==
    ASSUME NEW f, NEW i \in Nat \ {0}, \A k \in 1 .. i : f[k] \in Nat
    PROVE  /\ SumFunctionOnSet(f, 1 .. i) = f[i] + SumFunctionOnSet(f, 1 .. (i - 1))
           /\ SumFunctionOnSet(f, 1 .. i) \in Nat
           /\ SumFunctionOnSet(f, 1 .. (i - 1)) \in Nat
<1> DEFINE A == 1 .. i
           B == 1 .. (i - 1)
<1>1. i \in A /\ A \ {i} = B
  OBVIOUS
<1>2. IsFiniteSet(A) /\ IsFiniteSet(B)
  <2>1. i - 1 \in Int /\ i \in Int /\ 1 \in Int
    OBVIOUS
  <2> QED BY <2>1, FS_Interval
<1>3. \A k \in A : f[k] \in Nat /\ f[k] \in Int
  OBVIOUS
<1>4. \A k \in B : f[k] \in Nat
  OBVIOUS
<1> HIDE DEF A, B
<1>5. SumFunctionOnSet(f, A) = f[i] + SumFunctionOnSet(f, A \ {i})
  BY <1>1, <1>2, <1>3, SumElement
<1>6. SumFunctionOnSet(f, A) \in Nat /\ SumFunctionOnSet(f, B) \in Nat
  BY <1>2, <1>3, <1>4, SumNat
<1> QED BY Zenon, <1>1, <1>5, <1>6 DEF A, B

(* Functions that agree on the set have the same sum over it.               *)
LEMMA SumEqual ==
    ASSUME NEW f, NEW g, NEW S, IsFiniteSet(S), \A x \in S : f[x] = g[x]
    PROVE  SumFunctionOnSet(f, S) = SumFunctionOnSet(g, S)
<1> DEFINE E == {A \in SUBSET S : SumFunctionOnSet(f, A) = SumFunctionOnSet(g, A)}
<1>1. ASSUME NEW A \in SUBSET S, \A x \in A : A \ {x} \in E PROVE A \in E
  <2>1. CASE A = {}
    BY <2>1, SumEmpty
  <2>2. CASE A # {}
    <3>1. IsFiniteSet(A)
      BY FS_Subset
    <3>2. /\ Picked(A) \in A
          /\ SumFunctionOnSet(f, A) = f[Picked(A)] + SumFunctionOnSet(f, A \ {Picked(A)})
          /\ SumFunctionOnSet(g, A) = g[Picked(A)] + SumFunctionOnSet(g, A \ {Picked(A)})
      BY <2>2, <3>1, SumPicked
    <3>3. f[Picked(A)] = g[Picked(A)]
      BY <3>2
    <3>4. SumFunctionOnSet(f, A \ {Picked(A)}) = SumFunctionOnSet(g, A \ {Picked(A)})
      BY <1>1, <3>2
    <3> QED BY <3>2, <3>3, <3>4
  <2> QED BY <2>1, <2>2
<1>2. SUBSET S \subseteq E
  <2> HIDE DEF E
  <2> QED BY <1>1, SmallerSetsInduction
<1> QED BY <1>2

(* Changing the function at one place changes the sum by as much.           *)
LEMMA SumChange ==
    ASSUME NEW f, NEW g, NEW S, IsFiniteSet(S), NEW e \in S,
           \A x \in S : f[x] \in Int /\ g[x] \in Int,
           \A x \in S \ {e} : f[x] = g[x]
    PROVE  SumFunctionOnSet(g, S) = SumFunctionOnSet(f, S) + (g[e] - f[e])
<1>1. SumFunctionOnSet(f, S) = f[e] + SumFunctionOnSet(f, S \ {e})
  BY SumElement
<1>2. SumFunctionOnSet(g, S) = g[e] + SumFunctionOnSet(g, S \ {e})
  BY SumElement
<1>3. IsFiniteSet(S \ {e})
  BY FS_Subset
<1>4. SumFunctionOnSet(f, S \ {e}) = SumFunctionOnSet(g, S \ {e})
  BY <1>3, SumEqual
<1>5. SumFunctionOnSet(f, S \ {e}) \in Int
  BY <1>3, SumInt
<1> QED BY <1>1, <1>2, <1>4, <1>5

(* Changing it at two places.                                               *)
LEMMA SumChangeTwo ==
    ASSUME NEW f, NEW g, NEW S, IsFiniteSet(S), NEW d \in S, NEW e \in S, d # e,
           \A x \in S : f[x] \in Int /\ g[x] \in Int,
           \A x \in S \ {d, e} : f[x] = g[x]
    PROVE  SumFunctionOnSet(g, S) = SumFunctionOnSet(f, S) + (g[d] - f[d]) + (g[e] - f[e])
<1> DEFINE h == [x \in S |-> IF x = d THEN g[x] ELSE f[x]]
<1>1. SumFunctionOnSet(h, S) = SumFunctionOnSet(f, S) + (h[d] - f[d])
  <2>1. \A x \in S : h[x] \in Int
    OBVIOUS
  <2>2. \A x \in S \ {d} : f[x] = h[x]
    OBVIOUS
  <2> HIDE DEF h
  <2> QED BY <2>1, <2>2, SumChange
<1>2. SumFunctionOnSet(g, S) = SumFunctionOnSet(h, S) + (g[e] - h[e])
  <2>1. \A x \in S : h[x] \in Int
    OBVIOUS
  <2>2. \A x \in S \ {e} : h[x] = g[x]
    OBVIOUS
  <2> HIDE DEF h
  <2> QED BY <2>1, <2>2, SumChange
<1>3. h[d] = g[d] /\ h[e] = f[e]
  OBVIOUS
<1>4. SumFunctionOnSet(f, S) \in Int
  BY SumInt
<1> HIDE DEF h
<1> QED BY <1>1, <1>2, <1>3, <1>4

(* A sum of zeros.                                                          *)
LEMMA SumZero ==
    ASSUME NEW f, NEW S, IsFiniteSet(S), \A x \in S : f[x] = 0
    PROVE  SumFunctionOnSet(f, S) = 0
<1> DEFINE E == {A \in SUBSET S : SumFunctionOnSet(f, A) = 0}
<1>1. ASSUME NEW A \in SUBSET S, \A x \in A : A \ {x} \in E PROVE A \in E
  <2>1. CASE A = {}
    BY <2>1, SumEmpty
  <2>2. CASE A # {}
    <3>1. IsFiniteSet(A)
      BY FS_Subset
    <3>2. /\ Picked(A) \in A
          /\ SumFunctionOnSet(f, A) = f[Picked(A)] + SumFunctionOnSet(f, A \ {Picked(A)})
      BY <2>2, <3>1, SumPicked
    <3>3. f[Picked(A)] = 0 /\ SumFunctionOnSet(f, A \ {Picked(A)}) = 0
      BY <1>1, <3>2
    <3>4. SumFunctionOnSet(f, A) = 0
      BY <3>2, <3>3
    <3> QED BY <3>4
  <2> QED BY <2>1, <2>2
<1>2. SUBSET S \subseteq E
  <2> HIDE DEF E
  <2> QED BY <1>1, SmallerSetsInduction
<1> QED BY <1>2

(* A sum of naturals over a subset is at most the sum over the set.         *)
LEMMA SumSubset ==
    ASSUME NEW f, NEW S, IsFiniteSet(S), NEW T \in SUBSET S, \A x \in S : f[x] \in Nat
    PROVE  SumFunctionOnSet(f, T) <= SumFunctionOnSet(f, S)
<1> DEFINE E == {A \in SUBSET S :
                    SumFunctionOnSet(f, A \cap T) <= SumFunctionOnSet(f, A)}
<1>0. \A A \in SUBSET S : IsFiniteSet(A) /\ SumFunctionOnSet(f, A) \in Nat
  <2> SUFFICES ASSUME NEW A \in SUBSET S
               PROVE  IsFiniteSet(A) /\ SumFunctionOnSet(f, A) \in Nat
    OBVIOUS
  <2>1. IsFiniteSet(A) /\ \A x \in A : f[x] \in Nat
    BY FS_Subset
  <2> QED BY <2>1, SumNat
<1>1. ASSUME NEW A \in SUBSET S, \A x \in A : A \ {x} \in E PROVE A \in E
  <2>1. CASE A \subseteq T
    <3>1. A \cap T = A
      BY <2>1
    <3> QED BY <1>0, <3>1
  <2>2. CASE ~(A \subseteq T)
    <3>1. PICK x \in A : x \notin T
      BY <2>2
    <3>2. (A \ {x}) \cap T = A \cap T
      BY <3>1
    <3>3. SumFunctionOnSet(f, A \cap T) <= SumFunctionOnSet(f, A \ {x})
      BY <1>1, <3>2
    <3>4. SumFunctionOnSet(f, A) = f[x] + SumFunctionOnSet(f, A \ {x})
      BY <1>0, SumElement
    <3>5. /\ f[x] \in Nat /\ SumFunctionOnSet(f, A \ {x}) \in Nat
          /\ SumFunctionOnSet(f, A \cap T) \in Nat /\ SumFunctionOnSet(f, A) \in Nat
      BY <1>0
    <3>6. SumFunctionOnSet(f, A \cap T) <= SumFunctionOnSet(f, A)
      BY <3>3, <3>4, <3>5
    <3> QED BY <3>6
  <2> QED BY <2>1, <2>2
<1>2. SUBSET S \subseteq E
  <2> HIDE DEF E
  <2> QED BY <1>1, SmallerSetsInduction
<1>3. S \cap T = T
  OBVIOUS
<1> QED BY <1>2, <1>3

(* Multiplication, for the shares below.                                    *)
LEMMA Distribute ==
    ASSUME NEW n \in Int, NEW a \in Int, NEW b \in Int
    PROVE  n * (a + b) = n * a + n * b
OBVIOUS

LEMMA CancelFactor ==
    ASSUME NEW n \in Nat \ {0}, NEW a \in Int, NEW b \in Int, n * a <= n * b
    PROVE  a <= b
<1> SUFFICES ASSUME a > b PROVE FALSE
  OBVIOUS
<1>1. PICK c \in Nat : a = b + (1 + c)
  <2>1. a = b + (1 + (a - b - 1)) /\ a - b - 1 \in Nat
    OBVIOUS
  <2> QED BY <2>1
<1>2. n * a = n * b + n * (1 + c)
  BY <1>1, Distribute
<1>3. n * (1 + c) = n + n * c
  <2>1. n * (1 + c) = n * 1 + n * c
    BY Distribute
  <2> QED BY <2>1
<1>4. n * c \in Nat /\ n * b \in Int
  OBVIOUS
<1> QED BY <1>2, <1>3, <1>4

(* When each f[x] loses at most its r-th of n, so does the sum.             *)
LEMMA SumShare ==
    ASSUME NEW f, NEW g, NEW S, IsFiniteSet(S), \A x \in S : f[x] \in Nat /\ g[x] \in Nat,
           NEW n \in Nat, NEW r \in Nat, \A x \in S : n * (f[x] - g[x]) <= r * f[x]
    PROVE  n * (SumFunctionOnSet(f, S) - SumFunctionOnSet(g, S)) <= r * SumFunctionOnSet(f, S)
<1> DEFINE F(A) == SumFunctionOnSet(f, A)
           G(A) == SumFunctionOnSet(g, A)
           E == {A \in SUBSET S : n * (F(A) - G(A)) <= r * F(A)}
<1>0. \A A \in SUBSET S : IsFiniteSet(A) /\ F(A) \in Nat /\ G(A) \in Nat
  <2> SUFFICES ASSUME NEW A \in SUBSET S PROVE IsFiniteSet(A) /\ F(A) \in Nat /\ G(A) \in Nat
    OBVIOUS
  <2>1. IsFiniteSet(A) /\ (\A x \in A : f[x] \in Nat) /\ (\A x \in A : g[x] \in Nat)
    BY FS_Subset
  <2> QED BY <2>1, SumNat
<1>1. ASSUME NEW A \in SUBSET S, \A x \in A : A \ {x} \in E PROVE A \in E
  <2>1. CASE A = {}
    <3>1. F(A) = 0 /\ G(A) = 0
      BY <2>1, SumEmpty
    <3>2. n * (0 - 0) <= r * 0
      OBVIOUS
    <3> QED BY <3>1, <3>2
  <2>2. CASE A # {}
    <3>1. PICK x \in A : TRUE
      BY <2>2
    <3> DEFINE B == A \ {x}
    <3>2. F(A) = f[x] + F(B) /\ G(A) = g[x] + G(B)
      <4>1. IsFiniteSet(A) /\ (\A y \in A : f[y] \in Int) /\ (\A y \in A : g[y] \in Int)
        BY <1>0
      <4> QED BY <4>1, SumElement
    <3>3. n * (F(B) - G(B)) <= r * F(B)
      BY <1>1
    <3>4. n * (f[x] - g[x]) <= r * f[x]
      OBVIOUS
    <3>5. f[x] \in Nat /\ g[x] \in Nat /\ F(B) \in Nat /\ G(B) \in Nat
      BY <1>0
    <3> HIDE DEF F, G, B
    <3>6. F(A) - G(A) = (f[x] - g[x]) + (F(B) - G(B))
      BY <3>2, <3>5
    <3>7. n * (F(A) - G(A)) = n * (f[x] - g[x]) + n * (F(B) - G(B))
      BY <3>5, <3>6, Distribute
    <3>8. r * F(A) = r * f[x] + r * F(B)
      BY <3>2, <3>5, Distribute
    <3>9. /\ n * (f[x] - g[x]) \in Int /\ n * (F(B) - G(B)) \in Int
          /\ r * f[x] \in Int /\ r * F(B) \in Int
      BY <3>5
    <3> QED BY <3>3, <3>4, <3>7, <3>8, <3>9
  <2> QED BY <2>1, <2>2
<1>2. SUBSET S \subseteq E
  <2> HIDE DEF E
  <2> QED BY <1>1, SmallerSetsInduction
<1> QED BY <1>2

-----------------------------------------------------------------------------
(* Selecting the first or last match of a sequence finds one.               *)
LEMMA MinExists ==
    ASSUME NEW n \in Nat, NEW I \in SUBSET (1 .. n), I # {}
    PROVE  Min(I) \in I /\ \A i \in I : Min(I) <= i
<1>1. \E x \in I : \A y \in I : x <= y
  <2> DEFINE R == {p \in Nat \X Nat : p[1] < p[2]}
  <2>1. IsWellFoundedOn(R, Nat)
    BY NatLessThanWellFounded DEF OpToRel
  <2>2. I \subseteq Nat
    OBVIOUS
  <2>3. PICK x \in I : \A y \in I : <<y, x>> \notin R
    <3> HIDE DEF R
    <3> QED BY <2>1, <2>2, WFMin
  <2>4. \A y \in I : ~(y < x)
    BY <2>2, <2>3
  <2> QED BY <2>2, <2>4
<1> QED BY <1>1 DEF Min
LEMMA MaxExists ==
    ASSUME NEW n \in Nat, NEW I \in SUBSET (1 .. n), I # {}
    PROVE  Max(I) \in I /\ \A i \in I : i <= Max(I)
<1> DEFINE J == {k \in 1 .. n : n + 1 - k \in I}
<1>1. J \in SUBSET (1 .. n) /\ J # {}
  <2>1. PICK i \in I : TRUE
    OBVIOUS
  <2>2. n + 1 - i \in J
    <3>1. n + 1 - (n + 1 - i) = i
      OBVIOUS
    <3> QED BY <3>1
  <2> QED BY <2>2
<1>2. Min(J) \in J /\ \A k \in J : Min(J) <= k
  BY <1>1, MinExists
<1>3. n + 1 - Min(J) \in I
  BY <1>2
<1>4. \A i \in I : i <= n + 1 - Min(J)
  <2> TAKE i \in I
  <2>1. n + 1 - (n + 1 - i) = i
    OBVIOUS
  <2>2. n + 1 - i \in J
    BY <2>1
  <2> QED BY <1>2, <2>2
<1>5. \E x \in I : \A y \in I : x >= y
  BY <1>2, <1>3, <1>4
<1> QED BY <1>5 DEF Max

(* Concatenation, prefixes and suffixes, in the form used below.            *)
LEMMA Concatenation ==
    ASSUME NEW S, NEW a \in Seq(S), NEW b \in Seq(S)
    PROVE  /\ a \o b \in Seq(S)
           /\ Len(a \o b) = Len(a) + Len(b)
           /\ \A i \in 1 .. Len(a) : (a \o b)[i] = a[i]
           /\ \A i \in 1 .. Len(b) : (a \o b)[Len(a) + i] = b[i]
<1>1. Len(a) \in Nat /\ Len(b) \in Nat
  BY LenProperties
<1>2. /\ a \o b \in Seq(S)
      /\ Len(a \o b) = Len(a) + Len(b)
      /\ \A i \in 1 .. Len(a) + Len(b) :
            (a \o b)[i] = IF i <= Len(a) THEN a[i] ELSE b[i - Len(a)]
  BY ConcatProperties
<1>3. ASSUME NEW i \in 1 .. Len(a) PROVE (a \o b)[i] = a[i]
  BY <1>1, <1>2
<1>4. ASSUME NEW i \in 1 .. Len(b) PROVE (a \o b)[Len(a) + i] = b[i]
  <2>1. Len(a) + i \in 1 .. Len(a) + Len(b) /\ ~(Len(a) + i <= Len(a)) /\ Len(a) + i - Len(a) = i
    BY <1>1
  <2> QED BY <1>2, <2>1
<1> QED BY <1>2, <1>3, <1>4

LEMMA Prefix ==
    ASSUME NEW S, NEW s \in Seq(S), NEW n \in 0 .. Len(s)
    PROVE  /\ SubSeq(s, 1, n) \in Seq(S)
           /\ Len(SubSeq(s, 1, n)) = n
           /\ \A i \in 1 .. n : SubSeq(s, 1, n)[i] = s[i]
<1>1. Len(s) \in Nat
  BY LenProperties
<1>2. \A i \in 1 .. n : s[i] \in S
  BY <1>1, ElementOfSeq
<1>3. /\ SubSeq(s, 1, n) \in Seq(S)
      /\ Len(SubSeq(s, 1, n)) = IF 1 <= n THEN n - 1 + 1 ELSE 0
      /\ \A i \in 1 .. n - 1 + 1 : SubSeq(s, 1, n)[i] = s[1 + i - 1]
  BY <1>1, <1>2, SubSeqProperties
<1> QED BY <1>1, <1>3

LEMMA Suffix ==
    ASSUME NEW S, NEW s \in Seq(S), NEW n \in 0 .. Len(s)
    PROVE  /\ SubSeq(s, n + 1, Len(s)) \in Seq(S)
           /\ Len(SubSeq(s, n + 1, Len(s))) = Len(s) - n
           /\ \A i \in 1 .. Len(s) - n : SubSeq(s, n + 1, Len(s))[i] = s[n + i]
<1>1. Len(s) \in Nat
  BY LenProperties
<1>2. \A i \in n + 1 .. Len(s) : s[i] \in S
  BY <1>1, ElementOfSeq
<1>3. /\ SubSeq(s, n + 1, Len(s)) \in Seq(S)
      /\ Len(SubSeq(s, n + 1, Len(s))) = IF n + 1 <= Len(s) THEN Len(s) - (n + 1) + 1 ELSE 0
      /\ \A i \in 1 .. Len(s) - (n + 1) + 1 :
            SubSeq(s, n + 1, Len(s))[i] = s[n + 1 + i - 1]
  BY <1>1, <1>2, SubSeqProperties
<1> QED BY <1>1, <1>3

-----------------------------------------------------------------------------
(* InsertAt puts one order between a prefix and a suffix.                   *)
LEMMA InsertAtPlaces ==
    ASSUME NEW S, NEW s \in Seq(S), NEW e \in S, NEW i \in 1 .. Len(s) + 1
    PROVE  /\ InsertAt(s, i, e) \in Seq(S)
           /\ Len(InsertAt(s, i, e)) = Len(s) + 1
           /\ \A j \in 1 .. Len(s) + 1 : InsertAt(s, i, e)[j] =
                IF j < i THEN s[j] ELSE IF j = i THEN e ELSE s[j - 1]
<1> DEFINE front == SubSeq(s, 1, i - 1)
           one   == <<e>>
           back  == SubSeq(s, i, Len(s))
           first == front \o one
<1>1. Len(s) \in Nat
  BY LenProperties
<1>2. InsertAt(s, i, e) = first \o back
  BY DEF InsertAt
<1>3. /\ front \in Seq(S)
      /\ Len(front) = i - 1
      /\ \A j \in 1 .. i - 1 : front[j] = s[j]
  <2>1. i - 1 \in 0 .. Len(s)
    BY <1>1
  <2> QED BY <2>1, Prefix
<1>4. /\ back \in Seq(S)
      /\ Len(back) = Len(s) - (i - 1)
      /\ \A j \in 1 .. Len(s) - (i - 1) : back[j] = s[i - 1 + j]
  <2>1. i - 1 \in 0 .. Len(s) /\ i - 1 + 1 = i
    BY <1>1
  <2> HIDE DEF back
  <2>2. back = SubSeq(s, i - 1 + 1, Len(s))
    BY <2>1 DEF back
  <2> QED BY <2>1, <2>2, Suffix
<1>5. one \in Seq(S) /\ Len(one) = 1 /\ one[1] = e
  OBVIOUS
<1> HIDE DEF front, one, back
<1>6. /\ first \in Seq(S)
      /\ Len(first) = i
      /\ \A j \in 1 .. i - 1 : first[j] = s[j]
      /\ first[i] = e
  <2>1. /\ first \in Seq(S)
        /\ Len(first) = Len(front) + Len(one)
        /\ \A j \in 1 .. Len(front) : first[j] = front[j]
        /\ \A j \in 1 .. Len(one) : first[Len(front) + j] = one[j]
    <3>1. front \in Seq(S) /\ one \in Seq(S)
      BY <1>3, <1>5
    <3> QED BY <3>1, Concatenation
  <2> HIDE DEF first
  <2> QED BY <1>1, <1>3, <1>5, <2>1
<1> HIDE DEF first
<1>7. /\ first \o back \in Seq(S)
      /\ Len(first \o back) = Len(first) + Len(back)
      /\ \A j \in 1 .. Len(first) : (first \o back)[j] = first[j]
      /\ \A j \in 1 .. Len(back) : (first \o back)[Len(first) + j] = back[j]
  <2>1. first \in Seq(S) /\ back \in Seq(S)
    BY <1>4, <1>6
  <2> QED BY <2>1, Concatenation
<1>8. Len(first \o back) = Len(s) + 1
  BY <1>1, <1>4, <1>6, <1>7
<1>9. ASSUME NEW j \in 1 .. Len(s) + 1
      PROVE  (first \o back)[j] = IF j < i THEN s[j] ELSE IF j = i THEN e ELSE s[j - 1]
  <2>1. CASE j <= i
    BY <2>1, <1>1, <1>6, <1>7
  <2>2. CASE ~(j <= i)
    <3>1. /\ j - i \in 1 .. Len(s) - (i - 1)
          /\ i - 1 + (j - i) = j - 1
          /\ i + (j - i) = j
      BY <2>2, <1>1
    <3>2. (first \o back)[i + (j - i)] = s[i - 1 + (j - i)]
      BY <3>1, <1>4, <1>6, <1>7
    <3>3. (first \o back)[j] = s[j - 1]
      BY <3>1, <3>2
    <3>4. ~(j < i) /\ j # i
      BY <2>2, <1>1
    <3> QED BY <3>3, <3>4
  <2> QED BY <2>1, <2>2
<1> QED BY <1>2, <1>7, <1>8, <1>9

-----------------------------------------------------------------------------
(* In a finite total order the number of elements up to an element numbers  *)
(* the elements in their order, leaving no number out.                      *)
TotalOrder(D, B) ==
    /\ \A i \in D : <<i, i>> \in B
    /\ \A i, j \in D : <<i, j>> \in B \/ <<j, i>> \in B
    /\ \A i, j \in D : <<i, j>> \in B /\ <<j, i>> \in B => i = j
    /\ \A i, j, k \in D : <<i, j>> \in B /\ <<j, k>> \in B => <<i, k>> \in B

Position(D, B) == [i \in D |-> Cardinality({j \in D : <<j, i>> \in B})]

Numbers(D, B, rank) ==
    /\ rank \in [D -> 1 .. Cardinality(D)]
    /\ \A i, j \in D : i # j /\ <<i, j>> \in B => rank[i] < rank[j]
    /\ \A r \in 1 .. Cardinality(D) : \E i \in D : rank[i] = r

(* A set of positions that a total order counts is numbered from 1 on.      *)
LEMMA Numbering ==
    ASSUME NEW D, IsFiniteSet(D), NEW B, TotalOrder(D, B)
    PROVE  Numbers(D, B, Position(D, B))
<1> DEFINE rank == Position(D, B)
<1> DEFINE UpTo(i) == {j \in D : <<j, i>> \in B}
           n == Cardinality(D)
<1>1. n \in Nat
  BY FS_CardinalityType
<1>2. ASSUME NEW i \in D
      PROVE  IsFiniteSet(UpTo(i)) /\ rank[i] = Cardinality(UpTo(i)) /\ rank[i] \in 1 .. n
  <2>1. UpTo(i) \in SUBSET D /\ i \in UpTo(i)
    BY DEF TotalOrder
  <2>2. IsFiniteSet(UpTo(i)) /\ Cardinality(UpTo(i)) <= n
    BY <2>1, FS_Subset
  <2>3. Cardinality(UpTo(i)) \in Nat
    BY <2>2, FS_CardinalityType
  <2>4. Cardinality(UpTo(i)) # 0
    BY <2>1, <2>2, FS_EmptySet
  <2>5. rank[i] = Cardinality(UpTo(i))
    BY DEF Position
  <2> HIDE DEF UpTo, n
  <2> QED BY <1>1, <2>2, <2>3, <2>4, <2>5
<1>3. ASSUME NEW i \in D, NEW j \in D, i # j, <<i, j>> \in B
      PROVE  rank[i] < rank[j]
  <2>1. UpTo(i) \in SUBSET UpTo(j)
    BY <1>3 DEF TotalOrder
  <2>2. UpTo(i) # UpTo(j)
    <3>1. j \in UpTo(j) /\ j \notin UpTo(i)
      BY <1>3 DEF TotalOrder
    <3> QED BY <3>1
  <2>3. /\ IsFiniteSet(UpTo(i)) /\ rank[i] = Cardinality(UpTo(i)) /\ rank[i] \in 1 .. n
        /\ IsFiniteSet(UpTo(j)) /\ rank[j] = Cardinality(UpTo(j)) /\ rank[j] \in 1 .. n
    BY <1>2
  <2> HIDE DEF UpTo, n
  <2>4. /\ Cardinality(UpTo(i)) <= Cardinality(UpTo(j))
        /\ Cardinality(UpTo(j)) = Cardinality(UpTo(i)) => UpTo(j) = UpTo(i)
    BY <2>1, <2>3, FS_Subset
  <2> QED BY <1>1, <2>2, <2>3, <2>4
<1>4. rank \in [D -> 1 .. n]
  <2>1. DOMAIN rank = D /\ rank = [i \in D |-> rank[i]]
    BY DEF Position
  <2> HIDE DEF rank, n
  <2> QED BY <1>2, <2>1
<1>5. rank \in Injection(D, 1 .. n)
  <2>1. ASSUME NEW i \in D, NEW j \in D, rank[i] = rank[j], i # j PROVE FALSE
    <3>1. rank[i] < rank[j] \/ rank[j] < rank[i]
      BY <1>3, <2>1 DEF TotalOrder
    <3>2. rank[i] \in 1 .. n /\ rank[j] \in 1 .. n
      BY <1>4
    <3> HIDE DEF n
    <3> QED BY <1>1, <2>1, <3>1, <3>2
  <2>2. DOMAIN rank = D
    BY DEF Position
  <2>3. IsInjective(rank)
    BY <2>1, <2>2, Zenon DEF IsInjective
  <2> HIDE DEF n
  <2> QED BY <1>4, <2>3, Zenon DEF Injection
<1>6. rank \in Surjection(D, 1 .. n)
  <2>1. IsFiniteSet(1 .. n) /\ Cardinality(1 .. n) = n
    BY <1>1, FS_Interval
  <2>2. DEFINE T == 1 .. n
  <2>3. rank \in Injection(D, T) /\ IsFiniteSet(T) /\ Cardinality(D) = Cardinality(T)
    BY <1>5, <2>1
  <2> HIDE DEF T
  <2>4. rank \in Surjection(D, T)
    BY <2>3, FS_Injection
  <2> QED BY <2>4 DEF T
<1>7. \A r \in 1 .. n : \E i \in D : rank[i] = r
  BY <1>6 DEF Surjection
<1> HIDE DEF rank, n
<1> QED BY <1>3, <1>4, <1>7 DEF Numbers, rank, n

(* KeepAt lists the kept positions in increasing order.                     *)
SelectedBy(s, r, keep, f) ==
    /\ f \in [1 .. Len(r) -> keep]
    /\ \A j \in 1 .. Len(r) : r[j] = s[f[j]]
    /\ \A j, k \in 1 .. Len(r) : j < k => f[j] < f[k]
    /\ \A i \in keep : \E j \in 1 .. Len(r) : f[j] = i

(* KeepAt returns the kept orders, each once, in the order they had.        *)
LEMMA KeepAtSelects ==
    ASSUME NEW S, NEW s \in Seq(S), NEW keep \in SUBSET (1 .. Len(s))
    PROVE  /\ KeepAt(s, keep) \in Seq(S)
           /\ Len(KeepAt(s, keep)) <= Len(s)
           /\ \E f : SelectedBy(s, KeepAt(s, keep), keep, f)
<1> DEFINE n    == Cardinality(keep)
           B    == {p \in keep \X keep : p[1] <= p[2]}
           rank == [i \in keep |-> Cardinality({k \in keep : k <= i})]
           At(j) == CHOOSE i \in keep : Cardinality({k \in keep : k <= i}) = j
           f    == [j \in 1 .. n |-> At(j)]
<1>1. Len(s) \in Nat
  BY LenProperties
<1>2. IsFiniteSet(keep) /\ n \in Nat /\ n <= Len(s)
  <2>1. IsFiniteSet(1 .. Len(s)) /\ Cardinality(1 .. Len(s)) = Len(s)
    BY <1>1, FS_Interval
  <2>2. IsFiniteSet(keep) /\ n <= Cardinality(1 .. Len(s))
    BY <2>1, FS_Subset
  <2> QED BY <2>1, <2>2, FS_CardinalityType
<1>3. keep \in SUBSET Nat
  BY <1>1
<1>4. TotalOrder(keep, B)
  BY <1>3 DEF TotalOrder
<1>5. /\ rank \in [keep -> 1 .. n]
      /\ \A i, j \in keep : i # j /\ <<i, j>> \in B => rank[i] < rank[j]
      /\ \A r \in 1 .. n : \E i \in keep : rank[i] = r
  <2>1. \A i \in keep : {k \in keep : <<k, i>> \in B} = {k \in keep : k <= i}
    OBVIOUS
  <2>2. rank = Position(keep, B)
    BY <2>1 DEF Position
  <2>3. IsFiniteSet(keep)
    BY <1>2
  <2> HIDE DEF B, rank
  <2>4. Numbers(keep, B, rank)
    BY <2>2, <2>3, <1>4, Numbering
  <2> QED BY <2>4 DEF Numbers
<1>7. KeepAt(s, keep) = [j \in 1 .. n |-> s[At(j)]]
  BY DEF KeepAt
<1>8. \A j \in 1 .. n : f[j] = At(j) /\ f[j] \in keep /\ rank[f[j]] = j
  <2> TAKE j \in 1 .. n
  <2>1. \E i \in keep : Cardinality({k \in keep : k <= i}) = j
    <3>1. PICK i \in keep : rank[i] = j
      BY <1>5
    <3> QED BY <3>1
  <2>2. At(j) \in keep /\ Cardinality({k \in keep : k <= At(j)}) = j
    BY <2>1
  <2>3. f[j] = At(j)
    OBVIOUS
  <2> HIDE DEF At, f
  <2> QED BY <2>2, <2>3
<1>9. f \in [1 .. n -> keep]
  BY <1>8
<1>10. \A i, j \in keep : i < j => rank[i] < rank[j]
  <2>1. \A i, j \in keep : i < j => i # j /\ <<i, j>> \in B
    BY <1>3
  <2> HIDE DEF B, rank
  <2> QED BY <1>5, <2>1
<1> HIDE DEF rank, f, At
<1>11. ASSUME NEW j \in 1 .. n, NEW k \in 1 .. n, j < k PROVE f[j] < f[k]
  <2>1. /\ f[j] \in Nat /\ f[k] \in Nat /\ f[j] \in keep /\ f[k] \in keep
        /\ rank[f[j]] = j /\ rank[f[k]] = k
    BY <1>3, <1>8
  <2>2. f[j] # f[k]
    BY <2>1, <1>11
  <2>3. ~(f[k] < f[j])
    BY <2>1, <1>10, <1>11
  <2> QED BY <2>1, <2>2, <2>3
<1>12. \A j \in 1 .. n : s[f[j]] \in S
  <2>1. \A j \in 1 .. n : f[j] \in 1 .. Len(s)
    BY <1>8
  <2> QED BY <2>1, ElementOfSeq
<1>13. KeepAt(s, keep) \in Seq(S) /\ Len(KeepAt(s, keep)) = n
  <2> DEFINE r == [j \in 1 .. n |-> s[f[j]]]
  <2>1. r \in [1 .. n -> S]
    BY <1>12
  <2> HIDE DEF r, n
  <2>2. r \in Seq(S) /\ Len(r) = n
    BY <1>2, <2>1
  <2>3. KeepAt(s, keep) = r
    BY <1>7, <1>8 DEF r
  <2> QED BY <2>2, <2>3
<1>14. SelectedBy(s, KeepAt(s, keep), keep, f)
  <2>1. \A j \in 1 .. n : KeepAt(s, keep)[j] = s[f[j]]
    BY <1>7, <1>8
  <2>2. ASSUME NEW i \in keep PROVE \E j \in 1 .. n : f[j] = i
    <3>1. PICK j \in 1 .. n : j = rank[i]
      BY <1>5
    <3>2. f[j] \in keep /\ rank[f[j]] = rank[i]
      BY <1>8, <3>1
    <3>3. f[j] \in Nat /\ i \in Nat
      BY <1>3, <3>2
    <3>4. rank[i] \in Nat
      BY <1>2, <3>1
    <3>5. ASSUME NEW x \in keep, NEW y \in keep, rank[x] = rank[y], rank[x] \in Nat
          PROVE  ~(x < y)
      <4>1. x < y => rank[x] < rank[y]
        BY <1>10
      <4> QED BY <3>5, <4>1
    <3>6. ~(f[j] < i) /\ ~(i < f[j])
      BY <3>2, <3>4, <3>5
    <3> QED BY <3>3, <3>6
  <2> HIDE DEF n
  <2> QED BY <1>9, <1>11, <1>13, <2>1, <2>2 DEF SelectedBy
<1> QED BY <1>2, <1>13, <1>14

(* Positions of which everything in front belongs to them are the first.    *)
LEMMA FrontOfPositions ==
    ASSUME NEW n \in Nat, NEW I \in SUBSET (1 .. n),
           \A i \in I : \A j \in 1 .. n : j < i => j \in I
    PROVE  Cardinality(I) \in 0 .. n /\ I = 1 .. Cardinality(I)
<1>1. CASE I = {}
  <2>1. Cardinality(I) = 0
    BY <1>1, FS_EmptySet
  <2> QED BY <1>1, <2>1
<1>2. CASE I # {}
  <2> DEFINE m == Max(I)
  <2>1. m \in I /\ \A i \in I : i <= m
    BY <1>2, MaxExists
  <2> HIDE DEF m
  <2>2. m \in 1 .. n
    BY <2>1
  <2>3. I = 1 .. m
    <3>1. ASSUME NEW i \in I PROVE i \in 1 .. m
      BY <2>1, <2>2
    <3>2. ASSUME NEW j \in 1 .. m PROVE j \in I
      <4>1. j \in 1 .. n /\ (j < m \/ j = m)
        BY <2>2
      <4> QED BY <2>1, <4>1
    <3> QED BY <3>1, <3>2
  <2>4. Cardinality(1 .. m) = m
    BY <2>2, FS_Interval
  <2> QED BY <2>2, <2>3, <2>4
<1> QED BY <1>1, <1>2
================================================================================
