--------------------------- MODULE OrderBookLemmas ---------------------------
(* What the pure steps of OrderBook do to one side of a book, position by   *)
(* position, for books of every length and orders of every kind.            *)
EXTENDS OrderBook, DataLemmas

-----------------------------------------------------------------------------
(* Without cuts out one order with the identifier, if there is one, and     *)
(* moves the orders behind it up by one place.                              *)
CutAt(s, r, k) ==
    /\ k \in 1 .. Len(s)
    /\ Len(r) = Len(s) - 1
    /\ \A j \in 1 .. Len(r) : r[j] = IF j < k THEN s[j] ELSE s[j + 1]

(* Without cuts out one order with the identifier, or finds none.           *)
LEMMA WithoutCuts ==
    ASSUME NEW S, NEW s \in Seq(S), NEW id
    PROVE  /\ Without(s, id) \in Seq(S)
           /\ \/ /\ Without(s, id) = s
                 /\ \A i \in 1 .. Len(s) : s[i].id # id
              \/ \E k \in 1 .. Len(s) : CutAt(s, Without(s, id), k) /\ s[k].id = id
<1> DEFINE I == {i \in 1 .. Len(s) : s[i].id = id}
<1>1. CASE I = {}
  <2>1. \A i \in 1 .. Len(s) : s[i].id # id
    BY <1>1
  <2>2. Without(s, id) = s
    BY <2>1 DEF Without, RemoveFirstMatch
  <2> QED BY <2>1, <2>2
<1>2. CASE I # {}
  <2>0. Len(s) \in Nat
    BY LenProperties
  <2>1. Min(I) \in I
    BY <1>2, <2>0, MinExists
  <2> DEFINE k == Min(I)
             front == SubSeq(s, 1, k - 1)
             back  == SubSeq(s, k + 1, Len(s))
  <2>2. Without(s, id) = front \o back
    BY <1>2 DEF Without, RemoveFirstMatch, RemoveAt, SelectInSeq
  <2>3. k \in 1 .. Len(s) /\ s[k].id = id
    BY <2>1
  <2> HIDE DEF k
  <2>4. /\ front \in Seq(S)
        /\ Len(front) = k - 1
        /\ \A i \in 1 .. k - 1 : front[i] = s[i]
    BY <2>0, <2>3, Prefix
  <2>5. /\ back \in Seq(S)
        /\ Len(back) = Len(s) - k
        /\ \A i \in 1 .. Len(s) - k : back[i] = s[k + i]
    BY <2>0, <2>3, Suffix
  <2> HIDE DEF front, back
  <2>6. /\ front \o back \in Seq(S)
        /\ Len(front \o back) = Len(front) + Len(back)
        /\ \A i \in 1 .. Len(front) : (front \o back)[i] = front[i]
        /\ \A i \in 1 .. Len(back) : (front \o back)[Len(front) + i] = back[i]
    <3>1. front \in Seq(S) /\ back \in Seq(S)
      BY <2>4, <2>5
    <3> QED BY <3>1, Concatenation
  <2>7. ASSUME NEW j \in 1 .. Len(s) - 1
        PROVE  (front \o back)[j] = IF j < k THEN s[j] ELSE s[j + 1]
    <3>1. CASE j < k
      BY <3>1, <2>0, <2>3, <2>4, <2>6
    <3>2. CASE ~(j < k)
      <4>1. /\ j - (k - 1) \in 1 .. Len(s) - k
            /\ k + (j - (k - 1)) = j + 1
            /\ k - 1 + (j - (k - 1)) = j
        BY <3>2, <2>0, <2>3
      <4>2. (front \o back)[k - 1 + (j - (k - 1))] = s[k + (j - (k - 1))]
        BY <4>1, <2>4, <2>5, <2>6
      <4> QED BY <4>1, <4>2, <3>2
    <3> QED BY <3>1, <3>2
  <2>8. Len(front \o back) = Len(s) - 1
    BY <2>0, <2>3, <2>4, <2>5, <2>6
  <2> QED BY <2>2, <2>3, <2>6, <2>7, <2>8 DEF CutAt
<1> QED BY <1>1, <1>2

(* A full side gives up its last order and no other.                        *)
LEMMA EvictWorstCuts ==
    ASSUME NEW S, NEW s \in Seq(S)
    PROVE  /\ EvictWorst(s) \in Seq(S)
           /\ Len(EvictWorst(s)) = IF Len(s) >= MaxOrdersPerPair THEN Len(s) - 1 ELSE Len(s)
           /\ \A j \in 1 .. Len(EvictWorst(s)) : EvictWorst(s)[j] = s[j]
<1>1. CASE Len(s) >= MaxOrdersPerPair
  <2>1. Len(s) \in Nat /\ Len(s) >= 1
    BY <1>1, MaxOrdersPerPairAssumption, LenProperties
  <2>2. EvictWorst(s) = SubSeq(s, 1, Len(s) - 1)
    BY <1>1 DEF EvictWorst, Front
  <2>3. Len(s) - 1 \in 0 .. Len(s)
    BY <2>1
  <2>4. /\ SubSeq(s, 1, Len(s) - 1) \in Seq(S)
        /\ Len(SubSeq(s, 1, Len(s) - 1)) = Len(s) - 1
        /\ \A i \in 1 .. Len(s) - 1 : SubSeq(s, 1, Len(s) - 1)[i] = s[i]
    BY <2>3, Prefix
  <2> QED BY <1>1, <2>2, <2>4
<1>2. CASE ~(Len(s) >= MaxOrdersPerPair)
  BY <1>2 DEF EvictWorst
<1> QED BY <1>1, <1>2

-----------------------------------------------------------------------------
(* InsertOrderSorted puts the order behind the last one it is not ahead of. *)
InsertedAfter(s, e, r, k) ==
    /\ k \in 0 .. Len(s)
    /\ Len(r) = Len(s) + 1
    /\ \A j \in 1 .. Len(r) :
        r[j] = IF j <= k THEN s[j] ELSE IF j = k + 1 THEN e ELSE s[j - 1]
    /\ k > 0 => ~Ahead(e, s[k])
    /\ \A j \in k + 1 .. Len(s) : Ahead(e, s[j])

(* insertOrderSorted stops behind the last order the new one is not ahead   *)
(* of.                                                                      *)
LEMMA InsertOrderSortedPlaces ==
    ASSUME NEW S, NEW s \in Seq(S), NEW e \in S
    PROVE  /\ InsertOrderSorted(s, e) \in Seq(S)
           /\ \E k \in 0 .. Len(s) : InsertedAfter(s, e, InsertOrderSorted(s, e), k)
<1> DEFINE I == {i \in 1 .. Len(s) : ~Ahead(e, s[i])}
           k == IF I # {} THEN Max(I) ELSE 0
<1>0. Len(s) \in Nat
  BY LenProperties
<1>1. /\ k \in 0 .. Len(s)
      /\ k > 0 => ~Ahead(e, s[k])
      /\ \A j \in k + 1 .. Len(s) : Ahead(e, s[j])
  <2>1. CASE I = {}
    BY <2>1, <1>0
  <2>2. CASE I # {}
    <3>1. Max(I) \in I /\ \A i \in I : i <= Max(I)
      BY <2>2, <1>0, MaxExists
    <3>2. k = Max(I)
      BY <2>2
    <3>3. k \in 1 .. Len(s) /\ ~Ahead(e, s[k])
      BY <3>1, <3>2
    <3>4. ASSUME NEW j \in k + 1 .. Len(s), ~Ahead(e, s[j]) PROVE FALSE
      <4>1. j \in I
        BY <3>3, <3>4, <1>0
      <4> QED BY <4>1, <3>1, <3>2, <3>3
    <3> HIDE DEF k
    <3> QED BY <3>3, <3>4, <1>0
  <2> QED BY <2>1, <2>2
<1>2. InsertOrderSorted(s, e) = InsertAt(s, k + 1, e)
  BY DEF InsertOrderSorted, SelectLastInSeq
<1> HIDE DEF k
<1> DEFINE i == k + 1
<1>3. i \in 1 .. Len(s) + 1
  BY <1>0, <1>1
<1>4. /\ InsertAt(s, i, e) \in Seq(S)
      /\ Len(InsertAt(s, i, e)) = Len(s) + 1
      /\ \A j \in 1 .. Len(s) + 1 : InsertAt(s, i, e)[j] =
            IF j < i THEN s[j] ELSE IF j = i THEN e ELSE s[j - 1]
  <2> HIDE DEF i
  <2> QED BY <1>3, InsertAtPlaces
<1>5. \A j \in 1 .. Len(s) + 1 : j < i <=> j <= k
  BY <1>0, <1>1
<1> QED BY <1>1, <1>2, <1>4, <1>5 DEF InsertedAfter

-----------------------------------------------------------------------------
(* Among the orders of one side, being ahead is a strict weak order.        *)
LEMMA AheadIsWeakOrder ==
    ASSUME NEW e \in OrderType, NEW f \in OrderType, NEW g \in OrderType,
           e.side = f.side, f.side = g.side
    PROVE  /\ ~Ahead(e, e)
           /\ Ahead(e, f) => ~Ahead(f, e)
           /\ ~Ahead(e, f) /\ ~Ahead(f, g) => ~Ahead(e, g)
BY DEF Ahead, BetterPrice, OrderType

OneSided(S) == S \subseteq OrderType /\ \A e, f \in S : e.side = f.side

(* SortOrders permutes a side into price-time order.                        *)
LEMMA SortOrdersSorts ==
    ASSUME NEW S, OneSided(S), NEW s \in Seq(S)
    PROVE  /\ SortOrders(s) \in Seq(S)
           /\ Len(SortOrders(s)) = Len(s)
           /\ SortedSide(SortOrders(s))
           /\ \E f \in Injection(1 .. Len(s), 1 .. Len(s)) :
                \A r \in 1 .. Len(s) : SortOrders(s)[r] = s[f[r]]
<1> DEFINE D == DOMAIN s
           NotBehind(j, i) == j = i \/ Ahead(s[j], s[i]) \/ (~Ahead(s[i], s[j]) /\ j < i)
           B == {p \in D \X D : NotBehind(p[1], p[2])}
           rank == [i \in D |-> Rank(s, i)]
           At(r) == CHOOSE i \in DOMAIN s : Rank(s, i) = r
           f == [r \in 1 .. Len(s) |-> At(r)]
<1>1. Len(s) \in Nat /\ D = 1 .. Len(s)
  BY LenProperties
<1>2. \A i \in D : s[i] \in S
  BY <1>1, ElementOfSeq
<1>3. ASSUME NEW i \in D, NEW j \in D, NEW k \in D
      PROVE  /\ ~Ahead(s[i], s[i])
             /\ Ahead(s[i], s[j]) => ~Ahead(s[j], s[i])
             /\ ~Ahead(s[i], s[j]) /\ ~Ahead(s[j], s[k]) => ~Ahead(s[i], s[k])
  <2>1. /\ s[i].side = s[j].side /\ s[j].side = s[k].side
        /\ s[i] \in OrderType /\ s[j] \in OrderType /\ s[k] \in OrderType
    BY <1>2 DEF OneSided
  <2> QED BY <2>1, AheadIsWeakOrder
<1>4. TotalOrder(D, B)
  <2>1. D \subseteq Nat
    BY <1>1
  <2>2. \A i, j \in D : <<i, j>> \in B <=> NotBehind(i, j)
    OBVIOUS
  <2> HIDE DEF B
  <2>3. \A i \in D : <<i, i>> \in B
    BY <2>2
  <2>4. \A i, j \in D : <<i, j>> \in B \/ <<j, i>> \in B
    <3> TAKE i, j \in D
    <3>1. i \in Nat /\ j \in Nat
      BY <2>1
    <3> HIDE DEF D
    <3> QED BY <2>2, <3>1
  <2>5. \A i, j \in D : <<i, j>> \in B /\ <<j, i>> \in B => i = j
    <3> TAKE i, j \in D
    <3>1. i \in Nat /\ j \in Nat
      BY <2>1
    <3>2. Ahead(s[i], s[j]) => ~Ahead(s[j], s[i])
      BY <1>3
    <3> HIDE DEF D
    <3> QED BY <2>2, <3>1, <3>2
  <2>6. \A i, j, k \in D : <<i, j>> \in B /\ <<j, k>> \in B => <<i, k>> \in B
    <3> TAKE i, j, k \in D
    <3>1. i \in Nat /\ j \in Nat /\ k \in Nat
      BY <2>1
    <3>2. /\ Ahead(s[i], s[j]) => ~Ahead(s[j], s[i])
          /\ Ahead(s[j], s[k]) => ~Ahead(s[k], s[j])
          /\ ~Ahead(s[i], s[k]) /\ ~Ahead(s[k], s[j]) => ~Ahead(s[i], s[j])
          /\ ~Ahead(s[j], s[i]) /\ ~Ahead(s[i], s[k]) => ~Ahead(s[j], s[k])
          /\ ~Ahead(s[k], s[j]) /\ ~Ahead(s[j], s[i]) => ~Ahead(s[k], s[i])
      BY <1>3
    <3> HIDE DEF D
    <3> QED BY <2>2, <3>1, <3>2
  <2> HIDE DEF D
  <2> QED BY <2>3, <2>4, <2>5, <2>6 DEF TotalOrder
<1>5. IsFiniteSet(D) /\ Cardinality(D) = Len(s)
  BY <1>1, FS_Interval
<1>6. rank = Position(D, B)
  <2>1. \A i \in D : {j \in D : <<j, i>> \in B} =
            {j \in DOMAIN s :
                j = i \/ Ahead(s[j], s[i]) \/ (~Ahead(s[i], s[j]) /\ j < i)}
    OBVIOUS
  <2> QED BY <2>1 DEF Position, Rank
<1>7. /\ \A i, j \in D : i # j /\ <<i, j>> \in B => rank[i] < rank[j]
      /\ \A r \in 1 .. Len(s) : \E i \in D : rank[i] = r
  <2> HIDE DEF D, B, rank
  <2>1. Numbers(D, B, rank)
    BY <1>4, <1>5, <1>6, Numbering
  <2> QED BY <1>5, <2>1 DEF Numbers
<1>8. SortOrders(s) = [r \in 1 .. Len(s) |-> s[At(r)]]
  BY DEF SortOrders
<1>9. \A r \in 1 .. Len(s) : f[r] = At(r) /\ f[r] \in D /\ rank[f[r]] = r
  <2> TAKE r \in 1 .. Len(s)
  <2>1. \E i \in DOMAIN s : Rank(s, i) = r
    <3>1. PICK i \in D : rank[i] = r
      BY <1>7
    <3>2. rank[i] = Rank(s, i)
      OBVIOUS
    <3> QED BY <3>1, <3>2
  <2>2. At(r) \in DOMAIN s /\ Rank(s, At(r)) = r
    BY <2>1
  <2>3. f[r] = At(r)
    OBVIOUS
  <2>4. rank[At(r)] = Rank(s, At(r))
    BY <2>2
  <2> HIDE DEF At, f, rank
  <2> QED BY <2>2, <2>3, <2>4
<1>10. \A i, j \in D : i # j /\ NotBehind(i, j) => rank[i] < rank[j]
  <2>1. \A i, j \in D : <<i, j>> \in B <=> NotBehind(i, j)
    OBVIOUS
  <2> HIDE DEF B, rank, NotBehind, D
  <2> QED BY <1>7, <2>1
<1>11. DOMAIN f = 1 .. Len(s)
  OBVIOUS
<1>12. f \in [1 .. Len(s) -> 1 .. Len(s)]
  BY <1>1, <1>9
<1> HIDE DEF f, At, rank
<1> DEFINE t == SortOrders(s)
<1>13. \A r \in 1 .. Len(s) : t[r] = s[f[r]]
  BY <1>8, <1>9
<1>14. t \in Seq(S) /\ Len(t) = Len(s)
  <2>1. t = [r \in 1 .. Len(s) |-> t[r]]
    BY <1>8
  <2>2. \A r \in 1 .. Len(s) : t[r] \in S
    BY <1>2, <1>9, <1>13
  <2> HIDE DEF t
  <2>3. t \in [1 .. Len(s) -> S]
    BY <2>1, <2>2
  <2> QED BY <1>1, <2>3
<1>15. SortedSide(t)
  <2>1. DOMAIN t = 1 .. Len(s)
    BY <1>8
  <2> SUFFICES ASSUME NEW q \in 1 .. Len(s), NEW r \in 1 .. Len(s), q < r,
                      Ahead(t[r], t[q])
               PROVE  FALSE
    BY <2>1 DEF SortedSide
  <2> DEFINE i == f[q]
             j == f[r]
  <2>2. i \in D /\ j \in D /\ rank[i] = q /\ rank[j] = r
    BY <1>9
  <2>3. Ahead(s[j], s[i])
    BY <1>13
  <2>4. i # j
    BY <2>2
  <2>5. rank[j] < rank[i]
    BY <1>10, <2>2, <2>3, <2>4
  <2> QED BY <1>1, <2>2, <2>5
<1>16. f \in Injection(1 .. Len(s), 1 .. Len(s))
  <2>1. \A q, r \in 1 .. Len(s) : f[q] = f[r] => q = r
    BY <1>9
  <2>2. IsInjective(f)
    BY <1>11, <2>1 DEF IsInjective
  <2> QED BY <1>12, <2>2, Zenon DEF Injection
<1> QED BY <1>13, <1>14, <1>15, <1>16

-----------------------------------------------------------------------------
(* What the steps do to the identifiers on a side and to its order.         *)
Ids(s)      == {s[i].id : i \in 1 .. Len(s)}
Distinct(s) == \A i, j \in 1 .. Len(s) : s[i].id = s[j].id => i = j
InOrder(s)  == \A i, j \in 1 .. Len(s) : i < j => ~Ahead(s[j], s[i])

(* InOrder states SortedSide by positions.                                  *)
LEMMA InOrderIsSorted ==
    ASSUME NEW S, NEW s \in Seq(S)
    PROVE  SortedSide(s) <=> InOrder(s)
<1>1. DOMAIN s = 1 .. Len(s)
  BY LenProperties
<1> QED BY <1>1 DEF SortedSide, InOrder

(* Removal takes the identifier off a side and keeps its order.             *)
LEMMA SideWithout ==
    ASSUME NEW S, NEW s \in Seq(S), NEW id, Distinct(s)
    PROVE  /\ Without(s, id) \in Seq(S)
           /\ Len(Without(s, id)) = IF id \in Ids(s) THEN Len(s) - 1 ELSE Len(s)
           /\ Distinct(Without(s, id))
           /\ Ids(Without(s, id)) = Ids(s) \ {id}
           /\ InOrder(s) => InOrder(Without(s, id))
<1> DEFINE r == Without(s, id)
<1>1. Len(s) \in Nat
  BY LenProperties
<1>2. /\ r \in Seq(S)
      /\ \/ r = s /\ \A i \in 1 .. Len(s) : s[i].id # id
         \/ \E k \in 1 .. Len(s) : CutAt(s, r, k) /\ s[k].id = id
  BY WithoutCuts
<1> HIDE DEF r
<1>3. CASE r = s /\ \A i \in 1 .. Len(s) : s[i].id # id
  BY <1>2, <1>3 DEF Ids, r
<1>4. CASE \E k \in 1 .. Len(s) : CutAt(s, r, k) /\ s[k].id = id
  <2>1. PICK k \in 1 .. Len(s) : CutAt(s, r, k) /\ s[k].id = id
    BY <1>4
  <2>2. /\ Len(r) = Len(s) - 1
        /\ \A j \in 1 .. Len(r) : r[j] = IF j < k THEN s[j] ELSE s[j + 1]
    BY <2>1 DEF CutAt
  <2> DEFINE From(j) == IF j < k THEN j ELSE j + 1
  <2>3. /\ \A j \in 1 .. Len(r) : From(j) \in 1 .. Len(s) /\ From(j) # k /\ r[j] = s[From(j)]
        /\ \A i, j \in 1 .. Len(r) : i < j => From(i) < From(j)
        /\ \A i, j \in 1 .. Len(r) : From(i) = From(j) => i = j
        /\ \A i \in 1 .. Len(s) : i # k => \E j \in 1 .. Len(r) : From(j) = i
    <3>1. ASSUME NEW i \in 1 .. Len(s), i # k PROVE \E j \in 1 .. Len(r) : From(j) = i
      <4>1. CASE i < k
        BY <4>1, <1>1, <2>2
      <4>2. CASE i > k
        <5>1. i - 1 \in 1 .. Len(r) /\ From(i - 1) = i
          BY <4>2, <1>1, <2>2
        <5> QED BY <5>1
      <4> QED BY <3>1, <4>1, <4>2, <1>1
    <3> QED BY <3>1, <1>1, <2>2
  <2> HIDE DEF From
  <2>4. Distinct(r)
    BY <2>3 DEF Distinct
  <2>5. InOrder(s) => InOrder(r)
    BY <2>3 DEF InOrder
  <2>6. Ids(r) = Ids(s) \ {id}
    <3>1. ASSUME NEW x \in Ids(r) PROVE x \in Ids(s) \ {id}
      BY <2>1, <2>3 DEF Ids, Distinct
    <3>2. ASSUME NEW x \in Ids(s) \ {id} PROVE x \in Ids(r)
      <4>1. PICK i \in 1 .. Len(s) : s[i].id = x
        BY DEF Ids
      <4>2. i # k
        BY <2>1, <4>1
      <4>3. PICK j \in 1 .. Len(r) : From(j) = i
        BY <2>3, <4>2
      <4>4. r[j].id = x
        BY <2>3, <4>1, <4>3
      <4> QED BY <4>4 DEF Ids
    <3> QED BY <3>1, <3>2
  <2>7. id \in Ids(s)
    BY <2>1 DEF Ids
  <2> QED BY <1>2, <2>2, <2>4, <2>5, <2>6, <2>7 DEF r
<1> QED BY <1>2, <1>3, <1>4

(* Eviction makes room on a full side and adds nothing.                     *)
LEMMA SideEvicted ==
    ASSUME NEW S, NEW s \in Seq(S), Distinct(s)
    PROVE  /\ EvictWorst(s) \in Seq(S)
           /\ Len(s) <= MaxOrdersPerPair => Len(EvictWorst(s)) < MaxOrdersPerPair
           /\ Distinct(EvictWorst(s))
           /\ Ids(EvictWorst(s)) \subseteq Ids(s)
           /\ Len(s) < MaxOrdersPerPair => EvictWorst(s) = s
           /\ InOrder(s) => InOrder(EvictWorst(s))
<1> DEFINE r == EvictWorst(s)
<1>1. Len(s) \in Nat /\ MaxOrdersPerPair \in Nat
  BY MaxOrdersPerPairAssumption, LenProperties
<1>2. /\ r \in Seq(S)
      /\ Len(r) = IF Len(s) >= MaxOrdersPerPair THEN Len(s) - 1 ELSE Len(s)
      /\ \A j \in 1 .. Len(r) : r[j] = s[j]
  BY EvictWorstCuts
<1>3. Len(s) < MaxOrdersPerPair => r = s
  BY <1>1 DEF EvictWorst
<1> HIDE DEF r
<1>4. 1 .. Len(r) \subseteq 1 .. Len(s)
  BY <1>1, <1>2
<1>5. Distinct(r)
  BY <1>2, <1>4 DEF Distinct
<1>6. InOrder(s) => InOrder(r)
  BY <1>2, <1>4 DEF InOrder
<1>7. Ids(r) \subseteq Ids(s)
  BY <1>2, <1>4 DEF Ids
<1>8. Len(s) <= MaxOrdersPerPair => Len(r) < MaxOrdersPerPair
  BY <1>1, <1>2
<1> QED BY <1>2, <1>3, <1>5, <1>6, <1>7, <1>8 DEF r

(* Insertion adds one identifier and keeps the order of a sorted side.      *)
LEMMA SideInserted ==
    ASSUME NEW S, OneSided(S), NEW s \in Seq(S), NEW e \in S, Distinct(s), e.id \notin Ids(s)
    PROVE  /\ InsertOrderSorted(s, e) \in Seq(S)
           /\ Len(InsertOrderSorted(s, e)) = Len(s) + 1
           /\ Distinct(InsertOrderSorted(s, e))
           /\ Ids(InsertOrderSorted(s, e)) = Ids(s) \cup {e.id}
           /\ InOrder(s) => InOrder(InsertOrderSorted(s, e))
<1> DEFINE r == InsertOrderSorted(s, e)
<1>1. Len(s) \in Nat
  BY LenProperties
<1>2. r \in Seq(S) /\ \E k \in 0 .. Len(s) : InsertedAfter(s, e, r, k)
  BY InsertOrderSortedPlaces
<1> HIDE DEF r
<1>3. PICK k \in 0 .. Len(s) : InsertedAfter(s, e, r, k)
  BY <1>2
<1>4. Len(r) = Len(s) + 1
  BY <1>3 DEF InsertedAfter
<1> DEFINE From(j) == IF j <= k THEN j ELSE j - 1
<1>5. /\ \A j \in 1 .. Len(r) : j # k + 1 => From(j) \in 1 .. Len(s) /\ r[j] = s[From(j)]
      /\ \A i, j \in 1 .. Len(r) : i # k + 1 /\ j # k + 1 /\ i < j => From(i) < From(j)
      /\ \A i, j \in 1 .. Len(r) : i # k + 1 /\ j # k + 1 /\ From(i) = From(j) => i = j
      /\ k + 1 \in 1 .. Len(r) /\ r[k + 1] = e
      /\ \A i \in 1 .. Len(s) : \E j \in 1 .. Len(r) : j # k + 1 /\ From(j) = i
  <2>1. ASSUME NEW i \in 1 .. Len(s)
        PROVE  \E j \in 1 .. Len(r) : j # k + 1 /\ From(j) = i
    <3>1. CASE i <= k
      BY <3>1, <1>1, <1>4
    <3>2. CASE ~(i <= k)
      <4>1. i + 1 \in 1 .. Len(r) /\ i + 1 # k + 1 /\ From(i + 1) = i
        BY <3>2, <1>1, <1>4
      <4> QED BY <4>1
    <3> QED BY <3>1, <3>2
  <2>2. ASSUME NEW j \in 1 .. Len(r), j # k + 1
        PROVE  From(j) \in 1 .. Len(s) /\ r[j] = s[From(j)]
    BY <2>2, <1>1, <1>3, <1>4 DEF InsertedAfter
  <2>3. k + 1 \in 1 .. Len(r) /\ r[k + 1] = e
    BY <1>1, <1>3, <1>4 DEF InsertedAfter
  <2>4. \A i, j \in 1 .. Len(r) : i # k + 1 /\ j # k + 1 /\ i < j => From(i) < From(j)
    BY <1>1, <1>4
  <2>5. \A i, j \in 1 .. Len(r) : i # k + 1 /\ j # k + 1 /\ From(i) = From(j) => i = j
    BY <1>1, <1>4
  <2> QED BY <2>1, <2>2, <2>3, <2>4, <2>5
<1>6. \A i \in 1 .. Len(s) : s[i].id # e.id
  BY DEF Ids
<1> HIDE DEF From
<1>7. Distinct(r)
  <2> SUFFICES ASSUME NEW i \in 1 .. Len(r), NEW j \in 1 .. Len(r), r[i].id = r[j].id
               PROVE  i = j
    BY DEF Distinct
  <2>1. CASE i = k + 1
    BY <2>1, <1>5, <1>6
  <2>2. CASE j = k + 1
    BY <2>2, <1>5, <1>6
  <2>3. CASE i # k + 1 /\ j # k + 1
    <3>1. /\ From(i) \in 1 .. Len(s) /\ r[i] = s[From(i)]
          /\ From(j) \in 1 .. Len(s) /\ r[j] = s[From(j)]
      BY <2>3, <1>5
    <3>2. From(i) = From(j)
      BY <3>1 DEF Distinct
    <3> QED BY <2>3, <3>2, <1>5
  <2> QED BY <2>1, <2>2, <2>3
<1>8. Ids(r) = Ids(s) \cup {e.id}
  <2>1. ASSUME NEW x \in Ids(r) PROVE x \in Ids(s) \cup {e.id}
    BY <1>5 DEF Ids
  <2>2. ASSUME NEW x \in Ids(s) PROVE x \in Ids(r)
    <3>1. PICK i \in 1 .. Len(s) : s[i].id = x
      BY DEF Ids
    <3>2. PICK j \in 1 .. Len(r) : j # k + 1 /\ From(j) = i
      BY <1>5
    <3>3. r[j].id = x
      BY <1>5, <3>1, <3>2
    <3> QED BY <3>3 DEF Ids
  <2>3. e.id \in Ids(r)
    BY <1>5 DEF Ids
  <2> QED BY <2>1, <2>2, <2>3
<1>9. ASSUME InOrder(s) PROVE InOrder(r)
  <2> SUFFICES ASSUME NEW i \in 1 .. Len(r), NEW j \in 1 .. Len(r), i < j
               PROVE  ~Ahead(r[j], r[i])
    BY DEF InOrder
  <2>1. CASE i # k + 1 /\ j # k + 1
    BY <2>1, <1>5, <1>9 DEF InOrder
  <2>2. CASE i = k + 1
    <3>1. j - 1 \in k + 1 .. Len(s) /\ r[j] = s[j - 1]
      BY <2>2, <1>1, <1>3, <1>4 DEF InsertedAfter
    <3>2. Ahead(e, s[j - 1])
      BY <3>1, <1>3 DEF InsertedAfter
    <3>3. s[j - 1] \in S
      BY <3>1, <1>1, ElementOfSeq
    <3>4. ~Ahead(s[j - 1], e)
      BY <3>2, <3>3, AheadIsWeakOrder DEF OneSided
    <3> QED BY <2>2, <3>1, <3>4, <1>5
  <2>3. CASE j = k + 1
    <3>1. i \in 1 .. k /\ k \in 1 .. Len(s) /\ r[i] = s[i]
      BY <2>3, <1>1, <1>3, <1>4 DEF InsertedAfter
    <3>2. ~Ahead(e, s[k])
      BY <3>1, <1>3 DEF InsertedAfter
    <3>3. s[k] \in S /\ s[i] \in S
      BY <3>1, <1>1, ElementOfSeq
    <3>4. ~Ahead(s[k], s[i])
      <4>1. CASE i = k
        BY <4>1, <3>3, AheadIsWeakOrder DEF OneSided
      <4>2. CASE i < k
        BY <4>2, <3>1, <1>1, <1>9 DEF InOrder
      <4> QED BY <4>1, <4>2, <3>1
    <3>5. ~Ahead(e, s[i])
      BY <3>2, <3>3, <3>4, AheadIsWeakOrder DEF OneSided
    <3> QED BY <2>3, <3>1, <3>5, <1>5
  <2> QED BY <2>1, <2>2, <2>3
<1> QED BY <1>2, <1>4, <1>7, <1>8, <1>9 DEF r

(* A selection adds no identifier and keeps the order.                      *)
LEMMA SideKept ==
    ASSUME NEW S, NEW s \in Seq(S), NEW keep \in SUBSET (1 .. Len(s)), Distinct(s)
    PROVE  /\ KeepAt(s, keep) \in Seq(S)
           /\ Len(KeepAt(s, keep)) <= Len(s)
           /\ \A j \in 1 .. Len(KeepAt(s, keep)) : \E i \in keep : KeepAt(s, keep)[j] = s[i]
           /\ Distinct(KeepAt(s, keep))
           /\ Ids(KeepAt(s, keep)) \subseteq Ids(s)
           /\ InOrder(s) => InOrder(KeepAt(s, keep))
<1> DEFINE r == KeepAt(s, keep)
<1>1. r \in Seq(S) /\ Len(r) <= Len(s) /\ \E f : SelectedBy(s, r, keep, f)
  BY KeepAtSelects
<1>2. Len(s) \in Nat /\ Len(r) \in Nat
  BY <1>1, LenProperties
<1> HIDE DEF r
<1>3. PICK f : SelectedBy(s, r, keep, f)
  BY <1>1
<1>4. /\ \A j \in 1 .. Len(r) : f[j] \in keep /\ f[j] \in 1 .. Len(s) /\ r[j] = s[f[j]]
      /\ \A j, k \in 1 .. Len(r) : j < k => f[j] < f[k]
  BY <1>3 DEF SelectedBy
<1>5. \A j, k \in 1 .. Len(r) : f[j] = f[k] => j = k
  <2> SUFFICES ASSUME NEW j \in 1 .. Len(r), NEW k \in 1 .. Len(r), f[j] = f[k], j # k
               PROVE  FALSE
    OBVIOUS
  <2>1. f[j] < f[k] \/ f[k] < f[j]
    BY <1>2, <1>4
  <2>2. f[j] \in Nat /\ f[k] \in Nat
    BY <1>2, <1>4
  <2> QED BY <2>1, <2>2
<1>6. Distinct(r)
  <2> SUFFICES ASSUME NEW j \in 1 .. Len(r), NEW k \in 1 .. Len(r), r[j].id = r[k].id
               PROVE  j = k
    BY DEF Distinct
  <2>1. f[j] = f[k]
    BY <1>4 DEF Distinct
  <2> QED BY <2>1, <1>5
<1>7. Ids(r) \subseteq Ids(s)
  BY <1>4 DEF Ids
<1>8. InOrder(s) => InOrder(r)
  BY <1>4 DEF InOrder
<1>9. \A j \in 1 .. Len(r) : \E i \in keep : r[j] = s[i]
  BY <1>4
<1> QED BY <1>1, <1>6, <1>7, <1>8, <1>9 DEF r

(* One side of a replaced book: what is admissible of the snapshot, in      *)
(* price-time order.                                                        *)
LEMMA SideReplaced ==
    ASSUME NEW S, OneSided(S), NEW s \in Seq(OrderType), Distinct(s), NEW now,
           \A i \in 1 .. Len(s) : Admissible(s[i], now) => Resting(s[i]) \in S
    PROVE  /\ ReplacementSide(s, now) \in Seq(S)
           /\ Len(ReplacementSide(s, now)) <= Len(s)
           /\ Distinct(ReplacementSide(s, now))
           /\ Ids(ReplacementSide(s, now)) \subseteq Ids(s)
           /\ InOrder(ReplacementSide(s, now))
<1> DEFINE keep == {i \in DOMAIN s : Admissible(s[i], now)}
           live == KeepAt(s, keep)
           rest == [i \in DOMAIN live |-> Resting(live[i])]
           r    == SortOrders(rest)
<1>1. Len(s) \in Nat /\ DOMAIN s = 1 .. Len(s)
  BY LenProperties
<1>2. keep \in SUBSET (1 .. Len(s))
  BY <1>1
<1>3. \A i \in keep : Resting(s[i]) \in S
  BY <1>1
<1> HIDE DEF keep
<1>4. /\ live \in Seq(OrderType)
      /\ Len(live) <= Len(s)
      /\ \A j \in 1 .. Len(live) : \E i \in keep : live[j] = s[i]
      /\ Distinct(live)
      /\ Ids(live) \subseteq Ids(s)
  BY <1>2, SideKept
<1> HIDE DEF live
<1>5. Len(live) \in Nat /\ DOMAIN live = 1 .. Len(live)
  BY <1>4, LenProperties
<1>6. /\ rest \in Seq(S)
      /\ Len(rest) = Len(live)
      /\ \A j \in 1 .. Len(live) : rest[j] = Resting(live[j])
  <2>1. \A j \in 1 .. Len(live) : Resting(live[j]) \in S
    BY <1>3, <1>4
  <2>2. \A j \in 1 .. Len(live) : rest[j] = Resting(live[j])
    BY <1>5
  <2>3. rest \in [1 .. Len(live) -> S]
    BY <1>5, <2>1
  <2> HIDE DEF rest
  <2> QED BY <1>5, <2>2, <2>3
<1> HIDE DEF rest
<1>7. /\ r \in Seq(S)
      /\ Len(r) = Len(rest)
      /\ SortedSide(r)
      /\ \E f \in Injection(1 .. Len(rest), 1 .. Len(rest)) :
            \A q \in 1 .. Len(rest) : r[q] = rest[f[q]]
  BY <1>6, SortOrdersSorts
<1> HIDE DEF r
<1>8. PICK f \in Injection(1 .. Len(live), 1 .. Len(live)) :
            \A q \in 1 .. Len(live) : r[q] = rest[f[q]]
  BY <1>6, <1>7
<1>9. /\ \A q \in 1 .. Len(live) : f[q] \in 1 .. Len(live)
      /\ \A p, q \in 1 .. Len(live) : f[p] = f[q] => p = q
  BY <1>8 DEF Injection, IsInjective
<1>10. \A q \in 1 .. Len(live) : r[q].id = live[f[q]].id
  <2> TAKE q \in 1 .. Len(live)
  <2>1. r[q] = Resting(live[f[q]]) /\ live[f[q]] \in OrderType
    BY <1>4, <1>6, <1>8, <1>9, ElementOfSeq
  <2>2. Resting(live[f[q]]).id = live[f[q]].id
    BY <2>1 DEF Resting, OrderType
  <2> QED BY <2>1, <2>2
<1>11. Distinct(r)
  <2> SUFFICES ASSUME NEW p \in 1 .. Len(live), NEW q \in 1 .. Len(live), r[p].id = r[q].id
               PROVE  p = q
    BY <1>6, <1>7 DEF Distinct
  <2>1. f[p] = f[q]
    BY <1>4, <1>9, <1>10 DEF Distinct
  <2> QED BY <2>1, <1>9
<1>12. Ids(r) \subseteq Ids(s)
  <2>1. ASSUME NEW x \in Ids(r) PROVE x \in Ids(live)
    <3>1. PICK q \in 1 .. Len(live) : r[q].id = x
      BY <1>6, <1>7 DEF Ids
    <3>2. f[q] \in 1 .. Len(live) /\ live[f[q]].id = x
      BY <3>1, <1>9, <1>10
    <3> QED BY <3>2 DEF Ids
  <2> QED BY <2>1, <1>4
<1>13. InOrder(r)
  BY <1>7, InOrderIsSorted
<1>14. ReplacementSide(s, now) = r
  BY DEF ReplacementSide, r, rest, live, keep
<1> QED BY <1>4, <1>6, <1>7, <1>11, <1>12, <1>13, <1>14
-----------------------------------------------------------------------------
(* What the orders of a side offer, and what each prefix of it offers.      *)
Offers(s) == \A i \in 1 .. Len(s) : Left(s[i]) \in Nat /\ Left(s[i]) > 0

IsOffered(s, f) == f = [i \in 0 .. Len(s) |-> IF i = 0 THEN 0 ELSE f[i-1] + Left(s[i])]

(* Offered is recursive on positions; the sums of the prefixes are such a  *)
(* function, so that the one that is chosen has its equations.              *)
LEMMA OfferedChosen ==
    ASSUME NEW s
    PROVE  Offered(s) = CHOOSE f : IsOffered(s, f)
BY DEF Offered, IsOffered

LEMMA OfferedExists ==
    ASSUME NEW s, Len(s) \in Nat, Offers(s)
    PROVE  IsOffered(s, Offered(s))
<1> DEFINE n == Len(s)
           left == [i \in 1 .. n |-> Left(s[i])]
           f == [i \in 0 .. n |-> SumFunctionOnSet(left, 1 .. i)]
<1>1. ASSUME NEW i \in 1 .. n
      PROVE  SumFunctionOnSet(left, 1 .. i) = SumFunctionOnSet(left, 1 .. i - 1) + left[i]
  <2> DEFINE A == 1 .. i
  <2>1. IsFiniteSet(A) /\ IsFiniteSet(1 .. i - 1)
    BY FS_Interval
  <2>2. \A x \in A : left[x] \in Int
    BY DEF Offers
  <2>3. i \in A /\ A \ {i} = 1 .. i - 1
    OBVIOUS
  <2>4. SumFunctionOnSet(left, 1 .. i - 1) \in Int /\ left[i] \in Int
    <3>1. \A x \in 1 .. i - 1 : left[x] \in Int
      BY <2>2
    <3> HIDE DEF left
    <3> QED BY <2>1, <2>2, <2>3, <3>1, SumInt
  <2> HIDE DEF left, A
  <2>5. SumFunctionOnSet(left, A) = left[i] + SumFunctionOnSet(left, A \ {i})
    BY <2>1, <2>2, <2>3, SumElement
  <2>6. SumFunctionOnSet(left, A) = left[i] + SumFunctionOnSet(left, 1 .. i - 1)
    BY Zenon, <2>3, <2>5
  <2>7. SumFunctionOnSet(left, 1 .. i) = left[i] + SumFunctionOnSet(left, 1 .. i - 1)
    BY Zenon, <2>6 DEF A
  <2> QED BY <2>4, <2>7
<1>2. SumFunctionOnSet(left, 1 .. 0) = 0
  <2>1. 1 .. 0 = {}
    OBVIOUS
  <2> QED BY <2>1, SumEmpty
<1>3. IsOffered(s, f)
  <2>1. \A i \in 1 .. n : left[i] = Left(s[i])
    OBVIOUS
  <2> HIDE DEF left
  <2>2. \A i \in 0 .. n : f[i] = IF i = 0 THEN 0 ELSE f[i-1] + Left(s[i])
    BY <1>1, <1>2, <2>1
  <2> QED BY <2>2 DEF IsOffered
<1> HIDE DEF f
<1> QED BY <1>3, OfferedChosen

LEMMA OfferedSteps ==
    ASSUME NEW s, Len(s) \in Nat, Offers(s)
    PROVE  /\ Offered(s)[0] = 0
           /\ \A i \in 1 .. Len(s) : Offered(s)[i] = Offered(s)[i - 1] + Left(s[i])
           /\ \A i \in 0 .. Len(s) : Offered(s)[i] \in Nat
<1> DEFINE f == Offered(s)
<1>1. IsOffered(s, f)
  BY OfferedExists
<1> HIDE DEF f
<1>2. f[0] = 0 /\ \A i \in 1 .. Len(s) : f[i] = f[i - 1] + Left(s[i])
  BY <1>1 DEF IsOffered
<1>3. \A i \in 0 .. Len(s) : f[i] \in Nat
  <2> DEFINE T == {i \in Nat : i <= Len(s) => f[i] \in Nat}
  <2>1. 0 \in T
    BY <1>2
  <2>2. \A i \in Nat : i \in T => i + 1 \in T
    BY <1>2 DEF Offers
  <2>3. Nat \subseteq T
    <3> HIDE DEF T
    <3> QED BY <2>1, <2>2, SetOfNatInduction
  <2> QED BY <2>3
<1> QED BY <1>2, <1>3 DEF f

(* Each further order offers more.                                          *)
LEMMA OfferedGrows ==
    ASSUME NEW s, Len(s) \in Nat, Offers(s), NEW i \in 0 .. Len(s), NEW j \in 0 .. Len(s), i < j
    PROVE  Offered(s)[i] < Offered(s)[j]
<1> DEFINE f == Offered(s)
           T == {k \in Nat : k <= Len(s) /\ i < k => f[i] < f[k]}
<1>1. /\ \A k \in 1 .. Len(s) : f[k] = f[k - 1] + Left(s[k])
      /\ \A k \in 0 .. Len(s) : f[k] \in Nat
  BY OfferedSteps
<1>2. 0 \in T
  OBVIOUS
<1> HIDE DEF f
<1>3. ASSUME NEW k \in Nat, k \in T PROVE k + 1 \in T
  <2> SUFFICES ASSUME k + 1 <= Len(s), i < k + 1 PROVE f[i] < f[k + 1]
    OBVIOUS
  <2>1. f[k + 1] = f[k] + Left(s[k + 1]) /\ Left(s[k + 1]) > 0 /\ Left(s[k + 1]) \in Nat
          /\ f[k] \in Nat
    BY <1>1 DEF Offers
  <2>2. i = k \/ f[i] < f[k]
    BY <1>3
  <2> QED BY <1>1, <2>1, <2>2
<1>4. Nat \subseteq T
  <2> HIDE DEF T
  <2> QED BY <1>2, <1>3, SetOfNatInduction
<1> QED BY <1>4 DEF f

-----------------------------------------------------------------------------
(* What the taker takes of each order: all of it, order after order, and of *)
(* the last one it reaches what it still wants.                             *)
LEMMA FillIs ==
    ASSUME NEW s, Len(s) \in Nat, Offers(s), NEW taker, Left(taker) \in Nat,
           NEW i \in 1 .. Len(s)
    PROVE  LET fill == Fills(taker, s) IN
           /\ fill[i] \in Nat /\ fill[i] <= Left(s[i])
           /\ fill[i] > 0 <=> Reached(taker, s, i) /\ Offered(s)[i - 1] < Left(taker)
           /\ fill[i] > 0 => \A j \in 1 .. i - 1 : fill[j] = Left(s[j])
           /\ fill[i] + Offered(s)[i - 1] <= Left(taker) \/ fill[i] = 0
<1> DEFINE f == Offered(s)
           fill == Fills(taker, s)
<1>1. /\ \A k \in 1 .. Len(s) : f[k] = f[k - 1] + Left(s[k])
      /\ \A k \in 0 .. Len(s) : f[k] \in Nat
  BY OfferedSteps
<1>2. \A k \in 1 .. Len(s) : Left(s[k]) \in Nat /\ Left(s[k]) > 0
  BY DEF Offers
<1>3. \A k \in 1 .. Len(s) :
          fill[k] = IF Reached(taker, s, k) /\ f[k - 1] < Left(taker)
                    THEN SmallerOf(Left(s[k]), Left(taker) - f[k - 1]) ELSE 0
  BY DEF Fills
<1> HIDE DEF f, fill
<1>4. \A k \in 1 .. Len(s) : k - 1 \in 0 .. Len(s)
  OBVIOUS
<1>5. \A k \in 1 .. Len(s) :
        /\ fill[k] \in Nat /\ fill[k] <= Left(s[k])
        /\ fill[k] > 0 <=> Reached(taker, s, k) /\ f[k - 1] < Left(taker)
        /\ fill[k] + f[k - 1] <= Left(taker) \/ fill[k] = 0
  <2> SUFFICES ASSUME NEW k \in 1 .. Len(s)
               PROVE  /\ fill[k] \in Nat /\ fill[k] <= Left(s[k])
                      /\ fill[k] > 0 <=> Reached(taker, s, k) /\ f[k - 1] < Left(taker)
                      /\ fill[k] + f[k - 1] <= Left(taker) \/ fill[k] = 0
    OBVIOUS
  <2> DEFINE p == f[k - 1]
             q == Left(s[k])
             w == Left(taker)
             x == fill[k]
  <2>1. p \in Nat /\ q \in Nat /\ q > 0 /\ w \in Nat
    BY <1>1, <1>2, <1>4
  <2>2. x = IF Reached(taker, s, k) /\ p < w THEN SmallerOf(q, w - p) ELSE 0
    BY <1>3
  <2> HIDE DEF p, q, w, x
  <2>3. /\ x \in Nat /\ x <= q
        /\ x > 0 <=> Reached(taker, s, k) /\ p < w
        /\ x + p <= w \/ x = 0
    BY <2>1, <2>2 DEF SmallerOf
  <2> QED BY <2>3 DEF p, q, w, x
<1>6. ASSUME fill[i] > 0, NEW j \in 1 .. i - 1 PROVE fill[j] = Left(s[j])
  <2>1. Reached(taker, s, i) /\ f[i - 1] < Left(taker)
    BY <1>5, <1>6
  <2>2. Reached(taker, s, j)
    BY <2>1 DEF Reached
  <2>3. j \in 1 .. Len(s) /\ j \in 0 .. Len(s) /\ i - 1 \in 0 .. Len(s) /\ (j = i - 1 \/ j < i - 1)
    OBVIOUS
  <2>4. j < i - 1 => f[j] < f[i - 1]
    BY <2>3, OfferedGrows DEF f
  <2>5. f[j] <= f[i - 1]
    BY <1>1, <2>3, <2>4
  <2>6. f[j] = f[j - 1] + Left(s[j]) /\ f[j - 1] \in Nat /\ f[j] \in Nat /\ f[i - 1] \in Nat
    BY <1>1, <2>3
  <2> DEFINE p == f[j - 1]
             q == Left(s[j])
             w == Left(taker)
  <2>7. p \in Nat /\ q \in Nat /\ q > 0 /\ w \in Nat /\ p + q < w
    <3>1. f[j] < Left(taker)
      BY <2>1, <2>5, <2>6
    <3> QED BY <1>2, <2>3, <2>6, <3>1
  <2>8. fill[j] = IF p < w THEN SmallerOf(q, w - p) ELSE 0
    BY <1>3, <2>2, <2>3
  <2> HIDE DEF p, q, w
  <2>9. fill[j] = q
    BY <2>7, <2>8 DEF SmallerOf
  <2> QED BY <2>9 DEF q
<1> QED BY <1>5, <1>6 DEF f, fill

(* Together it takes no more than it wants.                                 *)
LEMMA FillsWithinTaker ==
    ASSUME NEW s, Len(s) \in Nat, Offers(s), NEW taker, Left(taker) \in Nat,
           NEW k \in 0 .. Len(s)
    PROVE  SumFunctionOnSet(Fills(taker, s), 1 .. k) <= Left(taker)
<1> DEFINE f == Offered(s)
           fill == Fills(taker, s)
           left == [i \in 1 .. Len(s) |-> Left(s[i])]
           F(i) == SumFunctionOnSet(fill, 1 .. i)
           T == {i \in Nat : i <= Len(s) => F(i) <= Left(taker) /\ F(i) \in Nat}
<1>1. \A i \in 1 .. Len(s) :
           /\ fill[i] \in Nat
           /\ fill[i] > 0 => \A j \in 1 .. i - 1 : fill[j] = Left(s[j])
           /\ fill[i] + f[i - 1] <= Left(taker) \/ fill[i] = 0
  BY FillIs
<1> HIDE DEF fill
<1>2. ASSUME NEW i \in 1 .. Len(s)
      PROVE  F(i) = F(i - 1) + fill[i] /\ F(i) \in Nat /\ F(i - 1) \in Nat
  <2> DEFINE A == 1 .. i
             B == 1 .. i - 1
  <2>1. IsFiniteSet(A) /\ IsFiniteSet(B) /\ i \in A /\ A \ {i} = B
    <3>1. IsFiniteSet(1 .. i) /\ IsFiniteSet(1 .. i - 1)
      BY FS_Interval
    <3>2. i \in 1 .. i /\ (1 .. i) \ {i} = 1 .. i - 1
      OBVIOUS
    <3> QED BY <3>1, <3>2
  <2>2. (\A x \in A : fill[x] \in Nat /\ fill[x] \in Int) /\ \A x \in B : fill[x] \in Nat
    BY <1>1
  <2> HIDE DEF A, B
  <2>3. SumFunctionOnSet(fill, A) = fill[i] + SumFunctionOnSet(fill, B)
    BY <2>1, <2>2, SumElement
  <2>4. SumFunctionOnSet(fill, A) \in Nat /\ SumFunctionOnSet(fill, B) \in Nat
    BY <2>1, <2>2, SumNat
  <2> QED BY <2>1, <2>2, <2>3, <2>4 DEF A, B
<1>3. F(0) = 0
  <2>1. 1 .. 0 = {}
    OBVIOUS
  <2> QED BY <2>1, SumEmpty
(* Orders taken whole: the sum is what they offer.                          *)
<1>4. ASSUME NEW i \in 0 .. Len(s), \A j \in 1 .. i : fill[j] = Left(s[j])
      PROVE  F(i) = f[i]
  <2> DEFINE R == {m \in Nat : m <= i => F(m) = f[m]}
  <2>0. /\ f[0] = 0
        /\ \A m \in 1 .. Len(s) : f[m] = f[m - 1] + Left(s[m])
        /\ \A m \in 0 .. Len(s) : f[m] \in Nat
    BY OfferedSteps
  <2> HIDE DEF f, F
  <2>1. 0 \in R
    BY <1>3, <2>0
  <2>2. ASSUME NEW m \in Nat, m \in R PROVE m + 1 \in R
    <3> SUFFICES ASSUME m + 1 <= i PROVE F(m + 1) = f[m + 1]
      OBVIOUS
    <3>1. m + 1 \in 1 .. Len(s) /\ m + 1 \in 1 .. i /\ (m + 1) - 1 = m /\ F(m) = f[m]
      BY <2>2
    <3>2. F(m + 1) = F(m) + fill[m + 1]
      BY <1>2, <3>1
    <3>3. f[m + 1] = f[m] + Left(s[m + 1])
      BY <2>0, <3>1
    <3> QED BY <1>4, <3>1, <3>2, <3>3
  <2>3. Nat \subseteq R
    <3> HIDE DEF R
    <3> QED BY <2>1, <2>2, SetOfNatInduction
  <2> QED BY <2>3
<1>5. 0 \in T
  BY <1>3
<1>6. ASSUME NEW i \in Nat, i \in T PROVE i + 1 \in T
  <2> HIDE DEF F
  <2> SUFFICES ASSUME i + 1 <= Len(s) PROVE F(i + 1) <= Left(taker) /\ F(i + 1) \in Nat
    OBVIOUS
  <2>1. i + 1 \in 1 .. Len(s) /\ (i + 1) - 1 = i /\ i \in 0 .. Len(s)
    OBVIOUS
  <2>2. F(i + 1) = F(i) + fill[i + 1] /\ F(i + 1) \in Nat /\ F(i) \in Nat /\ F(i) <= Left(taker)
    BY <1>2, <1>6, <2>1
  <2>3. CASE fill[i + 1] = 0
    BY <2>2, <2>3
  <2>4. CASE fill[i + 1] # 0
    <3>1. (\A j \in 1 .. i : fill[j] = Left(s[j])) /\ fill[i + 1] + f[i] <= Left(taker)
      BY <1>1, <2>1, <2>4
    <3>2. F(i) = f[i]
      BY <1>4, <2>1, <3>1
    <3> QED BY <1>1, <2>1, <2>2, <3>1, <3>2
  <2> QED BY <2>3, <2>4
<1>7. Nat \subseteq T
  <2> HIDE DEF T
  <2> QED BY <1>5, <1>6, SetOfNatInduction
<1> QED BY <1>7 DEF fill
-----------------------------------------------------------------------------
(* Positions without a gap from the first on are as many as the last of them*)
(* says.                                                                    *)
LEMMA InitialPositions ==
    ASSUME NEW n \in Nat, NEW I \in SUBSET (1 .. n),
           \A i \in I : \A j \in 1 .. i : j \in I
    PROVE  Cardinality(I) \in 0 .. n /\ I = 1 .. Cardinality(I)
<1>1. CASE I = {}
  <2>1. Cardinality(I) = 0
    BY <1>1, FS_EmptySet
  <2> QED BY <1>1, <2>1
<1>2. CASE I # {}
  <2>1. Max(I) \in I /\ \A i \in I : i <= Max(I)
    BY <1>2, MaxExists
  <2>3. Max(I) \in 1 .. n
    BY <2>1
  <2>2. I = 1 .. Max(I)
    <3> DEFINE m == Max(I)
    <3>1. m \in 1 .. n /\ m \in I /\ \A i \in I : i <= m
      BY <2>1, <2>3
    <3> HIDE DEF m
    <3>2. I \subseteq 1 .. m
      BY <3>1
    <3>3. 1 .. m \subseteq I
      BY <3>1
    <3> QED BY <3>2, <3>3 DEF m
  <2>4. Cardinality(1 .. Max(I)) = Max(I)
    BY <2>3, FS_Interval
  <2> QED BY <2>2, <2>3, <2>4
<1> QED BY <1>1, <1>2

(* The orders that a match uses: the first n of the opposite side, and the  *)
(* first "gone" of these whole.                                             *)
Uses(taker, s, n, gone) ==
    /\ n \in 0 .. Len(s) /\ gone \in 0 .. Len(s) /\ gone <= n /\ n <= gone + 1
    /\ \A i \in 1 .. Len(s) : Fills(taker, s)[i] > 0 <=> i <= n
    /\ \A i \in 1 .. gone : Fills(taker, s)[i] = Left(s[i])
    /\ \A i \in gone + 1 .. n : Fills(taker, s)[i] < Left(s[i])

RestOf(taker, s, n, gone) ==
    [i \in 1 .. Len(s) - gone |->
        IF gone + i <= n
        THEN [s[gone + i] EXCEPT !.filled = @ + Fills(taker, s)[gone + i], !.status = "partial"]
        ELSE s[gone + i]]

(* MatchOutcome by the positions it uses, without counting.                 *)
LEMMA OutcomeOfMatch ==
    ASSUME NEW book, NEW taker, Left(taker) \in Nat,
           Len(book[Opposite(taker.side)]) \in Nat,
           DOMAIN book[Opposite(taker.side)] = 1 .. Len(book[Opposite(taker.side)]),
           Offers(book[Opposite(taker.side)])
    PROVE  LET s == book[Opposite(taker.side)] IN
           \E n, gone \in 0 .. Len(s) :
              /\ Uses(taker, s, n, gone)
              /\ MatchOutcome(book, taker) =
                    [book   |-> [book EXCEPT ![Opposite(taker.side)] = RestOf(taker, s, n, gone)],
                     trades |-> [i \in 1 .. n |-> Trade(taker, s[i], Fills(taker, s)[i], i)]]
<1> DEFINE s    == book[Opposite(taker.side)]
           N    == Len(s)
           fill == Fills(taker, s)
           I    == {i \in DOMAIN s : fill[i] > 0}
           J    == {i \in DOMAIN s : fill[i] > 0 /\ fill[i] = Left(s[i])}
           n    == Cardinality(I)
           gone == Cardinality(J)
           rest == [i \in 1 .. Len(s) - gone |->
                      IF fill[gone + i] > 0
                      THEN [s[gone + i] EXCEPT !.filled = @ + fill[gone + i], !.status = "partial"]
                      ELSE s[gone + i]]
<1>1. N \in Nat /\ DOMAIN s = 1 .. N /\ \A i \in 1 .. N : Left(s[i]) \in Nat /\ Left(s[i]) > 0
  BY DEF Offers
<1>2. \A i \in 1 .. N :
        /\ fill[i] \in Nat /\ fill[i] <= Left(s[i])
        /\ fill[i] > 0 => \A j \in 1 .. i - 1 : fill[j] = Left(s[j])
  BY FillIs
<1>3. MatchOutcome(book, taker) =
         [book   |-> [book EXCEPT ![Opposite(taker.side)] = rest],
          trades |-> [i \in 1 .. n |-> Trade(taker, s[i], fill[i], i)]]
  BY Zenon DEF MatchOutcome
<1> HIDE DEF fill, s
<1>4. n \in 0 .. N /\ I = 1 .. n
  <2>1. I \in SUBSET (1 .. N) /\ \A i \in I : \A j \in 1 .. i : j \in I
    BY <1>1, <1>2
  <2> HIDE DEF I, N
  <2> QED BY <1>1, <2>1, InitialPositions
<1>5. gone \in 0 .. N /\ J = 1 .. gone
  <2>1. J \in SUBSET (1 .. N) /\ \A i \in J : \A j \in 1 .. i : j \in J
    BY <1>1, <1>2
  <2> HIDE DEF J, N
  <2> QED BY <1>1, <2>1, InitialPositions
<1>6. \A i \in 1 .. N : fill[i] > 0 <=> i <= n
  <2>1. \A i \in 1 .. N : fill[i] > 0 <=> i \in 1 .. n
    BY <1>1, <1>4
  <2> HIDE DEF n
  <2> QED BY <1>1, <1>4, <2>1
<1>7. \A i \in 1 .. N : fill[i] > 0 /\ fill[i] = Left(s[i]) <=> i <= gone
  <2>1. \A i \in 1 .. N : fill[i] > 0 /\ fill[i] = Left(s[i]) <=> i \in 1 .. gone
    BY <1>1, <1>5
  <2> HIDE DEF gone
  <2> QED BY <1>1, <1>5, <2>1
<1> HIDE DEF n, gone, N
<1>8. gone <= n
  BY <1>1, <1>4, <1>5, <1>6, <1>7
<1>9. n <= gone + 1
  <2> SUFFICES ASSUME n > gone + 1 PROVE FALSE
    BY <1>4, <1>5
  <2>1. fill[n] > 0 /\ n \in 1 .. N /\ gone + 1 \in 1 .. n - 1 /\ gone + 1 \in 1 .. N
    BY <1>1, <1>4, <1>5, <1>6
  <2>2. fill[gone + 1] = Left(s[gone + 1])
    BY <1>2, <2>1
  <2>3. fill[gone + 1] > 0
    BY <1>4, <1>5, <1>6, <2>1
  <2> QED BY <1>5, <1>7, <2>1, <2>2, <2>3
<1>10. Uses(taker, s, n, gone)
  <2>1. \A i \in 1 .. gone : fill[i] = Left(s[i])
    BY <1>1, <1>5, <1>7
  <2>2. \A i \in gone + 1 .. n : fill[i] < Left(s[i])
    <3> SUFFICES ASSUME NEW i \in gone + 1 .. n PROVE fill[i] < Left(s[i])
      OBVIOUS
    <3>1. i \in 1 .. N /\ ~(i <= gone) /\ i <= n
      BY <1>1, <1>4, <1>5
    <3>2. fill[i] # Left(s[i])
      BY <1>6, <1>7, <3>1
    <3> QED BY <1>1, <1>2, <3>1, <3>2
  <2> QED BY <1>4, <1>5, <1>6, <1>8, <1>9, <2>1, <2>2 DEF Uses, fill, N
<1>11. rest = RestOf(taker, s, n, gone)
  <2>1. \A i \in 1 .. Len(s) - gone : fill[gone + i] > 0 <=> gone + i <= n
    BY <1>1, <1>5, <1>6 DEF N
  <2> QED BY <2>1 DEF RestOf, fill
<1>12. n \in 0 .. Len(s) /\ gone \in 0 .. Len(s)
  BY <1>4, <1>5 DEF N
<1> HIDE DEF rest
<1>13. MatchOutcome(book, taker) =
         [book   |-> [book EXCEPT ![Opposite(taker.side)] = RestOf(taker, s, n, gone)],
          trades |-> [i \in 1 .. n |-> Trade(taker, s[i], fill[i], i)]]
  BY Zenon, <1>3, <1>11
<1> QED BY Zenon, <1>10, <1>12, <1>13 DEF s, fill
=============================================================================
