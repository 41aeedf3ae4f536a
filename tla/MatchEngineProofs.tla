-------------------------- MODULE MatchEngineProofs --------------------------
(* Proofs about MatchEngine, for books of every size, every set of orders   *)
(* and every set of snapshots.                                              *)
EXTENDS MatchEngine, OrderBookLemmas

(* The identifier is submitted, if at all, for this side of this pair.      *)
OfPair(id, p, side) ==
    /\ \A o \in Orders : o.id = id => o.pair = p /\ o.side = side
    /\ \A snap \in Snapshots : \A s \in Sides : \A i \in DOMAIN snap.book[s] :
        snap.book[s][i].id = id => snap.pair = p

(* What may rest on a side of a pair's book.                                *)
Entry(p, side) ==
    {e \in OrderType : /\ e.side = side /\ e.pair = p
                       /\ e.status \in {"open", "partial"}
                       /\ e.filled < e.amount
                       /\ OfPair(e.id, p, side)}

SideInv(p, side, s) ==
    /\ s \in Seq(Entry(p, side))
    /\ Distinct(s)
    /\ InOrder(s)
    /\ Len(s) <= MaxOrdersPerPair

BookInv(p, book) ==
    /\ book \in BookType
    /\ \A side \in Sides : SideInv(p, side, book[side])
    /\ Ids(book["buy"]) \cap Ids(book["sell"]) = {}

BookIds(book) == Ids(book["buy"]) \cup Ids(book["sell"])

BooksInv(bs, index) ==
    /\ \A p \in Pairs : BookInv(p, bs[p])
    /\ \A p \in Pairs : \A id \in BookIds(bs[p]) : index[id] = p

(* The inductive invariant: what rests belongs where it rests and has       *)
(* something left, no identifier rests twice, the sides are in order and    *)
(* within the limit, and the index knows every resting order.               *)
IInv == TypeOK /\ BooksInv(books, orderIDToPair)

-----------------------------------------------------------------------------
(* What may rest on a side is of that side, so that it can be ordered.      *)
LEMMA EntriesAreOneSided ==
    ASSUME NEW p, NEW side
    PROVE  OneSided(Entry(p, side))
BY DEF OneSided, Entry

(* What AddOrder and ReplaceOrderbook put on a book may rest there.         *)
LEMMA RestingIsEntry ==
    ASSUME NEW o \in OrderType, NEW p, NEW side, o.side = side, o.pair = p,
           o.status \in {"open", "partial"}, Left(o) > 0, OfPair(o.id, p, side)
    PROVE  Resting(o) \in Entry(p, side) /\ Resting(o).id = o.id
<1>1. Left(o) \in Nat
  BY DEF Left, OrderType
<1>2. /\ Resting(o) \in OrderType
      /\ Resting(o).side = o.side /\ Resting(o).pair = o.pair /\ Resting(o).id = o.id
      /\ Resting(o).status = o.status /\ Resting(o).filled = 0 /\ Resting(o).amount = Left(o)
  BY <1>1 DEF Resting, OrderType
<1> QED BY <1>2 DEF Entry

(* A book is well formed when both its sides are.                           *)
LEMMA BookOfSides ==
    ASSUME NEW p, NEW b, b = [side \in Sides |-> b[side]],
           \A side \in Sides : SideInv(p, side, b[side]),
           Ids(b["buy"]) \cap Ids(b["sell"]) = {}
    PROVE  BookInv(p, b)
<1>1. \A side \in Sides : Entry(p, side) \subseteq OrderType
  BY DEF Entry
<1>2. \A side \in Sides : b[side] \in Seq(OrderType)
  <2> TAKE side \in Sides
  <2>1. b[side] \in Seq(Entry(p, side))
    BY DEF SideInv
  <2> QED BY <1>1, <2>1, SeqMonotonic
<1>3. b \in BookType
  BY <1>2 DEF BookType
<1> QED BY <1>3 DEF BookInv

-----------------------------------------------------------------------------
(* The steps of the engine keep a book well formed.                         *)
LEMMA RemoveKeepsBook ==
    ASSUME NEW p, NEW b, BookInv(p, b), NEW id
    PROVE  /\ BookInv(p, RemoveOrderFromBook(b, id))
           /\ BookIds(RemoveOrderFromBook(b, id)) = BookIds(b) \ {id}
<1> DEFINE r == RemoveOrderFromBook(b, id)
<1>1. r = [side \in Sides |-> Without(b[side], id)]
  BY DEF RemoveOrderFromBook
<1>2. ASSUME NEW side \in Sides
      PROVE  SideInv(p, side, r[side]) /\ Ids(r[side]) = Ids(b[side]) \ {id}
  <2> DEFINE s == b[side]
             E == Entry(p, side)
  <2>1. /\ s \in Seq(E) /\ Distinct(s) /\ InOrder(s) /\ Len(s) <= MaxOrdersPerPair
    BY DEF BookInv, SideInv
  <2>2. r[side] = Without(s, id)
    BY <1>1
  <2> HIDE DEF s, E, r
  <2>3. /\ Without(s, id) \in Seq(E)
        /\ Len(Without(s, id)) = IF id \in Ids(s) THEN Len(s) - 1 ELSE Len(s)
        /\ Distinct(Without(s, id))
        /\ Ids(Without(s, id)) = Ids(s) \ {id}
        /\ InOrder(s) => InOrder(Without(s, id))
    BY <2>1, SideWithout
  <2>4. Len(s) \in Nat /\ MaxOrdersPerPair \in Nat
    BY <2>1, LenProperties, MaxOrdersPerPairAssumption
  <2>5. Len(Without(s, id)) <= MaxOrdersPerPair
    BY <2>1, <2>3, <2>4
  <2> QED BY <2>1, <2>2, <2>3, <2>5 DEF SideInv, s, E
<1>3. Ids(b["buy"]) \cap Ids(b["sell"]) = {}
  BY DEF BookInv
<1> HIDE DEF r
<1>4. /\ Ids(r["buy"]) = Ids(b["buy"]) \ {id}
      /\ Ids(r["sell"]) = Ids(b["sell"]) \ {id}
  BY <1>2 DEF Sides
<1>5. r = [side \in Sides |-> r[side]]
  BY <1>1
<1>6. BookInv(p, r)
  <2>1. Ids(r["buy"]) \cap Ids(r["sell"]) = {}
    BY <1>3, <1>4
  <2> QED BY <1>2, <1>5, <2>1, BookOfSides
<1> QED BY <1>4, <1>6 DEF BookIds, r

(* A book is well formed after AddOrder and gains at most the new order.    *)
LEMMA AddKeepsBook ==
    ASSUME NEW o \in Orders, NEW b, BookInv(o.pair, b)
    PROVE  /\ BookInv(o.pair, AddOrderToBook(b, o))
           /\ BookIds(AddOrderToBook(b, o)) \subseteq
                IF Left(o) > 0 THEN BookIds(b) \cup {o.id} ELSE BookIds(b) \ {o.id}
<1> DEFINE p == o.pair
           c == RemoveOrderFromBook(b, o.id)
           r == AddOrderToBook(b, o)
           E == Entry(p, o.side)
           s == EvictWorst(c[o.side])
           e == Resting(o)
<1>1. o \in OrderType /\ o.status \in {"open", "partial"} /\ OfPair(o.id, p, o.side)
  <2>1. o \in OrderType /\ o.status \in {"open", "partial"}
    BY OrdersAssumption
  <2>2. \A o2 \in Orders : o2.id = o.id => o2.pair = p /\ o2.side = o.side
    BY OrdersAssumption
  <2>3. \A snap \in Snapshots : \A side \in Sides : \A i \in DOMAIN snap.book[side] :
            snap.book[side][i].id = o.id => snap.pair = p
    BY SnapshotsAssumption
  <2> QED BY <2>1, <2>2, <2>3 DEF OfPair
<1>2. o.side \in Sides /\ o.pair \in Pairs /\ Left(o) \in Int
  BY <1>1 DEF OrderType, Left
<1>3. BookInv(p, c) /\ BookIds(c) = BookIds(b) \ {o.id}
  BY RemoveKeepsBook
<1>4. CASE ~(Left(o) > 0)
  <2>1. r = c
    BY <1>2, <1>4 DEF AddOrderToBook
  <2> QED BY <1>3, <1>4, <2>1
<1>5. CASE Left(o) > 0
  <2>1. r = [c EXCEPT ![o.side] = InsertOrderSorted(EvictWorst(@), Resting(o))]
    BY <1>2, <1>5 DEF AddOrderToBook
  <2>2. e \in E /\ e.id = o.id
    BY <1>1, <1>5, RestingIsEntry
  <2> HIDE DEF c, r, e
  <2>3. c = [side \in Sides |-> c[side]] /\ \A side \in Sides : SideInv(p, side, c[side])
    BY <1>3 DEF BookInv, BookType
  <2>4. /\ c[o.side] \in Seq(E) /\ Distinct(c[o.side]) /\ InOrder(c[o.side])
        /\ Len(c[o.side]) <= MaxOrdersPerPair
    BY <1>2, <2>3 DEF SideInv
  <2> HIDE DEF E
  <2>5. /\ s \in Seq(E) /\ Distinct(s) /\ InOrder(s) /\ Len(s) < MaxOrdersPerPair
        /\ Ids(s) \subseteq Ids(c[o.side])
    BY <2>4, SideEvicted
  <2> HIDE DEF s
  <2>6. o.id \notin BookIds(c)
    BY <1>3
  <2>7. Ids(c[o.side]) \subseteq BookIds(c)
    BY <1>2 DEF BookIds, Sides
  <2> DEFINE t == InsertOrderSorted(s, e)
  <2>8. /\ t \in Seq(E) /\ Len(t) = Len(s) + 1 /\ Distinct(t) /\ InOrder(t)
        /\ Ids(t) = Ids(s) \cup {e.id}
    <3>1. OneSided(E)
      BY EntriesAreOneSided DEF E
    <3>2. e.id \notin Ids(s)
      BY <2>2, <2>5, <2>6, <2>7
    <3> QED BY <2>2, <2>5, <3>1, <3>2, SideInserted
  <2> HIDE DEF t
  <2>9. Len(t) <= MaxOrdersPerPair
    <3>1. Len(s) \in Nat /\ MaxOrdersPerPair \in Nat
      BY <2>5, LenProperties, MaxOrdersPerPairAssumption
    <3> QED BY <2>5, <2>8, <3>1
  <2>10. r = [c EXCEPT ![o.side] = t]
    BY <2>1 DEF t, s, e
  <2>11. \A side \in Sides : r[side] = IF side = o.side THEN t ELSE c[side]
    BY <2>3, <2>10
  <2>12. r = [side \in Sides |-> r[side]]
    BY <2>3, <2>10
  <2>13. SideInv(p, o.side, t)
    BY <2>8, <2>9 DEF SideInv, E
  <2>14. \A side \in Sides : SideInv(p, side, r[side])
    BY <2>3, <2>11, <2>13
  <2>15. Ids(c["buy"]) \cap Ids(c["sell"]) = {}
    BY <1>3 DEF BookInv
  <2>16. Ids(t) \subseteq Ids(c[o.side]) \cup {o.id}
    BY <2>2, <2>5, <2>8
  <2>17. /\ Ids(r["buy"]) \cap Ids(r["sell"]) = {}
         /\ BookIds(r) \subseteq BookIds(c) \cup {o.id}
    <3>1. CASE o.side = "buy"
      <4>1. r["buy"] = t /\ r["sell"] = c["sell"]
        BY <2>11, <3>1 DEF Sides
      <4> QED BY <2>6, <2>15, <2>16, <3>1, <4>1 DEF BookIds
    <3>2. CASE o.side = "sell"
      <4>1. r["buy"] = c["buy"] /\ r["sell"] = t
        BY <2>11, <3>2 DEF Sides
      <4> QED BY <2>6, <2>15, <2>16, <3>2, <4>1 DEF BookIds
    <3> QED BY <1>2, <3>1, <3>2 DEF Sides
  <2>18. BookInv(p, r)
    BY <2>12, <2>14, <2>17, BookOfSides
  <2>19. BookIds(r) \subseteq BookIds(b) \cup {o.id}
    BY <1>3, <2>17
  <2> QED BY <1>5, <2>18, <2>19 DEF r
<1> QED BY <1>4, <1>5

(* A filtered, sorted snapshot is a well-formed book of its pair.           *)
LEMMA ReplaceKeepsBook ==
    ASSUME NEW snap \in Snapshots, NEW now
    PROVE  /\ BookInv(snap.pair, [side \in Sides |-> ReplacementSide(snap.book[side], now)])
           /\ BookIds([side \in Sides |-> ReplacementSide(snap.book[side], now)])
                \subseteq BookIds(snap.book)
<1> DEFINE p == snap.pair
           b == snap.book
           r == [side \in Sides |-> ReplacementSide(b[side], now)]
<1>1. /\ b \in BookType
      /\ \A side \in Sides : Len(b[side]) <= MaxOrdersPerPair
      /\ \A side \in Sides : \A i \in DOMAIN b[side] :
            LET e == b[side][i] IN
            /\ e.side = side /\ e.pair = p /\ e.status \in {"open", "partial"}
            /\ \A o \in Orders : o.id = e.id => o.pair = e.pair /\ o.side = e.side
      /\ \A s1, s2 \in Sides : \A i \in DOMAIN b[s1], j \in DOMAIN b[s2] :
            b[s1][i].id = b[s2][j].id => s1 = s2 /\ i = j
  BY SnapshotsAssumption
<1>2. ASSUME NEW side \in Sides, NEW i \in DOMAIN b[side]
      PROVE  OfPair(b[side][i].id, p, side)
  <2>1. \A o \in Orders : o.id = b[side][i].id => o.pair = p /\ o.side = side
    BY <1>1
  <2>2. ASSUME NEW other \in Snapshots, NEW s2 \in Sides, NEW j \in DOMAIN other.book[s2],
               other.book[s2][j].id = b[side][i].id
        PROVE  other.pair = p
    BY <2>2, SnapshotPairsAssumption
  <2> QED BY <2>1, <2>2 DEF OfPair
<1>3. ASSUME NEW side \in Sides
      PROVE  SideInv(p, side, r[side]) /\ Ids(r[side]) \subseteq Ids(b[side])
  <2> DEFINE s == b[side]
             E == Entry(p, side)
  <2>1. s \in Seq(OrderType)
    BY <1>1 DEF BookType
  <2>2. Len(s) \in Nat /\ DOMAIN s = 1 .. Len(s)
    BY <2>1, LenProperties
  <2>3. Distinct(s)
    BY <1>1, <2>2 DEF Distinct
  <2>4. ASSUME NEW i \in 1 .. Len(s), Admissible(s[i], now)
        PROVE  Resting(s[i]) \in E
    <3>1. s[i] \in OrderType
      BY <2>1, <2>2, ElementOfSeq
    <3>2. OfPair(s[i].id, p, side)
      BY <1>2, <2>2
    <3>3. s[i].side = side /\ s[i].pair = p /\ s[i].status \in {"open", "partial"}
      BY <1>1, <2>2
    <3> QED BY <2>4, <3>1, <3>2, <3>3, RestingIsEntry DEF Admissible
  <2>5. OneSided(E)
    BY EntriesAreOneSided
  <2>6. r[side] = ReplacementSide(s, now)
    OBVIOUS
  <2>7. Len(s) <= MaxOrdersPerPair
    BY <1>1
  <2> HIDE DEF s, E, r
  <2>8. /\ ReplacementSide(s, now) \in Seq(E)
        /\ Len(ReplacementSide(s, now)) <= Len(s)
        /\ Distinct(ReplacementSide(s, now))
        /\ Ids(ReplacementSide(s, now)) \subseteq Ids(s)
        /\ InOrder(ReplacementSide(s, now))
    BY <2>1, <2>3, <2>4, <2>5, SideReplaced
  <2>9. Len(ReplacementSide(s, now)) <= MaxOrdersPerPair
    <3>1. Len(ReplacementSide(s, now)) \in Nat /\ MaxOrdersPerPair \in Nat
      BY <2>8, LenProperties, MaxOrdersPerPairAssumption
    <3> QED BY <2>2, <2>7, <2>8, <3>1
  <2> QED BY <2>6, <2>8, <2>9 DEF SideInv, s, E
<1>4. Ids(b["buy"]) \cap Ids(b["sell"]) = {}
  <2>1. /\ DOMAIN b["buy"] = 1 .. Len(b["buy"])
        /\ DOMAIN b["sell"] = 1 .. Len(b["sell"])
    BY <1>1, LenProperties DEF BookType, Sides
  <2>2. \A i \in DOMAIN b["buy"], j \in DOMAIN b["sell"] : b["buy"][i].id # b["sell"][j].id
    BY <1>1 DEF Sides
  <2> QED BY <2>1, <2>2 DEF Ids
<1>5. r = [side \in Sides |-> r[side]]
  OBVIOUS
<1> HIDE DEF r
<1>6. Ids(r["buy"]) \cap Ids(r["sell"]) = {}
  BY <1>3, <1>4 DEF Sides
<1>7. BookInv(p, r)
  BY <1>3, <1>5, <1>6, BookOfSides
<1>8. BookIds(r) \subseteq BookIds(b)
  BY <1>3 DEF BookIds, Sides
<1> QED BY <1>7, <1>8 DEF r

(* Clearing filled orders away after a Match keeps the book well formed.    *)
LEMMA TrimKeepsBook ==
    ASSUME NEW p, NEW b, BookInv(p, b)
    PROVE  /\ BookInv(p, [side \in Sides |-> TrimFilled(b[side])])
           /\ BookIds([side \in Sides |-> TrimFilled(b[side])]) \subseteq BookIds(b)
<1> DEFINE r == [side \in Sides |-> TrimFilled(b[side])]
<1>1. ASSUME NEW side \in Sides
      PROVE  SideInv(p, side, r[side]) /\ Ids(r[side]) \subseteq Ids(b[side])
  <2> DEFINE s == b[side]
             E == Entry(p, side)
             keep == {i \in DOMAIN s : s[i].status # "filled"}
  <2>1. s \in Seq(E) /\ Distinct(s) /\ InOrder(s) /\ Len(s) <= MaxOrdersPerPair
    BY DEF BookInv, SideInv
  <2>2. r[side] = KeepAt(s, keep)
    BY DEF TrimFilled
  <2> HIDE DEF s, E, r
  <2>3. keep \in SUBSET (1 .. Len(s))
    BY <2>1, LenProperties
  <2> HIDE DEF keep
  <2>4. /\ KeepAt(s, keep) \in Seq(E)
        /\ Len(KeepAt(s, keep)) <= Len(s)
        /\ Distinct(KeepAt(s, keep))
        /\ Ids(KeepAt(s, keep)) \subseteq Ids(s)
        /\ InOrder(KeepAt(s, keep))
    BY <2>1, <2>3, SideKept
  <2>5. Len(KeepAt(s, keep)) <= MaxOrdersPerPair
    <3>1. Len(KeepAt(s, keep)) \in Nat /\ Len(s) \in Nat /\ MaxOrdersPerPair \in Nat
      BY <2>1, <2>4, LenProperties, MaxOrdersPerPairAssumption
    <3> QED BY <2>1, <2>4, <3>1
  <2> QED BY <2>2, <2>4, <2>5 DEF SideInv, s, E
<1>2. r = [side \in Sides |-> r[side]]
  OBVIOUS
<1>3. Ids(b["buy"]) \cap Ids(b["sell"]) = {}
  BY DEF BookInv
<1> HIDE DEF r
<1>4. Ids(r["buy"]) \subseteq Ids(b["buy"]) /\ Ids(r["sell"]) \subseteq Ids(b["sell"])
  BY <1>1 DEF Sides
<1>5. Ids(r["buy"]) \cap Ids(r["sell"]) = {}
  BY <1>3, <1>4
<1>6. BookInv(p, r)
  BY <1>1, <1>2, <1>5, BookOfSides
<1> QED BY <1>4, <1>6 DEF BookIds, r

(* The first order of a side leaves, or is filled in part.                  *)
LEMMA FirstLeaves ==
    ASSUME NEW p, NEW side, NEW s, SideInv(p, side, s), s # <<>>
    PROVE  SideInv(p, side, Tail(s)) /\ Ids(Tail(s)) \subseteq Ids(s)
<1> DEFINE E == Entry(p, side)
           r == Tail(s)
<1>1. s \in Seq(E) /\ Distinct(s) /\ InOrder(s) /\ Len(s) <= MaxOrdersPerPair
  BY DEF SideInv
<1>2. Len(s) \in Nat /\ MaxOrdersPerPair \in Nat
  BY <1>1, LenProperties, MaxOrdersPerPairAssumption
<1> HIDE DEF E, r
<1>3. /\ r \in Seq(E) /\ Len(r) = Len(s) - 1
      /\ \A i \in 1 .. Len(r) : r[i] = s[i + 1] /\ i + 1 \in 1 .. Len(s)
  <2>1. /\ Tail(s) \in Seq(E) /\ Len(Tail(s)) = Len(s) - 1
        /\ \A i \in 1 .. Len(Tail(s)) : Tail(s)[i] = s[i + 1]
    BY <1>1, HeadTailProperties
  <2> QED BY <1>2, <2>1 DEF r
<1>4. Distinct(r)
  <2> SUFFICES ASSUME NEW i \in 1 .. Len(r), NEW j \in 1 .. Len(r), r[i].id = r[j].id
               PROVE  i = j
    BY DEF Distinct
  <2>1. i + 1 = j + 1
    BY <1>1, <1>3 DEF Distinct
  <2> QED BY <2>1, <1>2, <1>3
<1>5. InOrder(r)
  <2> SUFFICES ASSUME NEW i \in 1 .. Len(r), NEW j \in 1 .. Len(r), i < j
               PROVE  ~Ahead(r[j], r[i])
    BY DEF InOrder
  <2>1. i + 1 < j + 1
    BY <1>2, <1>3
  <2> QED BY <2>1, <1>1, <1>3 DEF InOrder
<1>6. Ids(r) \subseteq Ids(s)
  BY <1>3 DEF Ids
<1>7. Len(r) <= MaxOrdersPerPair
  BY <1>1, <1>2, <1>3
<1> QED BY <1>3, <1>4, <1>5, <1>6, <1>7 DEF SideInv, E, r

(* The first order of a side keeps its place when it is filled in part.     *)
LEMMA FirstIsFilled ==
    ASSUME NEW p, NEW side, NEW s, SideInv(p, side, s), s # <<>>,
           NEW filled \in Nat, filled < s[1].amount
    PROVE  LET r == [s EXCEPT ![1].filled = filled, ![1].status = "partial"] IN
           SideInv(p, side, r) /\ Ids(r) = Ids(s)
<1> DEFINE E == Entry(p, side)
           e == [s[1] EXCEPT !.filled = filled, !.status = "partial"]
           r == [s EXCEPT ![1].filled = filled, ![1].status = "partial"]
<1>1. s \in Seq(E) /\ Distinct(s) /\ InOrder(s) /\ Len(s) <= MaxOrdersPerPair
  BY DEF SideInv
<1>2. Len(s) \in Nat /\ Len(s) >= 1 /\ DOMAIN s = 1 .. Len(s) /\ s[1] \in E
  <2>1. Len(s) \in Nat /\ DOMAIN s = 1 .. Len(s) /\ Len(s) # 0
    BY <1>1, LenProperties, EmptySeq
  <2> QED BY <1>1, <2>1, ElementOfSeq
<1>3. e \in E /\ e.id = s[1].id /\ e.side = s[1].side /\ e.price = s[1].price
      /\ e.createdAt = s[1].createdAt
  <2>1. /\ s[1] \in OrderType /\ s[1].side = side /\ s[1].pair = p
        /\ OfPair(s[1].id, p, side)
    BY <1>2 DEF Entry
  <2>2. /\ e \in OrderType
        /\ e.id = s[1].id /\ e.side = s[1].side /\ e.pair = s[1].pair
        /\ e.price = s[1].price /\ e.amount = s[1].amount
        /\ e.createdAt = s[1].createdAt
        /\ e.filled = filled /\ e.status = "partial"
    BY <2>1 DEF OrderType, Statuses
  <2> HIDE DEF e
  <2>3. /\ e.status \in {"open", "partial"} /\ e.filled < e.amount
        /\ OfPair(e.id, p, side) /\ e.side = side /\ e.pair = p
    BY <2>1, <2>2
  <2>4. e \in E
    BY <2>2, <2>3 DEF Entry
  <2> QED BY <2>2, <2>4
<1>4. r = [s EXCEPT ![1] = e]
  BY <1>1, <1>2, <1>3
<1> HIDE DEF E, e, r
<1>5. /\ r \in Seq(E) /\ Len(r) = Len(s)
      /\ \A i \in 1 .. Len(s) : r[i] = IF i = 1 THEN e ELSE s[i]
  <2>1. 1 \in 1 .. Len(s)
    BY <1>2
  <2> QED BY <1>1, <1>3, <1>4, <2>1, ExceptSeq
<1>6. \A i \in 1 .. Len(s) : /\ r[i].id = s[i].id /\ r[i].side = s[i].side
                             /\ r[i].price = s[i].price /\ r[i].createdAt = s[i].createdAt
  BY <1>3, <1>5
<1>7. Distinct(r) /\ Ids(r) = Ids(s)
  BY <1>1, <1>5, <1>6 DEF Distinct, Ids
<1>8. InOrder(r)
  BY <1>1, <1>5, <1>6 DEF InOrder, Ahead
<1>9. SideInv(p, side, r) /\ Ids(r) = Ids(s)
  BY <1>1, <1>5, <1>7, <1>8 DEF SideInv, E
<1> QED BY <1>9 DEF r

-----------------------------------------------------------------------------
(* The identifiers on a well-formed book are those the engine finds there,  *)
(* and each has been submitted for this pair only.                          *)
LEMMA IdsOfBook ==
    ASSUME NEW p, NEW b, BookInv(p, b)
    PROVE  /\ RestingIds(b) = BookIds(b)
           /\ \A id \in BookIds(b) : \E side \in Sides : OfPair(id, p, side)
<1>1. ASSUME NEW side \in Sides, NEW i \in 1 .. Len(b[side])
      PROVE  b[side][i].id \in OrderIds /\ OfPair(b[side][i].id, p, side)
  <2>1. b[side] \in Seq(Entry(p, side))
    BY DEF BookInv, SideInv
  <2>2. b[side][i] \in Entry(p, side)
    BY <2>1, ElementOfSeq
  <2> QED BY <2>2 DEF Entry, OrderType
<1>2. \A side \in Sides : DOMAIN b[side] = 1 .. Len(b[side])
  <2> TAKE side \in Sides
  <2>1. b[side] \in Seq(Entry(p, side))
    BY DEF BookInv, SideInv
  <2> QED BY <2>1, LenProperties
<1>3. \A id : id \in BookIds(b) <=> \E side \in Sides : id \in Ids(b[side])
  BY DEF BookIds, Sides
<1>4. \A id : id \in RestingIds(b) <=> id \in BookIds(b)
  BY <1>1, <1>2, <1>3 DEF RestingIds, Ids
<1>5. \A id \in BookIds(b) : \E side \in Sides : OfPair(id, p, side)
  BY <1>1, <1>3 DEF Ids
<1> QED BY <1>4, <1>5

(* A step that changes one book and keeps the index right for it and for    *)
(* the others.                                                              *)
LEMMA OneBookChanges ==
    ASSUME NEW bs \in [Pairs -> BookType], NEW index, BooksInv(bs, index),
           NEW p \in Pairs, NEW b, BookInv(p, b), NEW index2,
           \A id \in BookIds(b) : index2[id] = p,
           \A q \in Pairs \ {p} : \A id \in BookIds(bs[q]) : index2[id] = q
    PROVE  /\ BooksInv([bs EXCEPT ![p] = b], index2)
           /\ [bs EXCEPT ![p] = b] \in [Pairs -> BookType]
<1> DEFINE bs2 == [bs EXCEPT ![p] = b]
<1>1. \A q \in Pairs : bs2[q] = IF q = p THEN b ELSE bs[q]
  OBVIOUS
<1>2. b \in BookType
  BY DEF BookInv
<1>3. bs2 \in [Pairs -> BookType]
  BY <1>2
<1> HIDE DEF bs2
<1>4. \A q \in Pairs : BookInv(q, bs2[q])
  <2> TAKE q \in Pairs
  <2>1. CASE q = p
    <3>1. bs2[q] = b
      BY <1>1, <2>1
    <3> QED BY <2>1, <3>1
  <2>2. CASE q # p
    <3>1. bs2[q] = bs[q]
      BY <1>1, <2>2
    <3>2. BookInv(q, bs[q])
      BY DEF BooksInv
    <3> QED BY <3>1, <3>2
  <2> QED BY <2>1, <2>2
<1>5. \A q \in Pairs : \A id \in BookIds(bs2[q]) : index2[id] = q
  <2> TAKE q \in Pairs
  <2>1. CASE q = p
    <3>1. bs2[q] = b
      BY <1>1, <2>1
    <3> QED BY <2>1, <3>1
  <2>2. CASE q # p
    <3>1. bs2[q] = bs[q]
      BY <1>1, <2>2
    <3> QED BY <2>2, <3>1
  <2> QED BY <2>1, <2>2
<1> QED BY <1>3, <1>4, <1>5 DEF BooksInv, bs2

(* The book of a pair nobody has traded yet.                                *)
LEMMA EmptyBookIsWellFormed ==
    ASSUME NEW p
    PROVE  BookInv(p, EmptyBook) /\ BookIds(EmptyBook) = {}
<1>1. \A side \in Sides : EmptyBook[side] = <<>>
  BY DEF EmptyBook
<1>2. Len(<<>>) = 0
  OBVIOUS
<1>3. Ids(<<>>) = {}
  BY <1>2 DEF Ids
<1>4. ASSUME NEW side \in Sides PROVE SideInv(p, side, EmptyBook[side])
  <2>1. <<>> \in Seq(Entry(p, side))
    OBVIOUS
  <2>2. Len(<<>>) <= MaxOrdersPerPair
    BY <1>2, MaxOrdersPerPairAssumption
  <2>3. Distinct(<<>>) /\ InOrder(<<>>)
    BY <1>2 DEF Distinct, InOrder
  <2> QED BY <1>1, <2>1, <2>2, <2>3 DEF SideInv
<1>5. Ids(EmptyBook["buy"]) = {} /\ Ids(EmptyBook["sell"]) = {}
  BY <1>1, <1>3 DEF Sides
<1>6. EmptyBook = [side \in Sides |-> EmptyBook[side]]
  BY DEF EmptyBook
<1>7. Ids(EmptyBook["buy"]) \cap Ids(EmptyBook["sell"]) = {}
  BY <1>5
<1> HIDE DEF EmptyBook
<1>8. BookInv(p, EmptyBook)
  BY <1>4, <1>6, <1>7, BookOfSides
<1> QED BY <1>5, <1>8 DEF BookIds

-----------------------------------------------------------------------------
(* The invariant holds in the engine New returns.                           *)
LEMMA IInvInitially == Init => IInv
<1> SUFFICES ASSUME Init PROVE IInv
  OBVIOUS
<1>1. books = [p \in Pairs |-> EmptyBook]
  BY DEF Init
<1>2. \A p \in Pairs : books[p] = EmptyBook
  BY <1>1
<1>3. \A p \in Pairs : BookInv(p, books[p]) /\ BookIds(books[p]) = {}
  BY <1>2, EmptyBookIsWellFormed
<1>4. BooksInv(books, orderIDToPair)
  BY <1>3 DEF BooksInv
<1>5. books \in [Pairs -> BookType]
  BY <1>1, <1>3 DEF BookInv
<1>6. /\ orderIDToPair \in [OrderIds -> Pairs \cup {NoPair}]
      /\ taker = NoTaker /\ trades \in Seq(TradeType)
      /\ before = NoTaker /\ clock \in Nat
  BY DEF Init
<1> QED BY <1>4, <1>5, <1>6 DEF IInv, TypeOK

(* What the invariant says of each book.                                    *)
LEMMA FromIInv ==
    ASSUME IInv
    PROVE  /\ books \in [Pairs -> BookType] /\ BooksInv(books, orderIDToPair)
           /\ orderIDToPair \in [OrderIds -> Pairs \cup {NoPair}]
           /\ \A q \in Pairs :
                /\ BookInv(q, books[q])
                /\ RestingIds(books[q]) = BookIds(books[q])
                /\ \A id \in BookIds(books[q]) :
                    /\ id \in OrderIds /\ orderIDToPair[id] = q
                    /\ \E side \in Sides : OfPair(id, q, side)
<1>1. books \in [Pairs -> BookType] /\ BooksInv(books, orderIDToPair)
      /\ orderIDToPair \in [OrderIds -> Pairs \cup {NoPair}]
  BY DEF IInv, TypeOK
<1>2. \A q \in Pairs : BookInv(q, books[q])
  BY <1>1 DEF BooksInv
<1>3. ASSUME NEW q \in Pairs
      PROVE  /\ RestingIds(books[q]) = BookIds(books[q])
             /\ \A id \in BookIds(books[q]) : \E side \in Sides : OfPair(id, q, side)
  BY <1>2, IdsOfBook
<1>4. ASSUME NEW q \in Pairs, NEW id \in BookIds(books[q])
      PROVE  id \in OrderIds /\ orderIDToPair[id] = q
  <2>1. orderIDToPair[id] = q
    BY <1>1 DEF BooksInv
  <2>2. id \in RestingIds(books[q])
    BY <1>3
  <2> QED BY <2>1, <2>2 DEF RestingIds
<1> QED BY <1>1, <1>2, <1>3, <1>4

(* One lemma per action: it keeps the invariant.                            *)
LEMMA AddOrderKeepsIInv ==
    ASSUME IInv, NEW o \in Orders, AddOrder(o)
    PROVE  IInv'
<1> DEFINE p == o.pair
           b == AddOrderToBook(books[p], o)
<1>1. o \in OrderType /\ \A o2 \in Orders : o2.id = o.id => o2.pair = p
  BY OrdersAssumption
<1>2. p \in Pairs /\ o.id \in OrderIds
  BY <1>1 DEF OrderType
<1>3. /\ books \in [Pairs -> BookType] /\ BooksInv(books, orderIDToPair)
      /\ orderIDToPair \in [OrderIds -> Pairs \cup {NoPair}]
      /\ BookInv(p, books[p])
  BY <1>2, FromIInv
<1>5. /\ BookInv(p, b)
      /\ BookIds(b) \subseteq
            IF Left(o) > 0 THEN BookIds(books[p]) \cup {o.id} ELSE BookIds(books[p]) \ {o.id}
  BY <1>3, AddKeepsBook
<1> HIDE DEF b
<1>6. books' = [books EXCEPT ![p] = b]
  BY DEF AddOrder, b
<1>7. orderIDToPair' = IF Left(o) > 0 THEN [orderIDToPair EXCEPT ![o.id] = p] ELSE orderIDToPair
  BY DEF AddOrder
<1>8. orderIDToPair' \in [OrderIds -> Pairs \cup {NoPair}]
  BY <1>2, <1>3, <1>7
<1>9. \A q \in Pairs : \A id \in BookIds(books[q]) : id \in OrderIds /\ orderIDToPair[id] = q
  BY FromIInv
<1>10. \A q \in Pairs \ {p} : o.id \notin BookIds(books[q])
  <2> SUFFICES ASSUME NEW q \in Pairs, q # p, o.id \in BookIds(books[q])
               PROVE  FALSE
    OBVIOUS
  <2>1. \E side \in Sides : OfPair(o.id, q, side)
    BY FromIInv
  <2> QED BY <2>1 DEF OfPair
<1>11. \A id \in BookIds(b) : orderIDToPair'[id] = p
  BY <1>2, <1>3, <1>5, <1>7, <1>9
<1>12. \A q \in Pairs \ {p} : \A id \in BookIds(books[q]) : orderIDToPair'[id] = q
  BY <1>3, <1>7, <1>9, <1>10
<1>13. books' \in [Pairs -> BookType] /\ BooksInv(books', orderIDToPair')
  BY <1>2, <1>3, <1>5, <1>6, <1>11, <1>12, OneBookChanges
<1>14. UNCHANGED <<taker, trades, before, clock>>
  BY DEF AddOrder
<1> QED BY <1>8, <1>13, <1>14 DEF IInv, TypeOK

(* The book an order is taken from is the one the index names; whatever     *)
(* rests under the identifier is gone with the index entry.                 *)
LEMMA RemovalKeepsIInv ==
    ASSUME IInv, NEW p \in Pairs, NEW id \in OrderIds,
           books' = [books EXCEPT ![p] = RemoveOrderFromBook(@, id)],
           \A q \in Pairs \ {p} : id \notin BookIds(books[q]),
           \/ orderIDToPair' = [orderIDToPair EXCEPT ![id] = NoPair]
           \/ orderIDToPair' = orderIDToPair,
           UNCHANGED <<taker, trades, before, clock>>
    PROVE  IInv'
<1> DEFINE b == RemoveOrderFromBook(books[p], id)
<1>1. /\ books \in [Pairs -> BookType] /\ BooksInv(books, orderIDToPair)
      /\ orderIDToPair \in [OrderIds -> Pairs \cup {NoPair}]
      /\ BookInv(p, books[p])
      /\ \A q \in Pairs : \A x \in BookIds(books[q]) : x \in OrderIds /\ orderIDToPair[x] = q
  BY FromIInv
<1>2. BookInv(p, b) /\ BookIds(b) = BookIds(books[p]) \ {id}
  BY <1>1, RemoveKeepsBook
<1> HIDE DEF b
<1>3. books' = [books EXCEPT ![p] = b]
  BY DEF b
<1>4. orderIDToPair' \in [OrderIds -> Pairs \cup {NoPair}]
  BY <1>1
<1>5. \A x \in OrderIds \ {id} : orderIDToPair'[x] = orderIDToPair[x]
  BY <1>1
<1>6. \A x \in BookIds(b) : orderIDToPair'[x] = p
  BY <1>1, <1>2, <1>5
<1>7. \A q \in Pairs \ {p} : \A x \in BookIds(books[q]) : orderIDToPair'[x] = q
  BY <1>1, <1>5
<1>8. books' \in [Pairs -> BookType] /\ BooksInv(books', orderIDToPair')
  <2>1. /\ [books EXCEPT ![p] = b] \in [Pairs -> BookType]
        /\ BooksInv([books EXCEPT ![p] = b], orderIDToPair')
    BY <1>1, <1>2, <1>6, <1>7, OneBookChanges
  <2> QED BY <1>3, <2>1
<1>9. /\ taker' \in OrderType \cup {NoTaker}
      /\ trades' \in Seq(TradeType)
      /\ before' \in [order : OrderType, book : BookType] \cup {NoTaker}
      /\ clock' \in Nat
  BY DEF IInv, TypeOK
<1>10. TypeOK'
  BY <1>4, <1>8, <1>9 DEF TypeOK
<1> QED BY <1>8, <1>10 DEF IInv

(* Without an index entry nobody rests under the identifier, whichever book *)
(* the engine tries.                                                        *)
LEMMA RemoveOrderByIdKeepsIInv ==
    ASSUME IInv, NEW id \in OrderIds, RemoveOrderById(id)
    PROVE  IInv'
<1>1. /\ orderIDToPair[id] \in Pairs \cup {NoPair}
      /\ \A q \in Pairs : id \in BookIds(books[q]) => orderIDToPair[id] = q
  BY FromIInv
<1>2. /\ orderIDToPair' = [orderIDToPair EXCEPT ![id] = NoPair]
      /\ UNCHANGED <<taker, trades, before, clock>>
  BY DEF RemoveOrderById
<1>3. PICK p \in Pairs : /\ books' = [books EXCEPT ![p] = RemoveOrderFromBook(@, id)]
                         /\ orderIDToPair[id] \in {p, NoPair}
  <2>1. CASE orderIDToPair[id] # NoPair
    BY <1>1, <2>1 DEF RemoveOrderById
  <2>2. CASE orderIDToPair[id] = NoPair
    <3> DEFINE holders == {p \in Pairs : id \in RestingIds(books[p])}
               tried == IF holders = {} THEN Pairs ELSE holders
    <3>1. \E p \in tried : books' = [books EXCEPT ![p] = RemoveOrderFromBook(@, id)]
      BY <2>2 DEF RemoveOrderById
    <3>2. tried \subseteq Pairs
      OBVIOUS
    <3> HIDE DEF tried
    <3> QED BY <2>2, <3>1, <3>2
  <2> QED BY <2>1, <2>2
<1>4. \A q \in Pairs \ {p} : id \notin BookIds(books[q])
  BY <1>1, <1>3, NoPairAssumption
<1> QED BY <1>2, <1>3, <1>4, RemovalKeepsIInv

(* The caller may name a pair the order does not rest in.                   *)
LEMMA RemoveOrderKeepsIInv ==
    ASSUME IInv, NEW p \in Pairs, NEW id \in OrderIds, RemoveOrder(p, id)
    PROVE  IInv'
<1> DEFINE b == RemoveOrderFromBook(books[p], id)
<1>1. /\ books' = [books EXCEPT ![p] = RemoveOrderFromBook(@, id)]
      /\ orderIDToPair' = IF id \in RestingIds(books[p])
                          THEN [orderIDToPair EXCEPT ![id] = NoPair] ELSE orderIDToPair
      /\ UNCHANGED <<taker, trades, before, clock>>
  BY DEF RemoveOrder
<1>2. \A q \in Pairs : /\ RestingIds(books[q]) = BookIds(books[q])
                       /\ id \in BookIds(books[q]) => orderIDToPair[id] = q
  BY FromIInv
<1>3. CASE id \in BookIds(books[p])
  <2>1. \A q \in Pairs \ {p} : id \notin BookIds(books[q])
    BY <1>2, <1>3
  <2> QED BY <1>1, <2>1, RemovalKeepsIInv
<1>4. CASE id \notin BookIds(books[p])
  <2>1. orderIDToPair' = orderIDToPair
    BY <1>1, <1>2, <1>4
  <2>2. /\ books \in [Pairs -> BookType] /\ BooksInv(books, orderIDToPair)
        /\ orderIDToPair \in [OrderIds -> Pairs \cup {NoPair}]
        /\ BookInv(p, books[p])
        /\ \A q \in Pairs : \A x \in BookIds(books[q]) : orderIDToPair[x] = q
    BY FromIInv
  <2>3. BookInv(p, b) /\ BookIds(b) = BookIds(books[p]) \ {id}
    BY <2>2, RemoveKeepsBook
  <2> HIDE DEF b
  <2>4. books' = [books EXCEPT ![p] = b]
    BY <1>1 DEF b
  <2>5. books' \in [Pairs -> BookType] /\ BooksInv(books', orderIDToPair')
    BY <2>1, <2>2, <2>3, <2>4, OneBookChanges
  <2> QED BY <1>1, <2>1, <2>2, <2>5 DEF IInv, TypeOK
<1> QED BY <1>3, <1>4

(* The identifiers of a snapshot rest in no other pair's book.              *)
LEMMA ReplaceOrderbookKeepsIInv ==
    ASSUME IInv, NEW snap \in Snapshots, ReplaceOrderbook(snap)
    PROVE  IInv'
<1> DEFINE p == snap.pair
           b == [side \in Sides |-> ReplacementSide(snap.book[side], clock)]
<1>1. p \in Pairs
  BY SnapshotsAssumption
<1>2. /\ books \in [Pairs -> BookType] /\ BooksInv(books, orderIDToPair)
      /\ orderIDToPair \in [OrderIds -> Pairs \cup {NoPair}]
      /\ RestingIds(books[p]) = BookIds(books[p])
      /\ \A q \in Pairs : \A id \in BookIds(books[q]) :
            /\ id \in OrderIds /\ orderIDToPair[id] = q
            /\ \E side \in Sides : OfPair(id, q, side)
  BY <1>1, FromIInv
<1>3. BookInv(p, b) /\ BookIds(b) \subseteq BookIds(snap.book)
  BY ReplaceKeepsBook
<1>4. books' = [books EXCEPT ![p] = b]
  BY DEF ReplaceOrderbook
<1> HIDE DEF b
<1>5. books'[p] = b
  BY <1>1, <1>2, <1>4
<1>6. RestingIds(b) = BookIds(b) /\ BookIds(b) \subseteq OrderIds
  BY <1>3, IdsOfBook DEF RestingIds
<1>7. orderIDToPair' = [id \in OrderIds |->
            IF id \in BookIds(b) THEN p
            ELSE IF id \in BookIds(books[p]) THEN NoPair ELSE orderIDToPair[id]]
  BY <1>2, <1>5, <1>6 DEF ReplaceOrderbook
<1>8. orderIDToPair' \in [OrderIds -> Pairs \cup {NoPair}]
  BY <1>1, <1>2, <1>7
<1>9. ASSUME NEW q \in Pairs, q # p, NEW id \in BookIds(books[q])
      PROVE  id \notin BookIds(b) /\ id \notin BookIds(books[p])
  <2>1. id \notin BookIds(books[p])
    BY <1>1, <1>2, <1>9
  <2>2. ASSUME id \in BookIds(snap.book) PROVE FALSE
    <3>1. PICK s \in Sides : id \in Ids(snap.book[s])
      BY <2>2 DEF BookIds, Sides
    <3>2. PICK i \in 1 .. Len(snap.book[s]) : snap.book[s][i].id = id
      BY <3>1 DEF Ids
    <3>3. i \in DOMAIN snap.book[s]
      <4>1. snap.book[s] \in Seq(OrderType)
        BY SnapshotsAssumption DEF BookType
      <4> QED BY <4>1, LenProperties
    <3>4. \E side \in Sides : OfPair(id, q, side)
      BY <1>2
    <3> QED BY <1>9, <3>2, <3>3, <3>4 DEF OfPair
  <2> QED BY <1>3, <2>1, <2>2
<1>10. \A id \in BookIds(b) : orderIDToPair'[id] = p
  BY <1>6, <1>7
<1>11. \A q \in Pairs \ {p} : \A id \in BookIds(books[q]) : orderIDToPair'[id] = q
  BY <1>2, <1>7, <1>9
<1>12. books' \in [Pairs -> BookType] /\ BooksInv(books', orderIDToPair')
  BY <1>1, <1>2, <1>3, <1>4, <1>10, <1>11, OneBookChanges
<1>13. UNCHANGED <<taker, trades, before, clock>>
  BY DEF ReplaceOrderbook
<1> QED BY <1>8, <1>12, <1>13 DEF IInv, TypeOK

(* Matching. The taker is a value of its own; the book it works on is       *)
(* changed one maker at a time.                                             *)
LEMMA MatchBeginKeepsIInv ==
    ASSUME IInv, NEW o \in Orders, MatchBegin(o)
    PROVE  IInv'
<1>1. o \in OrderType /\ o.pair \in Pairs
  BY OrdersAssumption DEF OrderType
<1>2. books \in [Pairs -> BookType] /\ BooksInv(books, orderIDToPair)
      /\ orderIDToPair \in [OrderIds -> Pairs \cup {NoPair}] /\ clock \in Nat
  BY DEF IInv, TypeOK
<1>3. /\ taker' = o /\ trades' = <<>> /\ before' = [order |-> o, book |-> books[o.pair]]
      /\ UNCHANGED <<books, orderIDToPair, clock>>
  BY DEF MatchBegin
<1>4. before' \in [order : OrderType, book : BookType]
  BY <1>1, <1>2, <1>3
<1>5. trades' \in Seq(TradeType)
  BY <1>3
<1>6. TypeOK'
  BY <1>1, <1>2, <1>3, <1>4, <1>5 DEF TypeOK
<1> QED BY <1>2, <1>3, <1>6 DEF IInv

(* The book of the taker's pair is replaced by one with no new identifier.  *)
LEMMA MatchedBook ==
    ASSUME IInv, NEW p \in Pairs, NEW b, BookInv(p, b), BookIds(b) \subseteq BookIds(books[p])
    PROVE  /\ [books EXCEPT ![p] = b] \in [Pairs -> BookType]
           /\ BooksInv([books EXCEPT ![p] = b], orderIDToPair)
<1>1. /\ books \in [Pairs -> BookType] /\ BooksInv(books, orderIDToPair)
      /\ \A q \in Pairs : \A x \in BookIds(books[q]) : orderIDToPair[x] = q
  BY FromIInv
<1>2. /\ \A x \in BookIds(b) : orderIDToPair[x] = p
      /\ \A q \in Pairs \ {p} : \A x \in BookIds(books[q]) : orderIDToPair[x] = q
  BY <1>1
<1> QED BY <1>1, <1>2, OneBookChanges

(* The sides are cleared and the taker is handed back.                      *)
LEMMA MatchEndKeepsIInv ==
    ASSUME IInv, MatchEnd
    PROVE  IInv'
<1> DEFINE p == taker.pair
           b == [side \in Sides |-> TrimFilled(books[p][side])]
<1>1. taker \in OrderType /\ p \in Pairs
  BY DEF IInv, TypeOK, MatchEnd, OrderType
<1>2. BookInv(p, books[p])
  BY <1>1, FromIInv
<1>3. BookInv(p, b) /\ BookIds(b) \subseteq BookIds(books[p])
  BY <1>2, TrimKeepsBook
<1>4. books' = [books EXCEPT ![p] = b]
  BY DEF MatchEnd
<1> HIDE DEF b, p
<1>5. books' \in [Pairs -> BookType] /\ BooksInv(books', orderIDToPair)
  BY <1>1, <1>3, <1>4, MatchedBook
<1>6. /\ taker' = NoTaker /\ trades' = <<>> /\ before' = NoTaker
      /\ orderIDToPair' = orderIDToPair /\ clock' = clock
  BY DEF MatchEnd
<1>7. orderIDToPair \in [OrderIds -> Pairs \cup {NoPair}] /\ clock \in Nat
  BY DEF IInv, TypeOK
<1>8. trades' \in Seq(TradeType)
  BY <1>6
<1>9. TypeOK'
  BY <1>5, <1>6, <1>7, <1>8 DEF TypeOK
<1> QED BY <1>5, <1>6, <1>9 DEF IInv

(* What an iteration of the loop finds and computes.                        *)
LEMMA FillFacts ==
    ASSUME IInv, taker # NoTaker, CanFill
    PROVE  LET other == Opposite(taker.side)
               maker == OppositeSide[1]
               qty   == SmallerOf(Left(taker), Left(maker))
           IN  /\ taker \in OrderType /\ taker.pair \in Pairs /\ other \in Sides
               /\ BookInv(taker.pair, books[taker.pair])
               /\ SideInv(taker.pair, other, OppositeSide) /\ OppositeSide # <<>>
               /\ maker \in Entry(taker.pair, other)
               /\ qty \in Nat /\ qty > 0 /\ qty <= Left(maker) /\ qty <= Left(taker)
               /\ maker.filled + qty <= maker.amount
               /\ (Left(maker) # qty => maker.filled + qty < maker.amount)
<1> DEFINE other == Opposite(taker.side)
           maker == OppositeSide[1]
           qty   == SmallerOf(Left(taker), Left(maker))
<1>1. taker \in OrderType /\ taker.pair \in Pairs /\ other \in Sides
  BY DEF IInv, TypeOK, OrderType, Opposite, Sides
<1>2. BookInv(taker.pair, books[taker.pair])
  BY <1>1, FromIInv
<1>3. SideInv(taker.pair, other, OppositeSide) /\ OppositeSide # <<>>
  BY <1>1, <1>2 DEF BookInv, OppositeSide, CanFill
<1>4. maker \in Entry(taker.pair, other)
  <2>1. OppositeSide \in Seq(Entry(taker.pair, other))
    BY <1>3 DEF SideInv
  <2>2. Len(OppositeSide) \in Nat /\ Len(OppositeSide) # 0
    BY <1>3, <2>1, LenProperties, EmptySeq
  <2>3. 1 \in 1 .. Len(OppositeSide)
    BY <2>2
  <2> QED BY <2>1, <2>3, ElementOfSeq
<1>5. /\ maker.amount \in Nat /\ maker.filled \in Nat /\ maker.filled < maker.amount
  BY <1>4 DEF Entry, OrderType
<1>6. taker.amount \in Nat /\ taker.filled \in Nat /\ Left(taker) > 0
  BY <1>1 DEF OrderType, CanFill
<1> HIDE DEF maker, other
<1>7. /\ qty \in Nat /\ qty > 0 /\ qty <= Left(maker) /\ qty <= Left(taker)
      /\ maker.filled + qty <= maker.amount
      /\ (Left(maker) # qty => maker.filled + qty < maker.amount)
  BY <1>5, <1>6 DEF SmallerOf, Left
<1> QED BY <1>1, <1>2, <1>3, <1>4, <1>7 DEF maker, other

(* A side that stays well formed with no new identifier keeps its book well *)
(* formed.                                                                  *)
LEMMA OneSideChanges ==
    ASSUME NEW p, NEW b, BookInv(p, b), NEW side \in Sides, NEW s,
           SideInv(p, side, s), Ids(s) \subseteq Ids(b[side])
    PROVE  /\ BookInv(p, [b EXCEPT ![side] = s])
           /\ BookIds([b EXCEPT ![side] = s]) \subseteq BookIds(b)
<1> DEFINE r == [b EXCEPT ![side] = s]
<1>1. /\ b = [x \in Sides |-> b[x]] /\ \A x \in Sides : SideInv(p, x, b[x])
      /\ Ids(b["buy"]) \cap Ids(b["sell"]) = {}
  BY DEF BookInv, BookType
<1>2. \A x \in Sides : r[x] = IF x = side THEN s ELSE b[x]
  BY <1>1
<1>3. r = [x \in Sides |-> r[x]]
  BY <1>1
<1> HIDE DEF r
<1>4. \A x \in Sides : SideInv(p, x, r[x]) /\ Ids(r[x]) \subseteq Ids(b[x])
  BY <1>1, <1>2
<1>5. Ids(r["buy"]) \subseteq Ids(b["buy"]) /\ Ids(r["sell"]) \subseteq Ids(b["sell"])
  BY <1>4 DEF Sides
<1>6. Ids(r["buy"]) \cap Ids(r["sell"]) = {}
  BY <1>1, <1>5
<1>7. BookInv(p, r)
  BY <1>3, <1>4, <1>6, BookOfSides
<1> QED BY <1>5, <1>7 DEF BookIds, r

(* One iteration of the loop: the maker leaves, or stays with a remainder.  *)
LEMMA MatchFillKeepsIInv ==
    ASSUME IInv, MatchFill
    PROVE  IInv'
<1> DEFINE p     == taker.pair
           other == Opposite(taker.side)
           s     == OppositeSide
           maker == OppositeSide[1]
           qty   == SmallerOf(Left(taker), Left(maker))
           f     == maker.filled + qty
           cut   == IF Left(maker) = qty THEN Tail(s)
                    ELSE [s EXCEPT ![1].filled = f, ![1].status = "partial"]
           b     == [books[p] EXCEPT ![other] = cut]
<1>1. /\ taker \in OrderType /\ p \in Pairs /\ other \in Sides
      /\ BookInv(p, books[p])
      /\ SideInv(p, other, s) /\ s # <<>>
      /\ maker \in Entry(p, other)
      /\ qty \in Nat /\ qty > 0
      /\ (Left(maker) # qty => f < maker.amount)
  BY FillFacts DEF MatchFill
<1>2. /\ trades' = IF qty > 0
                   THEN Append(trades, Trade(taker, maker, qty, Len(trades) + 1)) ELSE trades
      /\ taker' = [taker EXCEPT !.filled = @ + qty]
      /\ books' = [books EXCEPT ![p][other] =
                IF Left(maker) = qty THEN Tail(@)
                ELSE [@ EXCEPT ![1].filled = f, ![1].status = "partial"]]
      /\ UNCHANGED <<orderIDToPair, before, clock>>
  BY DEF MatchFill
<1>3. s = books[p][other]
  BY DEF OppositeSide
<1>4. books' = [books EXCEPT ![p] = b]
  BY <1>2, <1>3
<1>5. f \in Nat
  BY <1>1 DEF Entry, OrderType
<1>6. SideInv(p, other, cut) /\ Ids(cut) \subseteq Ids(s)
  <2> HIDE DEF s, f, p, other, qty, maker
  <2>1. CASE Left(maker) = qty
    <3>1. cut = Tail(s)
      BY <2>1
    <3> QED BY <1>1, <3>1, FirstLeaves
  <2>2. CASE Left(maker) # qty
    <3>1. cut = [s EXCEPT ![1].filled = f, ![1].status = "partial"]
      BY <2>2
    <3>2. f < s[1].amount
      BY <1>1, <2>2 DEF maker, s
    <3> HIDE DEF cut
    <3> QED BY <1>1, <1>5, <3>1, <3>2, FirstIsFilled
  <2> QED BY <2>1, <2>2
<1> HIDE DEF cut
<1>7. BookInv(p, b) /\ BookIds(b) \subseteq BookIds(books[p])
  BY <1>1, <1>3, <1>6, OneSideChanges
<1> HIDE DEF b, s
<1>8. books' \in [Pairs -> BookType] /\ BooksInv(books', orderIDToPair)
  BY <1>1, <1>4, <1>7, MatchedBook
<1>9. taker' \in OrderType
  BY <1>1, <1>2 DEF OrderType
<1>10. trades' \in Seq(TradeType)
  <2>1. trades \in Seq(TradeType)
    BY DEF IInv, TypeOK
  <2>2. Len(trades) + 1 \in Nat
    BY <2>1, LenProperties
  <2>3. maker.id \in OrderIds /\ maker.price \in Nat
    BY <1>1 DEF Entry, OrderType
  <2>4. taker.id \in OrderIds /\ taker.pair \in Pairs
    BY <1>1 DEF OrderType
  <2>5. Trade(taker, maker, qty, Len(trades) + 1) \in TradeType
    <3> HIDE DEF maker, qty
    <3> QED BY <1>1, <2>2, <2>3, <2>4 DEF Trade, TradeType
  <2> HIDE DEF maker, qty
  <2> QED BY <1>1, <1>2, <2>1, <2>5, AppendProperties
<1>11. /\ orderIDToPair' \in [OrderIds -> Pairs \cup {NoPair}]
       /\ before' \in [order : OrderType, book : BookType] \cup {NoTaker}
       /\ clock' \in Nat
  BY <1>2 DEF IInv, TypeOK
<1>12. TypeOK'
  BY <1>8, <1>9, <1>10, <1>11 DEF TypeOK
<1> QED BY <1>2, <1>8, <1>12 DEF IInv

(* Time passes and no book changes.                                         *)
LEMMA TickKeepsIInv ==
    ASSUME IInv, Tick
    PROVE  IInv'
<1>1. /\ clock' = clock + 1
      /\ UNCHANGED <<books, orderIDToPair, taker, trades, before>>
  BY DEF Tick
<1>2. TypeOK' /\ BooksInv(books', orderIDToPair')
  BY <1>1 DEF IInv, TypeOK
<1> QED BY <1>2 DEF IInv

-----------------------------------------------------------------------------
(* Every step of the engine keeps the invariant.                            *)
LEMMA StepKeepsIInv == IInv /\ [Next]_vars => IInv'
<1> SUFFICES ASSUME IInv, [Next]_vars PROVE IInv'
  OBVIOUS
<1>1. ASSUME NEW o \in Orders, AddOrder(o) PROVE IInv'
  BY <1>1, AddOrderKeepsIInv
<1>2. ASSUME NEW o \in Orders, MatchBegin(o) PROVE IInv'
  BY <1>2, MatchBeginKeepsIInv
<1>3. ASSUME NEW id \in OrderIds, RemoveOrderById(id) PROVE IInv'
  BY <1>3, RemoveOrderByIdKeepsIInv
<1>4. ASSUME NEW id \in OrderIds, NEW p \in Pairs, RemoveOrder(p, id) PROVE IInv'
  BY <1>4, RemoveOrderKeepsIInv
<1>5. ASSUME NEW snap \in Snapshots, ReplaceOrderbook(snap) PROVE IInv'
  BY <1>5, ReplaceOrderbookKeepsIInv
<1>6. CASE MatchFill
  BY <1>6, MatchFillKeepsIInv
<1>7. CASE MatchEnd
  BY <1>7, MatchEndKeepsIInv
<1>8. CASE Tick
  BY <1>8, TickKeepsIInv
<1>9. CASE UNCHANGED vars
  BY <1>9 DEF IInv, TypeOK, vars
<1> QED BY <1>1, <1>2, <1>3, <1>4, <1>5, <1>6, <1>7, <1>8, <1>9 DEF Next

(* The invariant holds in every state the engine reaches: whatever rests    *)
(* belongs where it rests and the index knows where that is.                *)
THEOREM Invariance == Spec => []IInv
BY IInvInitially, StepKeepsIInv, PTL DEF Spec

(* Variables stay in their types, whatever order, removal, snapshot or      *)
(* match the engine is given.                                               *)
THEOREM TypeCorrect == Spec => []TypeOK
<1>1. IInv => TypeOK
  BY DEF IInv
<1> QED BY <1>1, Invariance, PTL

(* Price-time priority: every side of every book is in price-time order in  *)
(* every state, in the middle of a Match and after a replacement too.       *)
THEOREM PriceTimePriority == Spec => []PriceTimeSorted
<1>1. IInv => PriceTimeSorted
  <2> SUFFICES ASSUME IInv, NEW p \in Pairs, NEW side \in Sides
               PROVE  SortedSide(books[p][side])
    BY DEF PriceTimeSorted
  <2>1. BookInv(p, books[p])
    BY FromIInv
  <2>2. books[p][side] \in Seq(Entry(p, side)) /\ InOrder(books[p][side])
    BY <2>1 DEF BookInv, SideInv
  <2> QED BY <2>2, InOrderIsSorted
<1> QED BY <1>1, Invariance, PTL

(* A redelivered order replaces its copy: no order rests twice in a pair's  *)
(* book, neither on one side nor on both.                                   *)
THEOREM NoDuplicates == Spec => []OneCopyPerBook
<1>1. IInv => OneCopyPerBook
  <2> SUFFICES ASSUME IInv, NEW p \in Pairs, NEW s1 \in Sides, NEW s2 \in Sides,
                      NEW i \in DOMAIN books[p][s1], NEW j \in DOMAIN books[p][s2],
                      books[p][s1][i].id = books[p][s2][j].id
               PROVE  s1 = s2 /\ i = j
    BY DEF OneCopyPerBook
  <2>1. BookInv(p, books[p])
    BY FromIInv
  <2>2. \A side \in Sides : /\ DOMAIN books[p][side] = 1 .. Len(books[p][side])
                            /\ Distinct(books[p][side])
    <3> TAKE side \in Sides
    <3>1. books[p][side] \in Seq(Entry(p, side)) /\ Distinct(books[p][side])
      BY <2>1 DEF BookInv, SideInv
    <3> QED BY <3>1, LenProperties
  <2>3. s1 = s2
    <3>1. books[p][s1][i].id \in Ids(books[p][s1]) /\ books[p][s2][j].id \in Ids(books[p][s2])
      BY <2>2 DEF Ids
    <3>2. Ids(books[p]["buy"]) \cap Ids(books[p]["sell"]) = {}
      BY <2>1 DEF BookInv
    <3> QED BY <3>1, <3>2 DEF Sides
  <2>4. i = j
    BY <2>2, <2>3 DEF Distinct
  <2> QED BY <2>3, <2>4
<1> QED BY <1>1, Invariance, PTL

(* Nothing rests exhausted: a maker that is used up leaves in the iteration *)
(* that uses it up, so that no later Match can trade with it.               *)
THEOREM NoSpentOrderRests == Spec => []RestingHasRemainder
<1>1. IInv => RestingHasRemainder
  <2> SUFFICES ASSUME IInv, NEW p \in Pairs, NEW side \in Sides,
                      NEW i \in DOMAIN books[p][side]
               PROVE  books[p][side][i].filled < books[p][side][i].amount
    BY DEF RestingHasRemainder
  <2>1. BookInv(p, books[p])
    BY FromIInv
  <2>2. books[p][side] \in Seq(Entry(p, side))
    BY <2>1 DEF BookInv, SideInv
  <2>3. books[p][side][i] \in Entry(p, side)
    BY <2>2, LenProperties, ElementOfSeq
  <2> QED BY <2>3 DEF Entry
<1> QED BY <1>1, Invariance, PTL

(* A cancellation that names an order by its identifier alone finds it:     *)
(* the index names the book of every resting order.                         *)
THEOREM IndexIsComplete == Spec => []IndexFindsResting
<1>1. IInv => IndexFindsResting
  <2> SUFFICES ASSUME IInv, NEW p \in Pairs, NEW id \in RestingIds(books[p])
               PROVE  orderIDToPair[id] = p
    BY DEF IndexFindsResting
  <2> QED BY FromIInv
<1> QED BY <1>1, Invariance, PTL

(* The three together: what every operation leaves the books as.            *)
THEOREM BooksWellFormed == Spec => []BookWellFormed
<1>1. OneCopyPerBook /\ RestingHasRemainder /\ IndexFindsResting => BookWellFormed
  BY DEF BookWellFormed
<1> QED BY <1>1, NoDuplicates, NoSpentOrderRests, IndexIsComplete, PTL

(* No side outgrows the engine's limit.                                     *)
THEOREM BooksAreBounded == Spec => []SidesBounded
<1>1. IInv => SidesBounded
  BY FromIInv DEF SidesBounded, BookInv, SideInv
<1> QED BY <1>1, Invariance, PTL

-----------------------------------------------------------------------------
(* A step that makes a trade is an iteration of Match; what it trades with  *)
(* is the first order of the opposite side.                                 *)
LEMMA OnlyFillTrades ==
    ASSUME IInv, [Next]_vars, Len(trades') > Len(trades)
    PROVE  /\ MatchFill
           /\ trades' = Append(trades, Trade(taker, OppositeSide[1],
                            SmallerOf(Left(taker), Left(OppositeSide[1])), Len(trades) + 1))
<1>1. trades \in Seq(TradeType) /\ Len(trades) \in Nat
  <2>1. trades \in Seq(TradeType)
    BY DEF IInv, TypeOK
  <2> QED BY <2>1, LenProperties
<1>2. trades' # trades /\ trades' # <<>>
  BY <1>1
<1>3. MatchFill
  BY <1>2 DEF Next, vars, AddOrder, MatchBegin, RemoveOrderById, RemoveOrder,
              ReplaceOrderbook, MatchEnd, Tick
<1> QED BY <1>2, <1>3 DEF MatchFill

(* The maker a trade of any execution names is the best order of its side   *)
(* at that moment, and the quantity traded comes off that order: the books  *)
(* are in order, and an identifier rests once on a side.                    *)
THEOREM BestMakerServed == Spec => BestMakerFirst
<1> DEFINE other == Opposite(taker.side)
           maker == OppositeSide[1]
           qty   == SmallerOf(Left(taker), Left(maker))
           f     == maker.filled + qty
           after == books'[taker.pair][other]
<1>1. ASSUME IInv, [Next]_vars, Len(trades') > Len(trades)
      PROVE  TakenFromBest(trades'[Len(trades')], OppositeSide, after)
  <2> DEFINE s == OppositeSide
             t == trades'[Len(trades')]
  <2>1. /\ MatchFill /\ taker # NoTaker /\ CanFill
        /\ trades' = Append(trades, Trade(taker, maker, qty, Len(trades) + 1))
    BY <1>1, OnlyFillTrades DEF MatchFill
  <2>2. /\ SideInv(taker.pair, other, s) /\ s # <<>> /\ other \in Sides
        /\ taker.pair \in Pairs /\ maker \in Entry(taker.pair, other)
        /\ qty \in Nat /\ qty <= Left(maker)
    BY <1>1, <2>1, FillFacts
  <2>3. s \in Seq(Entry(taker.pair, other)) /\ InOrder(s) /\ Distinct(s)
    BY <2>2 DEF SideInv
  <2>4. Len(s) \in Nat /\ DOMAIN s = 1 .. Len(s) /\ 1 \in DOMAIN s
    BY <2>2, <2>3, LenProperties, EmptySeq
  <2>5. t.maker = maker.id /\ t.amount = qty
    <3>1. trades \in Seq(TradeType)
      BY <1>1 DEF IInv, TypeOK
    <3> HIDE DEF maker, qty
    <3>2. t = Trade(taker, maker, qty, Len(trades) + 1)
      BY <2>1, <3>1, LenProperties
    <3> QED BY <3>2 DEF Trade
  <2>6. ASSUME NEW j \in DOMAIN s PROVE ~Ahead(s[j], s[1])
    <3>1. CASE j = 1
      <4>1. s[1] \in OrderType
        BY <2>2 DEF Entry
      <4> HIDE DEF s
      <4> QED BY <3>1, <4>1 DEF Ahead, BetterPrice, OrderType
    <3>2. CASE j # 1
      <4>1. j \in 1 .. Len(s) /\ 1 \in 1 .. Len(s) /\ 1 < j
        BY <2>4, <2>6, <3>2
      <4> QED BY <2>3, <4>1 DEF InOrder
    <3> QED BY <3>1, <3>2
  <2>7. after = IF Left(maker) = qty THEN Tail(s)
                ELSE [s EXCEPT ![1].filled = f, ![1].status = "partial"]
    <3> DEFINE cut == IF Left(maker) = qty THEN Tail(s)
                      ELSE [s EXCEPT ![1].filled = f, ![1].status = "partial"]
               b == [books[taker.pair] EXCEPT ![other] = cut]
    <3>1. books' = [books EXCEPT ![taker.pair][other] =
                IF Left(maker) = qty THEN Tail(@)
                ELSE [@ EXCEPT ![1].filled = f, ![1].status = "partial"]]
      BY <2>1 DEF MatchFill
    <3>2. s = books[taker.pair][other]
      BY DEF OppositeSide
    <3>3. books' = [books EXCEPT ![taker.pair] = b]
      BY <3>1, <3>2
    <3>4. books \in [Pairs -> BookType] /\ books[taker.pair] \in BookType
      BY <1>1, <2>2 DEF IInv, TypeOK
    <3> HIDE DEF cut, s
    <3>5. b[other] = cut
      BY <2>2, <3>4 DEF BookType
    <3> HIDE DEF b
    <3>6. books'[taker.pair] = b
      BY <2>2, <3>3, <3>4
    <3> QED BY <3>5, <3>6 DEF cut
  <2>8. ASSUME NEW k \in DOMAIN after, after[k].id = maker.id
        PROVE  Left(after[k]) = Left(maker) - qty
    <3> HIDE DEF after, s, maker
    <3>0. maker = s[1] /\ maker \in OrderType /\ f = maker.filled + qty
      BY <2>2 DEF maker, s, Entry
    <3> HIDE DEF qty, f
    <3>1. CASE Left(maker) = qty
      <4>1. after = Tail(s)
        BY <2>7, <3>1
      <4>2. Len(s) >= 1
        BY <2>4
      <4>3. k \in 1 .. Len(s) - 1 /\ after[k] = s[k + 1]
        BY <2>3, <2>8, <4>1, <4>2, HeadTailProperties
      <4>4. k + 1 \in 1 .. Len(s) /\ 1 \in 1 .. Len(s) /\ k + 1 # 1
        BY <2>4, <4>3
      <4> QED BY <2>3, <2>8, <3>0, <4>3, <4>4 DEF Distinct
    <3>2. CASE Left(maker) # qty
      <4> DEFINE e == [s[1] EXCEPT !.filled = f, !.status = "partial"]
      <4>1. after = [s EXCEPT ![1] = e]
        BY <2>7, <3>2
      <4>2. e.filled = f /\ e.amount = maker.amount /\ e.id = maker.id
        BY <3>0 DEF OrderType
      <4> HIDE DEF e
      <4>3. DOMAIN after = 1 .. Len(s)
        BY <2>4, <4>1
      <4>4. CASE k = 1
        <5>1. after[k] = e
          BY <2>4, <4>1, <4>4
        <5>2. maker.amount \in Nat /\ maker.filled \in Nat
          BY <3>0 DEF OrderType
        <5> QED BY <2>2, <3>0, <4>2, <5>1, <5>2 DEF Left
      <4>5. CASE k # 1
        <5>1. after[k] = s[k]
          BY <2>4, <2>8, <4>1, <4>5
        <5> QED BY <2>3, <2>4, <2>8, <3>0, <4>3, <4>5, <5>1 DEF Distinct
      <4> QED BY <4>4, <4>5
    <3> QED BY <3>1, <3>2
  <2>9. /\ s[1].id = t.maker
        /\ \A j \in DOMAIN s : ~Ahead(s[j], s[1])
        /\ t.amount <= Left(s[1])
        /\ \A k \in DOMAIN after :
              after[k].id = t.maker => Left(after[k]) = Left(s[1]) - t.amount
    BY <2>2, <2>5, <2>6, <2>8
  <2> HIDE DEF after, t, s
  <2> QED BY <2>4, <2>9 DEF TakenFromBest, t, s
<1>2. IInv /\ [Next]_vars => [Len(trades') > Len(trades) =>
        TakenFromBest(trades'[Len(trades')], OppositeSide, after)]_vars
  BY <1>1
<1> QED BY <1>2, Invariance, PTL DEF Spec, BestMakerFirst

(* No trade is made at a price either party did not accept: the price is    *)
(* the maker's, and the taker's limit allows it.                            *)
THEOREM PriceIsAcceptable == Spec => WithinLimits
<1> DEFINE t == trades'[Len(trades')]
           Good == /\ t.price = OppositeSide[1].price
                   /\ IF taker.side = "buy" THEN t.price <= taker.price
                                            ELSE t.price >= taker.price
<1>1. ASSUME IInv, [Next]_vars, Len(trades') > Len(trades)
      PROVE  Good
  <2>1. trades \in Seq(TradeType)
    BY <1>1 DEF IInv, TypeOK
  <2> DEFINE new == Trade(taker, OppositeSide[1],
                      SmallerOf(Left(taker), Left(OppositeSide[1])), Len(trades) + 1)
  <2>2. MatchFill /\ trades' = Append(trades, new)
    BY <1>1, OnlyFillTrades
  <2>3. new.price = OppositeSide[1].price
    BY DEF Trade
  <2>4. Crosses(taker, OppositeSide[1])
    BY <2>2 DEF MatchFill, CanFill
  <2> HIDE DEF new
  <2>5. t = new
    BY <2>1, <2>2, LenProperties
  <2>6. /\ taker \in OrderType
        /\ OppositeSide[1] \in Entry(taker.pair, Opposite(taker.side))
    BY <1>1, <2>2, FillFacts DEF MatchFill
  <2>7. taker.price \in Nat /\ OppositeSide[1].price \in Nat
    BY <2>6 DEF Entry, OrderType
  <2> HIDE DEF t
  <2> QED BY <2>3, <2>4, <2>5, <2>7 DEF Crosses
<1>2. IInv /\ [Next]_vars => [Len(trades') > Len(trades) => Good]_vars
  BY <1>1
<1> QED BY <1>2, Invariance, PTL DEF Spec, WithinLimits

(* The copy that leaves makes the room the order takes: both are on the     *)
(* side the order names, so the limit evicts nobody.                        *)
LEMMA ResubmitKeepsIds ==
    ASSUME NEW o \in Orders, NEW b, BookInv(o.pair, b), Left(o) > 0, o.id \in BookIds(b)
    PROVE  BookIds(AddOrderToBook(b, o)) = BookIds(b)
<1> DEFINE p == o.pair
           E == Entry(p, o.side)
           c == RemoveOrderFromBook(b, o.id)
           e == Resting(o)
           t == InsertOrderSorted(c[o.side], e)
           r == AddOrderToBook(b, o)
<1>1. /\ o \in OrderType /\ o.status \in {"open", "partial"} /\ o.side \in Sides
      /\ \A o2 \in Orders : o2.id = o.id => o2.pair = p /\ o2.side = o.side
      /\ Left(o) \in Int
  <2>1. o \in OrderType
    BY OrdersAssumption
  <2> QED BY <2>1, OrdersAssumption DEF OrderType, Left
<1>2. OfPair(o.id, p, o.side)
  BY <1>1, SnapshotsAssumption DEF OfPair
<1>3. e \in E /\ e.id = o.id
  BY <1>1, <1>2, RestingIsEntry
<1>4. /\ b[o.side] \in Seq(E) /\ Distinct(b[o.side]) /\ InOrder(b[o.side])
      /\ Len(b[o.side]) <= MaxOrdersPerPair
  BY <1>1 DEF BookInv, SideInv
<1>5. o.id \in Ids(b[o.side])
  <2>1. PICK x \in Sides : o.id \in Ids(b[x])
    BY DEF BookIds, Sides
  <2>2. PICK i \in 1 .. Len(b[x]) : b[x][i].id = o.id
    BY <2>1 DEF Ids
  <2>3. b[x] \in Seq(Entry(p, x))
    BY DEF BookInv, SideInv
  <2>4. b[x][i] \in Entry(p, x)
    BY <2>3, ElementOfSeq
  <2>5. OfPair(o.id, p, x)
    BY <2>2, <2>4 DEF Entry
  <2>6. o.side = x
    BY <2>5 DEF OfPair
  <2> QED BY <2>1, <2>6
<1>6. c = [side \in Sides |-> Without(b[side], o.id)]
  BY DEF RemoveOrderFromBook
<1>7. /\ BookInv(p, c) /\ BookIds(c) = BookIds(b) \ {o.id}
  BY RemoveKeepsBook
<1> HIDE DEF c
<1>8. c[o.side] = Without(b[o.side], o.id)
  BY <1>1, <1>6
<1> HIDE DEF E
<1>9. /\ c[o.side] \in Seq(E) /\ Distinct(c[o.side]) /\ InOrder(c[o.side])
      /\ Len(c[o.side]) = Len(b[o.side]) - 1
      /\ Ids(c[o.side]) = Ids(b[o.side]) \ {o.id}
  BY <1>4, <1>5, <1>8, SideWithout
<1>10. EvictWorst(c[o.side]) = c[o.side]
  <2>1. Len(b[o.side]) \in Nat /\ MaxOrdersPerPair \in Nat
    BY <1>4, LenProperties, MaxOrdersPerPairAssumption
  <2>2. ~(Len(c[o.side]) >= MaxOrdersPerPair)
    BY <1>4, <1>9, <2>1
  <2> QED BY <2>2 DEF EvictWorst
<1>11. Ids(t) = Ids(c[o.side]) \cup {o.id}
  <2> HIDE DEF e
  <2>1. OneSided(E)
    BY EntriesAreOneSided DEF E
  <2>2. e.id \notin Ids(c[o.side])
    BY <1>3, <1>9
  <2>3. Ids(t) = Ids(c[o.side]) \cup {e.id}
    BY <1>3, <1>9, <2>1, <2>2, SideInserted
  <2> QED BY <1>3, <2>3
<1>12. r = [c EXCEPT ![o.side] = t]
  <2>1. r = [c EXCEPT ![o.side] = InsertOrderSorted(EvictWorst(@), Resting(o))]
    BY <1>1 DEF AddOrderToBook, c
  <2> QED BY <1>10, <2>1
<1> HIDE DEF t, r, e
<1>13. \A side \in Sides : r[side] = IF side = o.side THEN t ELSE c[side]
  BY <1>6, <1>12
<1>14. BookIds(r) = BookIds(c) \cup {o.id}
  <2>1. CASE o.side = "buy"
    <3>1. r["buy"] = t /\ r["sell"] = c["sell"]
      BY <1>13, <2>1 DEF Sides
    <3> QED BY <1>11, <2>1, <3>1 DEF BookIds
  <2>2. CASE o.side = "sell"
    <3>1. r["buy"] = c["buy"] /\ r["sell"] = t
      BY <1>13, <2>2 DEF Sides
    <3> QED BY <1>11, <2>2, <3>1 DEF BookIds
  <2> QED BY <1>1, <2>1, <2>2 DEF Sides
<1>15. BookIds(r) = BookIds(b)
  BY <1>7, <1>14
<1> QED BY <1>15 DEF r

(* A resubmission never costs another trader the place on the book.         *)
THEOREM ResubmissionIsHarmless == Spec => ResubmitEvictsNobody
<1> DEFINE Same(o) == AddOrder(o) /\ Left(o) > 0 /\ o.id \in RestingIds(books[o.pair])
                        => RestingIds(books'[o.pair]) = RestingIds(books[o.pair])
<1>1. ASSUME IInv, IInv', NEW o \in Orders, AddOrder(o), Left(o) > 0,
             o.id \in RestingIds(books[o.pair])
      PROVE  RestingIds(books'[o.pair]) = RestingIds(books[o.pair])
  <2>1. o.pair \in Pairs
    BY OrdersAssumption DEF OrderType
  <2>2. BookInv(o.pair, books[o.pair]) /\ BookInv(o.pair, books'[o.pair])
    BY <1>1, <2>1 DEF IInv, BooksInv
  <2>3. /\ RestingIds(books[o.pair]) = BookIds(books[o.pair])
        /\ RestingIds(books'[o.pair]) = BookIds(books'[o.pair])
    BY <2>2, IdsOfBook
  <2>4. books'[o.pair] = AddOrderToBook(books[o.pair], o)
    BY <1>1, <2>1 DEF AddOrder, IInv, TypeOK
  <2> QED BY <1>1, <2>2, <2>3, <2>4, ResubmitKeepsIds
<1>2. IInv /\ IInv' /\ [Next]_vars => [\A o \in Orders : Same(o)]_vars
  BY <1>1
<1> QED BY <1>2, Invariance, PTL DEF Spec, ResubmitEvictsNobody

-----------------------------------------------------------------------------
(* The loop of Match and the outcome that is stated without it. A match has *)
(* used the first n orders of the opposite side and used up the first gone  *)
(* of them: one that it used but did not use up took the rest of the taker. *)
FilledMore(o, q) == [o EXCEPT !.filled = @ + q]
FilledPartly(e, q) == [e EXCEPT !.filled = @ + q, !.status = "partial"]
AfterFill(s, q) ==
    IF Left(s[1]) = q THEN Tail(s) ELSE [s EXCEPT ![1] = FilledPartly(s[1], q)]

Used(o, s, n, gone) == Offered(s)[gone] + (IF n > gone THEN Fills(o, s)[n] ELSE 0)

Progress(o, s, n, gone) ==
    /\ n \in 0 .. Len(s) /\ gone \in 0 .. Len(s) /\ gone <= n /\ n <= gone + 1
    /\ \A i \in 1 .. n : Fills(o, s)[i] > 0
    /\ \A i \in 1 .. gone : Fills(o, s)[i] = Left(s[i])
    /\ n > gone => Fills(o, s)[n] < Left(s[n]) /\ Used(o, s, n, gone) = Left(o)

(* t, c and tr are the taker, the book and the trades the loop has reached. *)
Worked(o, b, n, gone, t, c, tr) ==
    LET s == b[Opposite(o.side)] IN
    /\ Progress(o, s, n, gone)
    /\ t = FilledMore(o, Used(o, s, n, gone))
    /\ c = [b EXCEPT ![Opposite(o.side)] = RestOf(o, s, n, gone)]
    /\ tr = [i \in 1 .. n |-> Trade(o, s[i], Fills(o, s)[i], i)]

MatchInv ==
    taker # NoTaker =>
        /\ before.order \in OrderType /\ Left(before.order) > 0
        /\ BookInv(before.order.pair, before.book)
        /\ \E n, gone \in Nat :
              Worked(before.order, before.book, n, gone,
                     taker, books[before.order.pair], trades)

LEMMA SideOffers ==
    ASSUME NEW p, NEW side, NEW s, SideInv(p, side, s)
    PROVE  /\ Len(s) \in Nat /\ DOMAIN s = 1 .. Len(s) /\ Offers(s)
           /\ \A i \in 1 .. Len(s) : s[i] \in Entry(p, side)
<1>1. s \in Seq(Entry(p, side))
  BY DEF SideInv
<1>2. Len(s) \in Nat /\ DOMAIN s = 1 .. Len(s) /\ \A i \in 1 .. Len(s) : s[i] \in Entry(p, side)
  BY <1>1, LenProperties, ElementOfSeq
<1>3. \A e \in Entry(p, side) : Left(e) \in Nat /\ Left(e) > 0
  BY DEF Entry, OrderType, Left
<1> QED BY <1>2, <1>3 DEF Offers

(* No order of a well-formed book is "filled": trimming changes nothing.    *)
LEMMA KeptWhole ==
    ASSUME NEW S, NEW s \in Seq(S)
    PROVE  KeepAt(s, DOMAIN s) = s
<1> DEFINE N == Len(s)
<1>1. N \in Nat /\ DOMAIN s = 1 .. N /\ s = [i \in 1 .. N |-> s[i]]
  BY LenProperties
<1> HIDE DEF N
<1>2. \A i \in 1 .. N : {k \in 1 .. N : k <= i} = 1 .. i
  BY <1>1
<1>3. \A i \in 0 .. N : Cardinality(1 .. i) = i
  BY <1>1, FS_Interval
<1>4. Cardinality(1 .. N) = N
  BY <1>1, <1>3
<1>5. ASSUME NEW i \in 1 .. N PROVE Cardinality({k \in 1 .. N : k <= i}) = i
  <2>1. {k \in 1 .. N : k <= i} = 1 .. i
    BY <1>2
  <2>2. Cardinality(1 .. i) = i
    BY <1>1, <1>3
  <2> QED BY <2>1, <2>2, Zenon
<1>6. \A j \in 1 .. N : (CHOOSE i \in 1 .. N : Cardinality({k \in 1 .. N : k <= i}) = j) = j
  BY <1>5
<1>7. KeepAt(s, 1 .. N) =
        [j \in 1 .. N |-> s[CHOOSE i \in 1 .. N : Cardinality({k \in 1 .. N : k <= i}) = j]]
  BY <1>4 DEF KeepAt
<1> QED BY <1>1, <1>6, <1>7

LEMMA NothingToTrim ==
    ASSUME NEW p, NEW b, BookInv(p, b)
    PROVE  [side \in Sides |-> TrimFilled(b[side])] = b
<1>1. ASSUME NEW side \in Sides PROVE TrimFilled(b[side]) = b[side]
  <2> DEFINE s == b[side]
  <2>1. SideInv(p, side, s) /\ s \in Seq(Entry(p, side))
    BY DEF BookInv, SideInv
  <2> HIDE DEF s
  <2>2. \A i \in DOMAIN s : s[i].status # "filled"
    BY <2>1, SideOffers DEF Entry
  <2>3. {i \in DOMAIN s : s[i].status # "filled"} = DOMAIN s
    BY <2>2
  <2>4. TrimFilled(s) = s
    BY <2>1, <2>3, KeptWhole DEF TrimFilled
  <2> QED BY <2>4 DEF s
<1>2. b = [side \in Sides |-> b[side]]
  BY DEF BookInv, BookType
<1> QED BY <1>1, <1>2

-----------------------------------------------------------------------------
(* What an iteration takes is what the outcome says, and when the loop ends *)
(* the outcome has no further fills.                                        *)
LEMMA NextFill ==
    ASSUME NEW s, Len(s) \in Nat, Offers(s), NEW o, Left(o) \in Nat,
           NEW n \in 0 .. Len(s), n < Len(s), Progress(o, s, n, n),
           Crosses(o, s[n + 1]), Offered(s)[n] < Left(o)
    PROVE  /\ Fills(o, s)[n + 1] = SmallerOf(Left(s[n + 1]), Left(o) - Offered(s)[n])
           /\ Fills(o, s)[n + 1] > 0
<1>1. n + 1 \in 1 .. Len(s) /\ (n + 1) - 1 = n
  OBVIOUS
<1>2. Reached(o, s, n)
  <2>1. CASE n = 0
    BY <2>1 DEF Reached
  <2>2. CASE n # 0
    <3>1. n \in 1 .. Len(s) /\ Fills(o, s)[n] > 0
      BY <2>2 DEF Progress
    <3> QED BY <3>1, FillIs
  <2> QED BY <2>1, <2>2
<1>3. Reached(o, s, n + 1)
  BY <1>2 DEF Reached
<1>4. Fills(o, s)[n + 1] = SmallerOf(Left(s[n + 1]), Left(o) - Offered(s)[n])
  BY <1>1, <1>3 DEF Fills
<1>5. Fills(o, s)[n + 1] > 0
  BY <1>1, <1>3, FillIs
<1> QED BY <1>4, <1>5

LEMMA LoopEnds ==
    ASSUME NEW s, Len(s) \in Nat, Offers(s), NEW o, Left(o) \in Nat,
           NEW n \in 0 .. Len(s), NEW gone \in 0 .. Len(s), Progress(o, s, n, gone),
           \/ Used(o, s, n, gone) = Left(o)
           \/ gone = Len(s)
           \/ n = gone /\ ~Crosses(o, s[gone + 1])
    PROVE  Uses(o, s, n, gone)
<1> DEFINE fill == Fills(o, s)
<1>1. /\ gone <= n /\ n <= gone + 1
      /\ \A i \in 1 .. n : fill[i] > 0
      /\ \A i \in 1 .. gone : fill[i] = Left(s[i])
      /\ n > gone => fill[n] < Left(s[n]) /\ Used(o, s, n, gone) = Left(o)
  BY DEF Progress
<1>2. \A i \in 1 .. Len(s) : fill[i] \in Nat /\ Left(s[i]) \in Nat
  BY FillIs DEF Offers
<1>3. \A i \in 0 .. Len(s) : Offered(s)[i] \in Nat
  BY OfferedSteps
<1>4. ASSUME NEW i \in 1 .. Len(s), i > n PROVE ~(fill[i] > 0)
  <2>1. fill[i] > 0 <=> Reached(o, s, i) /\ Offered(s)[i - 1] < Left(o)
    BY FillIs
  <2>2. i - 1 \in 0 .. Len(s) /\ n <= i - 1 /\ gone <= i - 1
    BY <1>1, <1>4
  <2>3. gone # Len(s)
    BY <1>1, <1>4
  <2>4. CASE n = gone /\ ~Crosses(o, s[gone + 1])
    <3>1. gone + 1 \in 1 .. i
      BY <1>4, <2>4
    <3> QED BY <2>1, <2>4, <3>1 DEF Reached
  <2>5. CASE Used(o, s, n, gone) = Left(o) /\ n = gone
    <3>1. Offered(s)[gone] = Left(o)
      BY <1>3, <2>5 DEF Used
    <3>2. Offered(s)[gone] <= Offered(s)[i - 1]
      BY <1>3, <2>2, OfferedGrows
    <3>3. Offered(s)[i - 1] \in Nat
      BY <1>3, <2>2
    <3> QED BY <2>1, <3>1, <3>2, <3>3
  <2>6. CASE Used(o, s, n, gone) = Left(o) /\ n > gone
    <3>1. n = gone + 1 /\ n \in 1 .. Len(s) /\ n - 1 = gone
      BY <1>1, <2>6
    <3>2. Offered(s)[gone] + fill[n] = Left(o)
      BY <2>6 DEF Used
    <3>3. Offered(s)[n] = Offered(s)[gone] + Left(s[n])
      BY <3>1, OfferedSteps
    <3>4. Offered(s)[n] <= Offered(s)[i - 1]
      BY <1>3, <2>2, OfferedGrows
    <3>5. fill[n] \in Nat /\ Left(s[n]) \in Nat /\ fill[n] < Left(s[n])
      BY <1>1, <1>2, <2>6, <3>1
    <3>6. Offered(s)[gone] \in Nat /\ Offered(s)[n] \in Nat /\ Offered(s)[i - 1] \in Nat
      BY <1>3, <2>2
    <3> HIDE DEF fill
    <3>7. Left(o) < Offered(s)[n]
      BY <3>2, <3>3, <3>5, <3>6
    <3> QED BY <2>1, <3>4, <3>6, <3>7
  <2> QED BY <1>1, <2>3, <2>4, <2>5, <2>6
<1>5. \A i \in 1 .. Len(s) : fill[i] > 0 <=> i <= n
  BY <1>1, <1>4
<1>6. \A i \in gone + 1 .. n : fill[i] < Left(s[i])
  BY <1>1
<1> QED BY <1>1, <1>5, <1>6 DEF Uses

LEMMA UsesOnce ==
    ASSUME NEW s, Len(s) \in Nat, NEW o,
           NEW n \in 0 .. Len(s), NEW g \in 0 .. Len(s), Uses(o, s, n, g),
           NEW m \in 0 .. Len(s), NEW h \in 0 .. Len(s), Uses(o, s, m, h),
           \A i \in 1 .. Len(s) : Left(s[i]) \in Int
    PROVE  n = m /\ g = h
<1>1. n = m
  <2>1. \A i \in 1 .. Len(s) : i <= n <=> i <= m
    BY DEF Uses
  <2> QED BY <2>1
<1>2. ~(g < h)
  <2> SUFFICES ASSUME g < h PROVE FALSE
    OBVIOUS
  <2>1. h \in 1 .. Len(s) /\ h \in g + 1 .. n /\ h \in 1 .. h
    BY <1>1 DEF Uses
  <2>2. Fills(o, s)[h] = Left(s[h]) /\ Fills(o, s)[h] < Left(s[h])
    BY <2>1 DEF Uses
  <2> QED BY <2>1, <2>2
<1>3. ~(h < g)
  <2> SUFFICES ASSUME h < g PROVE FALSE
    OBVIOUS
  <2>1. g \in 1 .. Len(s) /\ g \in h + 1 .. m /\ g \in 1 .. g
    BY <1>1 DEF Uses
  <2>2. Fills(o, s)[g] = Left(s[g]) /\ Fills(o, s)[g] < Left(s[g])
    BY <2>1 DEF Uses
  <2> QED BY <2>1, <2>2
<1> QED BY <1>1, <1>2, <1>3

(* The two ways in which an iteration changes the side.                     *)
LEMMA RestAdvances ==
    ASSUME NEW E, NEW s \in Seq(E), NEW o, NEW gone \in 0 .. Len(s), gone < Len(s),
           NEW r, r = RestOf(o, s, gone, gone),
           NEW e, e = FilledPartly(s[gone + 1], Fills(o, s)[gone + 1])
    PROVE  /\ r \in Seq(E) /\ r[1] = s[gone + 1]
           /\ Tail(r) = RestOf(o, s, gone + 1, gone + 1)
           /\ [r EXCEPT ![1] = e] = RestOf(o, s, gone + 1, gone)
<1> DEFINE M == Len(s) - gone
<1>1. M \in Nat /\ M > 0 /\ Len(s) \in Nat
  OBVIOUS
<1>2. r = [i \in 1 .. M |-> s[gone + i]]
  <2>1. \A i \in 1 .. M : ~(gone + i <= gone)
    OBVIOUS
  <2> QED BY <2>1 DEF RestOf
<1>3. \A i \in 1 .. M : s[gone + i] \in E
  OBVIOUS
<1>4. r \in Seq(E) /\ Len(r) = M /\ r # <<>> /\ r[1] = s[gone + 1]
  <2> HIDE DEF M
  <2>1. r \in Seq(E)
    BY <1>1, <1>2, <1>3, IsASeq
  <2>2. DOMAIN r = 1 .. M /\ r[1] = s[gone + 1]
    BY <1>1, <1>2
  <2>3. Len(r) = M
    BY <1>1, <2>1, <2>2, LenProperties
  <2> QED BY <1>1, <2>1, <2>2, <2>3
<1>5. Tail(r) = RestOf(o, s, gone + 1, gone + 1)
  <2>1. RestOf(o, s, gone + 1, gone + 1) = [i \in 1 .. M - 1 |-> s[gone + 1 + i]]
    <3>1. Len(s) - (gone + 1) = M - 1 /\ \A i \in 1 .. M - 1 : ~(gone + 1 + i <= gone + 1)
      BY <1>1
    <3> QED BY <3>1 DEF RestOf
  <2>2. Tail(r) = [i \in 1 .. M - 1 |-> r[i + 1]]
    <3> HIDE DEF M
    <3>1. /\ Tail(r) \in Seq(E) /\ Len(Tail(r)) = M - 1
          /\ \A i \in 1 .. M - 1 : Tail(r)[i] = r[i + 1]
      BY <1>4, HeadTailProperties
    <3>2. Tail(r) = [i \in 1 .. M - 1 |-> Tail(r)[i]]
      BY <3>1, LenProperties
    <3> QED BY <3>1, <3>2
  <2>3. \A i \in 1 .. M - 1 : r[i + 1] = s[gone + 1 + i]
    <3> TAKE i \in 1 .. M - 1
    <3>1. i + 1 \in 1 .. M /\ gone + (i + 1) = gone + 1 + i
      BY <1>1
    <3> HIDE DEF M
    <3> QED BY <1>2, <3>1
  <2> HIDE DEF M
  <2> QED BY <2>1, <2>2, <2>3
<1>6. [r EXCEPT ![1] = e] = RestOf(o, s, gone + 1, gone)
  <2>1. RestOf(o, s, gone + 1, gone) = [i \in 1 .. M |-> IF i = 1 THEN e ELSE s[gone + i]]
    <3>1. \A i \in 1 .. M : gone + i <= gone + 1 <=> i = 1
      BY <1>1
    <3> QED BY <3>1 DEF RestOf, FilledPartly
  <2> HIDE DEF M
  <2> QED BY <1>2, <2>1
<1> QED BY <1>4, <1>5, <1>6


LEMMA FilledTwice ==
    ASSUME NEW o \in OrderType, NEW a \in Nat, NEW b \in Nat
    PROVE  FilledMore(FilledMore(o, a), b) = FilledMore(o, a + b)
<1> DEFINE t == [o EXCEPT !.filled = @ + a]
<1>1. o.filled \in Nat /\ t.filled = o.filled + a
  BY DEF OrderType
<1>2. ASSUME NEW c PROVE [t EXCEPT !.filled = c] = [o EXCEPT !.filled = c]
  BY DEF OrderType
<1>3. t.filled + b = o.filled + (a + b)
  BY <1>1
<1> QED BY <1>2, <1>3 DEF FilledMore

(* An iteration that trades takes the loop from one such position to the    *)
(* next.                                                                    *)
LEMMA IterationAdvances ==
    ASSUME NEW p, NEW side, NEW s, SideInv(p, side, s), NEW o \in OrderType, Left(o) > 0,
           NEW n \in 0 .. Len(s), NEW gone \in 0 .. Len(s), Progress(o, s, n, gone),
           NEW t, t = FilledMore(o, Used(o, s, n, gone)),
           NEW r, r = RestOf(o, s, n, gone),
           Left(t) > 0, r # <<>>, Crosses(t, r[1]),
           NEW q, q = SmallerOf(Left(t), Left(r[1])),
           NEW g, g = IF Left(r[1]) = q THEN gone + 1 ELSE gone,
           NEW cut, cut = AfterFill(r, q)
    PROVE  /\ n + 1 \in 0 .. Len(s) /\ g \in 0 .. Len(s) /\ Progress(o, s, n + 1, g)
           /\ q > 0 /\ q = Fills(o, s)[n + 1] /\ r[1] = s[n + 1]
           /\ FilledMore(t, q) = FilledMore(o, Used(o, s, n + 1, g))
           /\ cut = RestOf(o, s, n + 1, g)
<1> DEFINE fill == Fills(o, s)
<1>1. /\ Len(s) \in Nat /\ DOMAIN s = 1 .. Len(s) /\ Offers(s)
      /\ s \in Seq(Entry(p, side))
      /\ \A i \in 1 .. Len(s) : s[i] \in OrderType
  <2>1. Entry(p, side) \subseteq OrderType /\ s \in Seq(Entry(p, side))
    BY DEF SideInv, Entry
  <2> QED BY <2>1, SideOffers
<1>2. o.amount \in Nat /\ o.filled \in Nat /\ Left(o) = o.amount - o.filled /\ Left(o) \in Nat
  BY DEF OrderType, Left
<1>3. /\ \A i \in 1 .. Len(s) : fill[i] \in Nat /\ Left(s[i]) \in Nat /\ fill[i] <= Left(s[i])
      /\ \A i \in 0 .. Len(s) : Offered(s)[i] \in Nat
      /\ \A i \in 1 .. Len(s) : Offered(s)[i] = Offered(s)[i - 1] + Left(s[i])
  <2>1. \A i \in 1 .. Len(s) : fill[i] \in Nat /\ fill[i] <= Left(s[i])
    BY <1>1, <1>2, FillIs
  <2>2. \A i \in 1 .. Len(s) : Left(s[i]) \in Nat
    BY <1>1 DEF Offers
  <2> QED BY <1>1, <2>1, <2>2, OfferedSteps
<1>4. gone <= n /\ n <= gone + 1 /\ n \in Nat /\ gone \in Nat /\ n <= Len(s)
      /\ (n > gone => fill[n] < Left(s[n]) /\ Used(o, s, n, gone) = Left(o))
  BY <1>1 DEF Progress
<1>5. Used(o, s, n, gone) \in Nat
  <2>1. CASE n > gone
    BY <1>2, <1>4, <2>1
  <2>2. CASE ~(n > gone)
    BY <1>3, <2>2 DEF Used
  <2> QED BY <2>1, <2>2
<1>6. /\ t.amount = o.amount /\ t.filled = o.filled + Used(o, s, n, gone)
      /\ t.side = o.side /\ t.price = o.price
      /\ Left(t) = Left(o) - Used(o, s, n, gone)
  <2>1. /\ t.amount = o.amount /\ t.filled = o.filled + Used(o, s, n, gone)
        /\ t.side = o.side /\ t.price = o.price
    BY DEF OrderType, FilledMore
  <2> QED BY <1>2, <1>5, <2>1 DEF Left
<1>7. n = gone /\ Used(o, s, n, gone) = Offered(s)[n] /\ Offered(s)[n] < Left(o)
  <2>1. ~(n > gone)
    BY <1>2, <1>4, <1>6
  <2>2. Used(o, s, n, gone) = Offered(s)[gone]
    BY <1>3, <2>1 DEF Used
  <2>3. n = gone
    BY <1>4, <2>1
  <2> QED BY <1>2, <1>5, <1>6, <2>2, <2>3
<1>8. n < Len(s)
  <2>1. ASSUME n = Len(s) PROVE FALSE
    <3>1. Len(s) - gone = 0
      <4>1. gone = Len(s) /\ Len(s) \in Nat
        BY <1>1, <1>7, <2>1
      <4> QED BY <4>1
    <3>2. r = [i \in 1 .. 0 |-> r[i]]
      BY <3>1 DEF RestOf
    <3>3. \A i \in 1 .. 0 : r[i] \in {}
      OBVIOUS
    <3>4. r \in Seq({})
      BY <3>2, <3>3, IsASeq
    <3>5. Len(r) = 0
      BY <3>2, <3>4, LenProperties
    <3> QED BY <3>4, <3>5, EmptySeq
  <2>2. n # Len(s)
    BY <2>1
  <2>3. n \in Nat /\ Len(s) \in Nat /\ n <= Len(s)
    BY <1>1, <1>4
  <2> QED BY <2>2, <2>3
<1>9. /\ r \in Seq(Entry(p, side)) /\ r[1] = s[n + 1]
      /\ Tail(r) = RestOf(o, s, n + 1, n + 1)
      /\ [r EXCEPT ![1] = FilledPartly(s[n + 1], fill[n + 1])] = RestOf(o, s, n + 1, n)
  <2> DEFINE E == Entry(p, side)
  <2>1. r = RestOf(o, s, gone, gone) /\ n = gone
    BY <1>7
  <2>2. s \in Seq(E) /\ gone < Len(s)
    BY <1>1, <1>7, <1>8
  <2> HIDE DEF E
  <2> DEFINE e == FilledPartly(s[gone + 1], Fills(o, s)[gone + 1])
  <2>3. e = FilledPartly(s[gone + 1], Fills(o, s)[gone + 1])
    OBVIOUS
  <2>4. e = FilledPartly(s[n + 1], fill[n + 1])
    BY <2>1
  <2> HIDE DEF e
  <2>5. /\ r \in Seq(E) /\ r[1] = s[gone + 1]
        /\ Tail(r) = RestOf(o, s, gone + 1, gone + 1)
        /\ [r EXCEPT ![1] = e] = RestOf(o, s, gone + 1, gone)
    BY <2>1, <2>2, <2>3, RestAdvances
  <2> QED BY <2>1, <2>4, <2>5, Zenon DEF E
<1>10. n + 1 \in 1 .. Len(s) /\ n + 1 \in 0 .. Len(s) /\ (n + 1) - 1 = n
  BY <1>1, <1>8
<1>11. Crosses(o, s[n + 1])
  BY <1>6, <1>9 DEF Crosses
<1>12. q = fill[n + 1] /\ q > 0
  <2>1. Progress(o, s, n, n)
    BY <1>7
  <2>2. /\ fill[n + 1] = SmallerOf(Left(s[n + 1]), Left(o) - Offered(s)[n])
        /\ fill[n + 1] > 0
    BY <1>1, <1>2, <1>7, <1>8, <1>11, <2>1, NextFill
  <2>3. Left(t) = Left(o) - Offered(s)[n] /\ Left(t) \in Int /\ Left(s[n + 1]) \in Int
    <3>1. Left(t) = Left(o) - Offered(s)[n]
      BY <1>6, <1>7
    <3>2. Offered(s)[n] \in Nat /\ Left(s[n + 1]) \in Nat
      BY <1>3, <1>10
    <3> QED BY <1>2, <3>1, <3>2
  <2> QED BY <1>9, <2>2, <2>3 DEF SmallerOf
<1>13. \A i \in 1 .. n : fill[i] > 0 /\ fill[i] = Left(s[i])
  BY <1>7 DEF Progress
<1>14. \A i \in 1 .. n + 1 : fill[i] > 0
  <2>1. \A i \in 1 .. n + 1 : i \in 1 .. n \/ i = n + 1
    BY <1>4
  <2> QED BY <1>12, <1>13, <2>1
<1>15. s[n + 1] \in OrderType
  BY <1>1, <1>10
<1>16. (Left(r[1]) = q => g = gone + 1) /\ (Left(r[1]) # q => g = gone)
      /\ fill = Fills(o, s)
  OBVIOUS
<1> HIDE DEF fill
<1>17. FilledMore(t, q) = FilledMore(o, Offered(s)[n] + fill[n + 1])
  <2> DEFINE u == Offered(s)[n]
  <2>1. t = FilledMore(o, u)
    BY <1>7
  <2>2. u \in Nat /\ q \in Nat
    BY <1>3, <1>10, <1>12
  <2> HIDE DEF u
  <2>3. FilledMore(t, q) = FilledMore(o, u + q)
    BY <2>1, <2>2, FilledTwice
  <2> QED BY <1>12, <2>3 DEF u
<1>18. CASE Left(r[1]) = q
  <2>1. g = n + 1
    BY <1>7, <1>16, <1>18
  <2>2. fill[n + 1] = Left(s[n + 1])
    BY <1>9, <1>12, <1>18
  <2>3. \A i \in 1 .. n + 1 : fill[i] = Left(s[i])
    <3>1. \A i \in 1 .. n + 1 : i \in 1 .. n \/ i = n + 1
      BY <1>4
    <3> QED BY <1>13, <2>2, <3>1
  <2>4. Used(o, s, n + 1, n + 1) = Offered(s)[n] + fill[n + 1]
    <3>1. Used(o, s, n + 1, n + 1) = Offered(s)[n + 1]
      <4>1. ~(n + 1 > n + 1) /\ Offered(s)[n + 1] \in Nat
        BY <1>3, <1>4, <1>10
      <4> QED BY <4>1 DEF Used
    <3> QED BY <1>3, <1>10, <2>2, <3>1
  <2>5. Progress(o, s, n + 1, n + 1)
    BY <1>4, <1>10, <1>14, <2>3 DEF Progress, fill
  <2>6. FilledMore(t, q) = FilledMore(o, Used(o, s, n + 1, g))
    BY <1>17, <2>1, <2>4
  <2>7. cut = RestOf(o, s, n + 1, g)
    BY <1>9, <1>18, <2>1 DEF AfterFill
  <2>8. g \in 0 .. Len(s) /\ Progress(o, s, n + 1, g)
    BY <1>10, <2>1, <2>5
  <2>9. n + 1 \in 0 .. Len(s) /\ q > 0 /\ q = Fills(o, s)[n + 1] /\ r[1] = s[n + 1]
    BY <1>9, <1>10, <1>12, <1>16
  <2> QED BY <2>6, <2>7, <2>8, <2>9, Zenon
<1>19. CASE Left(r[1]) # q
  <2>1. g = n
    BY <1>7, <1>16, <1>19
  <2>2. Left(s[n + 1]) \in Nat /\ fill[n + 1] \in Nat /\ fill[n + 1] < Left(s[n + 1])
    BY <1>3, <1>9, <1>10, <1>12, <1>19
  <2>3. Used(o, s, n + 1, n) = Offered(s)[n] + fill[n + 1]
    BY <1>4 DEF Used, fill
  <2>4. fill[n + 1] = Left(o) - Offered(s)[n]
    <3>1. q = Left(t) \/ q = Left(r[1])
      BY DEF SmallerOf
    <3> QED BY <1>6, <1>7, <1>12, <1>19, <3>1
  <2>5. Used(o, s, n + 1, n) = Left(o)
    BY <1>2, <1>3, <2>3, <2>4
  <2>6. Progress(o, s, n + 1, n)
    BY <1>4, <1>10, <1>13, <1>14, <2>2, <2>5 DEF Progress, fill
  <2>7. FilledPartly(r[1], q) = FilledPartly(s[n + 1], fill[n + 1])
    BY <1>9, <1>12
  <2>8. [r EXCEPT ![1] = FilledPartly(r[1], q)] = RestOf(o, s, n + 1, n)
    BY <1>9, <2>7
  <2>9. FilledMore(t, q) = FilledMore(o, Used(o, s, n + 1, g))
    BY <1>17, <2>1, <2>3
  <2>10. cut = RestOf(o, s, n + 1, g)
    BY <1>19, <2>1, <2>8 DEF AfterFill
  <2>11. g \in 0 .. Len(s) /\ Progress(o, s, n + 1, g)
    BY <1>7, <2>1, <2>6
  <2>12. n + 1 \in 0 .. Len(s) /\ q > 0 /\ q = Fills(o, s)[n + 1] /\ r[1] = s[n + 1]
    BY <1>9, <1>10, <1>12, <1>16
  <2> QED BY <2>9, <2>10, <2>11, <2>12, Zenon
<1> QED BY <1>18, <1>19


-----------------------------------------------------------------------------
(* A Match starts with nothing used, ...                                    *)
LEMMA WorkedAtFirst ==
    ASSUME NEW o \in OrderType, NEW b, BookInv(o.pair, b)
    PROVE  Worked(o, b, 0, 0, o, b, <<>>)
<1> DEFINE side == Opposite(o.side)
           s == b[side]
<1>1. side \in Sides /\ SideInv(o.pair, side, s)
  BY DEF OrderType, Opposite, Sides, BookInv
<1>2. b = [b EXCEPT ![side] = s]
  BY <1>1 DEF BookInv, BookType
<1> HIDE DEF s
<1>3. /\ Len(s) \in Nat /\ DOMAIN s = 1 .. Len(s) /\ Offers(s)
      /\ s = [i \in 1 .. Len(s) |-> s[i]]
  <2>1. s \in Seq(Entry(o.pair, side))
    BY <1>1 DEF SideInv
  <2> QED BY <1>1, <2>1, SideOffers, LenProperties
<1>4. Used(o, s, 0, 0) = 0
  BY <1>3, OfferedSteps DEF Used
<1>5. Progress(o, s, 0, 0)
  BY <1>3 DEF Progress
<1>6. FilledMore(o, 0) = o
  BY DEF FilledMore, OrderType
<1>7. RestOf(o, s, 0, 0) = s
  <2>1. Len(s) - 0 = Len(s) /\ \A i \in 1 .. Len(s) : ~(0 + i <= 0) /\ 0 + i = i
    BY <1>3
  <2> QED BY <1>3, <2>1 DEF RestOf
<1>8. [i \in 1 .. 0 |-> Trade(o, s[i], Fills(o, s)[i], i)] = <<>>
  <2> DEFINE v == [i \in 1 .. 0 |-> Trade(o, s[i], Fills(o, s)[i], i)]
  <2>1. v \in Seq({})
    BY IsASeq
  <2>2. Len(v) = 0
    BY <2>1, LenProperties
  <2> HIDE DEF v
  <2>3. v = <<>>
    BY <2>1, <2>2, EmptySeq
  <2> QED BY <2>3 DEF v
<1>9. s = b[Opposite(o.side)]
  BY DEF s
<1> QED BY <1>2, <1>4, <1>5, <1>6, <1>7, <1>8, <1>9 DEF Worked

(* ... every iteration is one of IterationAdvances, ...                     *)
LEMMA FirstFilledPartly ==
    ASSUME NEW r \in Seq(OrderType), r # <<>>, NEW q
    PROVE  [r EXCEPT ![1].filled = r[1].filled + q, ![1].status = "partial"]
             = [r EXCEPT ![1] = FilledPartly(r[1], q)]
<1>1. DOMAIN r = 1 .. Len(r) /\ 1 \in DOMAIN r /\ r[1] \in OrderType
  BY EmptySeq, LenProperties, ElementOfSeq
<1> QED BY <1>1 DEF FilledPartly, OrderType

LEMMA WorkedNext ==
    ASSUME NEW o \in OrderType, Left(o) > 0, NEW b, BookInv(o.pair, b),
           NEW n \in Nat, NEW gone \in Nat, NEW t, NEW c, NEW tr, Worked(o, b, n, gone, t, c, tr),
           NEW r, r = c[Opposite(o.side)], Left(t) > 0, r # <<>>, Crosses(t, r[1]),
           NEW q, q = SmallerOf(Left(t), Left(r[1])),
           NEW cut, cut = AfterFill(r, q)
    PROVE  /\ q > 0
           /\ \E g \in Nat :
                Worked(o, b, n + 1, g, FilledMore(t, q), [c EXCEPT ![Opposite(o.side)] = cut],
                       Append(tr, Trade(t, r[1], q, Len(tr) + 1)))
<1> DEFINE side == Opposite(o.side)
           s == b[side]
           g == IF Left(r[1]) = q THEN gone + 1 ELSE gone
           v == [i \in 1 .. n |-> Trade(o, s[i], Fills(o, s)[i], i)]
           w == [i \in 1 .. n + 1 |-> Trade(o, s[i], Fills(o, s)[i], i)]
<1>1. side \in Sides /\ SideInv(o.pair, side, s) /\ b = [x \in Sides |-> b[x]]
  BY DEF OrderType, Opposite, Sides, BookInv, BookType
<1>2. /\ Progress(o, s, n, gone) /\ t = FilledMore(o, Used(o, s, n, gone))
      /\ c = [b EXCEPT ![side] = RestOf(o, s, n, gone)]
      /\ tr = v
  BY DEF Worked
<1> HIDE DEF s
<1>3. r = RestOf(o, s, n, gone)
  BY <1>1, <1>2
<1>4. n \in 0 .. Len(s) /\ gone \in 0 .. Len(s)
  BY <1>2 DEF Progress
<1>5. /\ n + 1 \in 0 .. Len(s) /\ g \in 0 .. Len(s) /\ Progress(o, s, n + 1, g)
      /\ q > 0 /\ q = Fills(o, s)[n + 1] /\ r[1] = s[n + 1]
      /\ FilledMore(t, q) = FilledMore(o, Used(o, s, n + 1, g))
      /\ cut = RestOf(o, s, n + 1, g)
  <2>1. g = IF Left(r[1]) = q THEN gone + 1 ELSE gone
    OBVIOUS
  <2>2. /\ o \in OrderType /\ Left(o) > 0 /\ Left(t) > 0 /\ r # <<>> /\ Crosses(t, r[1])
        /\ q = SmallerOf(Left(t), Left(r[1]))
    OBVIOUS
  <2>3. cut = AfterFill(r, q)
    OBVIOUS
  <2>4. /\ SideInv(o.pair, side, s) /\ Progress(o, s, n, gone)
        /\ t = FilledMore(o, Used(o, s, n, gone))
    BY <1>1, <1>2
  <2> HIDE DEF g, side, v, w
  <2> QED BY <1>3, <1>4, <2>1, <2>2, <2>3, <2>4, IterationAdvances
<1> HIDE DEF g
<1>6. g \in Nat
  BY <1>5
<1>7. [c EXCEPT ![side] = cut] = [b EXCEPT ![side] = RestOf(o, s, n + 1, g)]
  BY <1>1, <1>2, <1>5
<1>8. Append(tr, Trade(t, r[1], q, Len(tr) + 1)) = w
  <2>1. t.id = o.id /\ t.pair = o.pair
    BY <1>2 DEF FilledMore, OrderType
  <2>2. Trade(t, r[1], q, n + 1) = Trade(o, s[n + 1], Fills(o, s)[n + 1], n + 1)
    BY <1>5, <2>1 DEF Trade
  <2> DEFINE T == {Trade(o, s[i], Fills(o, s)[i], i) : i \in Nat}
  <2>3. \A i \in 1 .. n + 1 : Trade(o, s[i], Fills(o, s)[i], i) \in T
    OBVIOUS
  <2> HIDE DEF T
  <2>4. v \in Seq(T) /\ w \in Seq(T)
    BY <2>3, IsASeq
  <2>5. Len(v) = n /\ Len(w) = n + 1
    BY <2>4, LenProperties
  <2>6. Append(v, w[n + 1]) = w
    <3>1. w[n + 1] \in T /\ n + 1 \in Nat
      BY <2>3
    <3>2. \A i \in 1 .. n : v[i] = w[i]
      OBVIOUS
    <3> HIDE DEF v, w
    <3>3. /\ Append(v, w[n + 1]) \in Seq(T) /\ Len(Append(v, w[n + 1])) = n + 1
          /\ \A i \in 1 .. n + 1 : Append(v, w[n + 1])[i] = w[i]
      BY <2>4, <2>5, <3>1, <3>2, AppendProperties
    <3> QED BY <2>4, <2>5, <3>3, SeqEqual
  <2>7. w[n + 1] = Trade(t, r[1], q, n + 1)
    BY <2>2
  <2> HIDE DEF v, w
  <2> QED BY <1>2, <2>5, <2>6, <2>7
<1>9. Worked(o, b, n + 1, g, FilledMore(t, q), [c EXCEPT ![side] = cut],
             Append(tr, Trade(t, r[1], q, Len(tr) + 1)))
  BY <1>5, <1>7, <1>8 DEF Worked, s
<1> QED BY <1>5, <1>6, <1>9

(* ... and where it ends it has computed the outcome.                       *)
LEMMA WorkedDone ==
    ASSUME NEW o \in OrderType, Left(o) > 0, NEW b, BookInv(o.pair, b),
           NEW n \in Nat, NEW gone \in Nat, NEW t, NEW c, NEW tr, Worked(o, b, n, gone, t, c, tr),
           NEW r, r = c[Opposite(o.side)],
           ~(Left(t) > 0 /\ r # <<>> /\ Crosses(t, r[1]))
    PROVE  MatchOutcome(b, o).book = c /\ MatchOutcome(b, o).trades = tr
<1> DEFINE side == Opposite(o.side)
           s == b[side]
           fill == Fills(o, s)
<1>1. side \in Sides /\ SideInv(o.pair, side, s) /\ b = [x \in Sides |-> b[x]]
  BY DEF OrderType, Opposite, Sides, BookInv, BookType
<1>2. /\ Progress(o, s, n, gone) /\ t = FilledMore(o, Used(o, s, n, gone))
      /\ c = [b EXCEPT ![side] = RestOf(o, s, n, gone)]
      /\ tr = [i \in 1 .. n |-> Trade(o, s[i], fill[i], i)]
  BY DEF Worked
<1>3. s = b[Opposite(o.side)]
  OBVIOUS
<1> HIDE DEF s
<1>4. r = RestOf(o, s, n, gone)
  BY <1>1, <1>2
<1>5. /\ Len(s) \in Nat /\ DOMAIN s = 1 .. Len(s) /\ Offers(s) /\ s \in Seq(Entry(o.pair, side))
  BY <1>1, SideOffers DEF SideInv
<1>6. o.amount \in Nat /\ o.filled \in Nat /\ Left(o) = o.amount - o.filled /\ Left(o) \in Nat
  BY DEF OrderType, Left
<1>7. /\ n \in 0 .. Len(s) /\ gone \in 0 .. Len(s) /\ gone <= n /\ n <= gone + 1
      /\ (n > gone => Used(o, s, n, gone) = Left(o))
  BY <1>2 DEF Progress
<1>8. Offered(s)[gone] \in Nat
  BY <1>5, <1>7, OfferedSteps
<1>9. \/ Used(o, s, n, gone) = Left(o)
      \/ gone = Len(s)
      \/ n = gone /\ ~Crosses(o, s[gone + 1])
  <2>1. CASE n > gone
    BY <1>7, <2>1
  <2>2. CASE ~(n > gone)
    <3>1. n = gone /\ Used(o, s, n, gone) = Offered(s)[gone]
      BY <1>7, <1>8, <2>2 DEF Used
    <3>2. /\ t.amount = o.amount /\ t.filled = o.filled + Offered(s)[gone]
          /\ t.side = o.side /\ t.price = o.price
      BY <1>2, <3>1 DEF FilledMore, OrderType
    <3>3. Left(t) = Left(o) - Offered(s)[gone]
      BY <1>6, <1>8, <3>2 DEF Left
    <3>4. Offered(s)[gone] <= Left(o)
      <4>1. CASE gone = 0
        BY <1>5, <1>6, <4>1, OfferedSteps
      <4>2. CASE gone # 0
        <5>1. gone \in 1 .. Len(s) /\ gone - 1 \in 0 .. Len(s)
          BY <1>5, <1>7, <4>2
        <5>2. fill[gone] = Left(s[gone]) /\ fill[gone] > 0
          BY <1>2, <3>1, <5>1 DEF Progress
        <5>3. fill[gone] \in Nat /\ (fill[gone] + Offered(s)[gone - 1] <= Left(o) \/ fill[gone] = 0)
          BY <1>5, <1>6, <5>1, FillIs
        <5>4. Offered(s)[gone] = Offered(s)[gone - 1] + Left(s[gone])
                /\ Offered(s)[gone - 1] \in Nat
          BY <1>5, <5>1, OfferedSteps
        <5> HIDE DEF fill
        <5> QED BY <5>2, <5>3, <5>4
      <4> QED BY <4>1, <4>2
    <3>5. CASE ~(Left(t) > 0)
      BY <1>6, <1>8, <3>1, <3>3, <3>4, <3>5
    <3>6. CASE gone # Len(s)
      <4> DEFINE N == Len(s)
      <4>6. N \in Nat
        BY <1>5
      <4>7. gone \in 0 .. N /\ gone # N
        BY <1>7, <3>6
      <4>8. n = gone
        BY <3>1
      <4> HIDE DEF N
      <4>5. N \in Nat /\ gone \in Nat /\ gone <= N /\ gone # N /\ n = gone
        BY <4>6, <4>7, <4>8
      <4>1. 1 \in 1 .. N - gone /\ ~(gone + 1 <= n)
        BY <4>5
      <4>2. r[1] = s[gone + 1] /\ DOMAIN r # {}
        BY <1>4, <4>1 DEF RestOf, N
      <4>3. r # <<>>
        BY <4>2
      <4>4. Crosses(t, r[1]) <=> Crosses(o, s[gone + 1])
        BY <3>2, <4>2 DEF Crosses
      <4> QED BY <3>1, <3>5, <4>3, <4>4
    <3> QED BY <3>5, <3>6
  <2> QED BY <2>1, <2>2
<1> HIDE DEF fill
<1>10. Uses(o, s, n, gone)
  BY <1>2, <1>5, <1>6, <1>7, <1>9, LoopEnds
<1>11. \E m, h \in 0 .. Len(s) :
          /\ Uses(o, s, m, h)
          /\ MatchOutcome(b, o) = [book |-> [b EXCEPT ![side] = RestOf(o, s, m, h)],
                                   trades |-> [i \in 1 .. m |-> Trade(o, s[i], Fills(o, s)[i], i)]]
  <2>1. /\ Len(b[Opposite(o.side)]) \in Nat /\ Offers(b[Opposite(o.side)])
        /\ DOMAIN b[Opposite(o.side)] = 1 .. Len(b[Opposite(o.side)])
    BY <1>3, <1>5
  <2> QED BY <1>6, <2>1, OutcomeOfMatch DEF s
<1>12. PICK m, h \in 0 .. Len(s) :
          /\ Uses(o, s, m, h)
          /\ MatchOutcome(b, o) = [book |-> [b EXCEPT ![side] = RestOf(o, s, m, h)],
                                   trades |-> [i \in 1 .. m |-> Trade(o, s[i], Fills(o, s)[i], i)]]
  BY <1>11
<1>13. m = n /\ h = gone
  <2>1. \A i \in 1 .. Len(s) : Left(s[i]) \in Int
    BY <1>5 DEF Offers
  <2> QED BY <1>5, <1>7, <1>10, <1>12, <2>1, UsesOnce
<1> QED BY <1>2, <1>12, <1>13 DEF fill


-----------------------------------------------------------------------------
LEMMA MatchBeginWorks ==
    ASSUME IInv, NEW o \in Orders, MatchBegin(o)
    PROVE  MatchInv'
<1> DEFINE b == books[o.pair]
<1>1. o \in OrderType /\ o.pair \in Pairs
  BY OrdersAssumption DEF OrderType
<1>2. Left(o) > 0 /\ BookInv(o.pair, b)
  BY <1>1, FromIInv DEF MatchBegin
<1>3. /\ taker' = o /\ trades' = <<>> /\ before' = [order |-> o, book |-> b]
      /\ books'[o.pair] = b
  BY DEF MatchBegin
<1> HIDE DEF b
<1>4. before'.order = o /\ before'.book = b
  BY <1>3
<1>5. Worked(o, b, 0, 0, o, b, <<>>)
  BY <1>1, <1>2, WorkedAtFirst
<1>6. \E n, gone \in Nat :
         Worked(before'.order, before'.book, n, gone, taker', books'[before'.order.pair], trades')
  BY <1>3, <1>4, <1>5
<1> QED BY <1>1, <1>2, <1>4, <1>6 DEF MatchInv

LEMMA MatchFillWorks ==
    ASSUME IInv, MatchInv, MatchFill
    PROVE  MatchInv'
<1> DEFINE o == before.order
           b == before.book
           side == Opposite(o.side)
           c == books[o.pair]
           r == c[side]
           q == SmallerOf(Left(taker), Left(r[1]))
<1>1. /\ o \in OrderType /\ Left(o) > 0 /\ BookInv(o.pair, b)
      /\ \E n, gone \in Nat : Worked(o, b, n, gone, taker, c, trades)
  BY DEF MatchInv, MatchFill
<1>2. PICK n \in Nat, gone \in Nat : Worked(o, b, n, gone, taker, c, trades)
  BY <1>1
<1>3. taker.pair = o.pair /\ taker.side = o.side
  BY <1>1, <1>2 DEF Worked, FilledMore, OrderType
<1>4. OppositeSide = r
  BY <1>3 DEF OppositeSide
<1>5. Left(taker) > 0 /\ r # <<>> /\ Crosses(taker, r[1])
  BY <1>4 DEF MatchFill, CanFill
<1>6. /\ trades' = IF q > 0 THEN Append(trades, Trade(taker, r[1], q, Len(trades) + 1)) ELSE trades
      /\ taker' = FilledMore(taker, q)
      /\ books' = [books EXCEPT ![o.pair][side] =
                IF Left(r[1]) = q THEN Tail(@)
                ELSE [@ EXCEPT ![1].filled = r[1].filled + q, ![1].status = "partial"]]
      /\ before' = before
  BY <1>3, <1>4 DEF MatchFill, FilledMore
<1>7. books \in [Pairs -> BookType] /\ o.pair \in Pairs /\ side \in Sides
      /\ r \in Seq(OrderType) /\ c = [x \in Sides |-> c[x]]
  BY <1>1 DEF IInv, TypeOK, OrderType, BookType, Opposite, Sides
<1> DEFINE cut == AfterFill(r, q)
<1>8. books'[o.pair] = [c EXCEPT ![side] = cut]
  <2>1. [r EXCEPT ![1].filled = r[1].filled + q, ![1].status = "partial"]
          = [r EXCEPT ![1] = FilledPartly(r[1], q)]
    BY <1>5, <1>7, FirstFilledPartly
  <2>2. books'[o.pair] = [c EXCEPT ![side] =
                IF Left(r[1]) = q THEN Tail(r)
                ELSE [r EXCEPT ![1].filled = r[1].filled + q, ![1].status = "partial"]]
    BY <1>6, <1>7
  <2>3. cut = IF Left(r[1]) = q THEN Tail(r)
              ELSE [r EXCEPT ![1].filled = r[1].filled + q, ![1].status = "partial"]
    BY <2>1 DEF AfterFill
  <2> QED BY <2>2, <2>3
<1>9. q = SmallerOf(Left(taker), Left(r[1])) /\ cut = AfterFill(r, q) /\ r = c[Opposite(o.side)]
  OBVIOUS
<1> HIDE DEF q, cut, r
<1>10. /\ q > 0
       /\ \E g \in Nat :
            Worked(o, b, n + 1, g, FilledMore(taker, q), [c EXCEPT ![Opposite(o.side)] = cut],
                   Append(trades, Trade(taker, r[1], q, Len(trades) + 1)))
  <2> HIDE DEF o, b, c
  <2> QED BY <1>1, <1>2, <1>5, <1>9, WorkedNext DEF side
<1>11. /\ taker' = FilledMore(taker, q)
       /\ trades' = Append(trades, Trade(taker, r[1], q, Len(trades) + 1))
       /\ books'[o.pair] = [c EXCEPT ![side] = cut]
  BY <1>6, <1>8, <1>10
<1>12. \E m, g \in Nat : Worked(o, b, m, g, taker', books'[o.pair], trades')
  <2>1. PICK g \in Nat :
            Worked(o, b, n + 1, g, FilledMore(taker, q), [c EXCEPT ![Opposite(o.side)] = cut],
                   Append(trades, Trade(taker, r[1], q, Len(trades) + 1)))
    BY <1>10
  <2>2. Worked(o, b, n + 1, g, taker', books'[o.pair], trades')
    BY <1>11, <2>1
  <2>3. n + 1 \in Nat
    OBVIOUS
  <2> QED BY <2>2, <2>3
<1>13. before'.order = o /\ before'.book = b
  BY <1>6
<1> HIDE DEF o, b, c
<1> QED BY <1>1, <1>12, <1>13 DEF MatchInv

LEMMA StepKeepsMatchInv ==
    ASSUME IInv, MatchInv, [Next]_vars
    PROVE  MatchInv'
<1>1. CASE \E o \in Orders : MatchBegin(o)
  BY <1>1, MatchBeginWorks
<1>2. CASE MatchFill
  BY <1>2, MatchFillWorks
<1>3. CASE taker' = NoTaker
  BY <1>3 DEF MatchInv
<1>4. CASE UNCHANGED vars
  BY <1>4 DEF MatchInv, vars
<1>5. CASE Next /\ ~(\E o \in Orders : MatchBegin(o)) /\ ~MatchFill
  <2>1. taker' = NoTaker
    BY <1>5 DEF Next, AddOrder, RemoveOrderById, RemoveOrder, ReplaceOrderbook, MatchEnd,
                Tick, MutexFree
  <2> QED BY <2>1, <1>3
<1> QED BY <1>1, <1>2, <1>4, <1>5

(* Whatever the orders and the book: the loop of Match makes the trades and *)
(* leaves the book of the outcome that is stated without a loop.            *)
THEOREM MatchComputesOutcome == Spec => MatchIsOutcome
<1> DEFINE Computes ==
             taker # NoTaker /\ taker' = NoTaker =>
                LET out == MatchOutcome(before.book, before.order) IN
                books'[taker.pair] = out.book /\ trades = out.trades
<1>1. ASSUME IInv, MatchInv, [Next]_vars, taker # NoTaker, taker' = NoTaker
      PROVE  LET out == MatchOutcome(before.book, before.order) IN
             books'[taker.pair] = out.book /\ trades = out.trades
  <2> DEFINE o == before.order
             b == before.book
             c == books[o.pair]
             r == c[Opposite(o.side)]
  <2>1. CanFill => ~MatchEnd
    BY DEF MatchEnd
  <2>2. MatchEnd
    <3>1. ~MatchFill
      <4> SUFFICES ASSUME MatchFill PROVE FALSE
        OBVIOUS
      <4>1. taker' \in OrderType
        <5>1. IInv'
          BY <1>1, StepKeepsIInv
        <5>2. /\ taker.id \in OrderIds
              /\ taker' = [taker EXCEPT !.filled =
                             @ + SmallerOf(Left(taker), Left(OppositeSide[1]))]
          BY <1>1 DEF IInv, TypeOK, OrderType, MatchFill
        <5>3. taker \in OrderType /\ SmallerOf(Left(taker), Left(OppositeSide[1])) \in Nat
          BY <1>1, FillFacts DEF MatchFill
        <5> QED BY <5>2, <5>3 DEF OrderType
      <4> QED BY <1>1, <4>1, NoPairAssumption
    <3>2. Next
      BY <1>1 DEF vars
    <3> QED BY <1>1, <3>1, <3>2 DEF Next, AddOrder, MatchBegin, RemoveOrderById, RemoveOrder,
                ReplaceOrderbook, Tick, MutexFree
  <2>3. /\ o \in OrderType /\ Left(o) > 0 /\ BookInv(o.pair, b)
        /\ \E n, gone \in Nat : Worked(o, b, n, gone, taker, c, trades)
    BY <1>1 DEF MatchInv
  <2>4. PICK n \in Nat, gone \in Nat : Worked(o, b, n, gone, taker, c, trades)
    BY <2>3
  <2>5. taker.pair = o.pair /\ taker.side = o.side
    BY <2>3, <2>4 DEF Worked, FilledMore, OrderType
  <2>6. OppositeSide = r
    BY <2>5 DEF OppositeSide
  <2>7. ~(Left(taker) > 0 /\ r # <<>> /\ Crosses(taker, r[1]))
    BY <2>2, <2>6 DEF MatchEnd, CanFill
  <2>8. MatchOutcome(b, o).book = c /\ MatchOutcome(b, o).trades = trades
    <3>1. r = c[Opposite(o.side)]
      OBVIOUS
    <3> HIDE DEF o, b, c, r
    <3> QED BY <2>3, <2>4, <2>7, <3>1, WorkedDone
  <2>9. books'[o.pair] = c
    <3>1. o.pair \in Pairs /\ books \in [Pairs -> BookType]
      BY <1>1, <2>3 DEF IInv, TypeOK, OrderType
    <3>2. books' = [books EXCEPT ![o.pair] = [side \in Sides |-> TrimFilled(@[side])]]
      BY <2>2, <2>5 DEF MatchEnd
    <3>3. [side \in Sides |-> TrimFilled(c[side])] = c
      <4>1. BookInv(o.pair, c)
        BY <1>1, <3>1, FromIInv
      <4> QED BY <4>1, NothingToTrim
    <3> QED BY <3>1, <3>2, <3>3
  <2> QED BY <2>5, <2>8, <2>9
<1>2. IInv /\ MatchInv /\ [Next]_vars => [Computes]_vars
  BY <1>1
<1>3. Init => MatchInv
  BY DEF Init, MatchInv
<1>4. IInv /\ MatchInv /\ [Next]_vars => MatchInv'
  BY StepKeepsMatchInv
<1> QED BY <1>2, <1>3, <1>4, Invariance, PTL DEF Spec, MatchIsOutcome
=============================================================================
