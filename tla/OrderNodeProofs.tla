--------------------------- MODULE OrderNodeProofs ---------------------------
(* Proofs about OrderNode, for every set of nodes and of orders and every   *)
(* number of publications, crashes and ticks.                               *)
EXTENDS OrderNode, OrderBookLemmas

-----------------------------------------------------------------------------
(* What the trades of an engine sum up to, order by order and role by role. *)
Amounts(ts) == [k \in DOMAIN ts |-> ts[k].amount]
MakerAt(ts, id) == {k \in DOMAIN ts : ts[k].maker = id}
TakerAt(ts, id) == {k \in DOMAIN ts : ts[k].taker = id}
Sold(ts, id) == SumFunctionOnSet(Amounts(ts), MakerAt(ts, id))
Bought(ts, id) == SumFunctionOnSet(Amounts(ts), TakerAt(ts, id))

LEMMA SoldIsAsMaker ==
    \A n, id : AsMaker(n, id) = Sold(made[n], id) /\ AsTaker(n, id) = Bought(made[n], id)
BY DEF AsMaker, AsTaker, Traded, Sold, Bought, Amounts, MakerAt, TakerAt

LEMMA AmountsAreNat ==
    ASSUME NEW ts \in Seq(TradeType)
    PROVE  /\ DOMAIN ts = 1 .. Len(ts) /\ Len(ts) \in Nat /\ IsFiniteSet(1 .. Len(ts))
           /\ \A k \in 1 .. Len(ts) : Amounts(ts)[k] \in Nat /\ Amounts(ts)[k] = ts[k].amount
<1>1. DOMAIN ts = 1 .. Len(ts) /\ Len(ts) \in Nat
  BY LenProperties
<1>2. IsFiniteSet(1 .. Len(ts))
  BY <1>1, FS_Interval
<1>3. \A k \in 1 .. Len(ts) : ts[k] \in TradeType
  BY ElementOfSeq, LenProperties
<1> QED BY <1>1, <1>2, <1>3 DEF Amounts, TradeType

LEMMA SumOfAmountsNat ==
    ASSUME NEW ts \in Seq(TradeType), NEW S, S \subseteq 1 .. Len(ts)
    PROVE  /\ IsFiniteSet(S)
           /\ SumFunctionOnSet(Amounts(ts), S) \in Nat
<1>1. /\ IsFiniteSet(1 .. Len(ts))
      /\ \A k \in 1 .. Len(ts) : Amounts(ts)[k] \in Nat
  BY AmountsAreNat
<1>2. IsFiniteSet(S)
  BY <1>1, FS_Subset
<1>3. \A k \in S : Amounts(ts)[k] \in Nat
  BY <1>1
<1> QED BY <1>2, <1>3, SumNat

LEMMA SoldNat ==
    ASSUME NEW ts \in Seq(TradeType), NEW id
    PROVE  Sold(ts, id) \in Nat /\ Bought(ts, id) \in Nat
<1>1. MakerAt(ts, id) \subseteq 1 .. Len(ts) /\ TakerAt(ts, id) \subseteq 1 .. Len(ts)
  BY AmountsAreNat DEF MakerAt, TakerAt
<1> QED BY <1>1, SumOfAmountsNat DEF Sold, Bought

(* Trades that are appended leave the sum over the earlier ones alone.      *)
LEMMA EarlierAmounts ==
    ASSUME NEW ts \in Seq(TradeType), NEW new \in Seq(TradeType), NEW S, S \subseteq 1 .. Len(ts)
    PROVE  SumFunctionOnSet(Amounts(ts \o new), S) = SumFunctionOnSet(Amounts(ts), S)
<1>1. /\ ts \o new \in Seq(TradeType)
      /\ Len(ts \o new) = Len(ts) + Len(new)
      /\ \A i \in 1 .. Len(ts) : (ts \o new)[i] = ts[i]
  BY Concatenation
<1>2. \A i \in 1 .. Len(ts) : Amounts(ts \o new)[i] = Amounts(ts)[i]
  <2>1. Len(ts) \in Nat /\ Len(new) \in Nat
    BY AmountsAreNat
  <2>2. \A i \in 1 .. Len(ts) : Amounts(ts)[i] = ts[i].amount
    BY AmountsAreNat
  <2>3. \A i \in 1 .. Len(ts \o new) : Amounts(ts \o new)[i] = (ts \o new)[i].amount
    BY <1>1, AmountsAreNat
  <2> QED BY <1>1, <2>1, <2>2, <2>3
<1>3. IsFiniteSet(S)
  BY SumOfAmountsNat
<1>4. \A x \in S : Amounts(ts \o new)[x] = Amounts(ts)[x]
  BY <1>2
<1> QED BY <1>3, <1>4, SumEqual

(* One of the appended trades, or none, is the maker's.                     *)
LEMMA SoldMore ==
    ASSUME NEW ts \in Seq(TradeType), NEW new \in Seq(TradeType), NEW id
    PROVE  /\ (\A j \in 1 .. Len(new) : new[j].maker # id) => Sold(ts \o new, id) = Sold(ts, id)
           /\ \A j \in 1 .. Len(new) :
                (\A i \in 1 .. Len(new) : new[i].maker = id <=> i = j) =>
                    Sold(ts \o new, id) = Sold(ts, id) + new[j].amount
<1> DEFINE all == ts \o new
           S == MakerAt(ts, id)
<1>1. /\ all \in Seq(TradeType)
      /\ Len(all) = Len(ts) + Len(new)
      /\ \A i \in 1 .. Len(ts) : all[i] = ts[i]
      /\ \A i \in 1 .. Len(new) : all[Len(ts) + i] = new[i]
  BY Concatenation
<1>2. /\ Len(ts) \in Nat /\ Len(new) \in Nat
      /\ DOMAIN ts = 1 .. Len(ts) /\ DOMAIN all = 1 .. Len(all)
  BY <1>1, AmountsAreNat
<1>3. S \subseteq 1 .. Len(ts)
  BY <1>2 DEF MakerAt
<1>4. SumFunctionOnSet(Amounts(all), S) = Sold(ts, id)
  BY <1>3, EarlierAmounts DEF Sold
<1>5. \A k \in 1 .. Len(all) : k \in 1 .. Len(ts) \/ \E i \in 1 .. Len(new) : k = Len(ts) + i
  <2> SUFFICES ASSUME NEW k \in 1 .. Len(all), k \notin 1 .. Len(ts)
               PROVE  \E i \in 1 .. Len(new) : k = Len(ts) + i
    OBVIOUS
  <2>1. k - Len(ts) \in 1 .. Len(new) /\ k = Len(ts) + (k - Len(ts))
    BY <1>1, <1>2
  <2> QED BY <2>1
<1> HIDE DEF all
<1>8. S \subseteq MakerAt(all, id)
  <2> SUFFICES ASSUME NEW k \in S PROVE k \in MakerAt(all, id)
    OBVIOUS
  <2>1. k \in 1 .. Len(ts) /\ ts[k].maker = id
    BY <1>2 DEF MakerAt
  <2>2. k \in 1 .. Len(all) /\ all[k] = ts[k]
    BY <1>1, <1>2, <2>1
  <2> QED BY <1>2, <2>1, <2>2 DEF MakerAt
<1>6. ASSUME \A j \in 1 .. Len(new) : new[j].maker # id
      PROVE  Sold(all, id) = Sold(ts, id)
  <2>1. MakerAt(all, id) \subseteq S
    <3> SUFFICES ASSUME NEW k \in MakerAt(all, id) PROVE k \in S
      OBVIOUS
    <3>1. k \in 1 .. Len(all) /\ all[k].maker = id
      BY <1>2 DEF MakerAt
    <3>2. CASE k \in 1 .. Len(ts)
      BY <1>1, <1>2, <3>1, <3>2 DEF MakerAt
    <3>3. CASE \E i \in 1 .. Len(new) : k = Len(ts) + i
      BY <1>1, <1>6, <3>1, <3>3
    <3> QED BY <1>5, <3>1, <3>2, <3>3
  <2>2. S \subseteq MakerAt(all, id)
    BY <1>8
  <2>3. MakerAt(all, id) = S
    BY <2>1, <2>2
  <2> QED BY <1>4, <2>3 DEF Sold
<1>7. ASSUME NEW j \in 1 .. Len(new), \A i \in 1 .. Len(new) : new[i].maker = id <=> i = j
      PROVE  Sold(all, id) = Sold(ts, id) + new[j].amount
  <2> DEFINE e == Len(ts) + j
             T == MakerAt(all, id)
  <2>1. e \in 1 .. Len(all) /\ e \notin S /\ all[e] = new[j]
    BY <1>1, <1>2, <1>3
  <2>2. T = S \cup {e} /\ T \ {e} = S /\ e \in T /\ T \subseteq 1 .. Len(all)
    <3>1. T \subseteq S \cup {e}
      <4> SUFFICES ASSUME NEW k \in T PROVE k \in S \cup {e}
        OBVIOUS
      <4>1. k \in 1 .. Len(all) /\ all[k].maker = id
        BY <1>2 DEF MakerAt
      <4>2. CASE k \in 1 .. Len(ts)
        BY <1>1, <1>2, <4>1, <4>2 DEF MakerAt
      <4>3. CASE \E i \in 1 .. Len(new) : k = Len(ts) + i
        BY <1>1, <1>7, <4>1, <4>3
      <4> QED BY <1>5, <4>1, <4>2, <4>3
    <3>2. S \cup {e} \subseteq T
      <4>1. e \in T
        BY <1>2, <1>7, <2>1 DEF MakerAt
      <4> QED BY <1>8, <4>1
    <3>3. T \subseteq 1 .. Len(all)
      BY <1>2 DEF MakerAt
    <3> QED BY <2>1, <3>1, <3>2, <3>3
  <2>3. IsFiniteSet(T) /\ \A x \in T : Amounts(all)[x] \in Int
    <3>1. IsFiniteSet(T)
      BY <1>1, <2>2, SumOfAmountsNat
    <3>2. \A x \in T : Amounts(all)[x] \in Nat
      BY <1>1, <2>2, AmountsAreNat
    <3> QED BY <3>1, <3>2
  <2>4. Amounts(all)[e] = new[j].amount /\ Amounts(all)[e] \in Nat
    BY <1>1, <2>1, AmountsAreNat
  <2> HIDE DEF e, T, S
  <2>5. SumFunctionOnSet(Amounts(all), T) =
          Amounts(all)[e] + SumFunctionOnSet(Amounts(all), T \ {e})
    <3> DEFINE f == Amounts(all)
    <3>1. IsFiniteSet(T) /\ e \in T /\ \A x \in T : f[x] \in Int
      BY <2>2, <2>3
    <3> HIDE DEF f
    <3>2. SumFunctionOnSet(f, T) = f[e] + SumFunctionOnSet(f, T \ {e})
      BY <3>1, SumElement
    <3> QED BY <3>2 DEF f
  <2>6. Sold(ts, id) \in Nat
    BY SoldNat
  <2>7. SumFunctionOnSet(Amounts(all), T) = new[j].amount + Sold(ts, id)
    BY <1>4, <2>2, <2>4, <2>5
  <2> QED BY <2>4, <2>6, <2>7 DEF Sold, T
<1> QED BY <1>6, <1>7 DEF all

(* All of the appended trades, or none, are the taker's.                    *)
LEMMA BoughtMore ==
    ASSUME NEW ts \in Seq(TradeType), NEW new \in Seq(TradeType), NEW id
    PROVE  /\ (\A j \in 1 .. Len(new) : new[j].taker # id) => Bought(ts \o new, id) = Bought(ts, id)
           /\ (\A j \in 1 .. Len(new) : new[j].taker = id) =>
                  Bought(ts \o new, id) =
                      Bought(ts, id) + SumFunctionOnSet(Amounts(new), 1 .. Len(new))
<1> DEFINE all == ts \o new
           S == TakerAt(ts, id)
           m == Len(ts)
<1>1. /\ all \in Seq(TradeType)
      /\ Len(all) = m + Len(new)
      /\ \A i \in 1 .. m : all[i] = ts[i]
      /\ \A i \in 1 .. Len(new) : all[m + i] = new[i]
  BY Concatenation
<1>2. /\ m \in Nat /\ Len(new) \in Nat
      /\ DOMAIN ts = 1 .. m /\ DOMAIN all = 1 .. Len(all)
  BY <1>1, AmountsAreNat
<1>3. S \subseteq 1 .. m
  BY <1>2 DEF TakerAt
<1>4. SumFunctionOnSet(Amounts(all), S) = Bought(ts, id)
  BY <1>3, EarlierAmounts DEF Bought
<1>5. \A k \in 1 .. Len(all) : k \in 1 .. m \/ \E i \in 1 .. Len(new) : k = m + i
  <2> SUFFICES ASSUME NEW k \in 1 .. Len(all), k \notin 1 .. m
               PROVE  \E i \in 1 .. Len(new) : k = m + i
    OBVIOUS
  <2>1. k - m \in 1 .. Len(new) /\ k = m + (k - m)
    BY <1>1, <1>2
  <2> QED BY <2>1
<1> HIDE DEF all, m
<1>6. ASSUME \A j \in 1 .. Len(new) : new[j].taker # id
      PROVE  Bought(all, id) = Bought(ts, id)
  <2>1. TakerAt(all, id) = S
    BY <1>1, <1>2, <1>5, <1>6 DEF TakerAt
  <2> QED BY <1>4, <2>1 DEF Bought
<1>7. ASSUME \A j \in 1 .. Len(new) : new[j].taker = id
      PROVE  Bought(all, id) = Bought(ts, id) + SumFunctionOnSet(Amounts(new), 1 .. Len(new))
  <2> DEFINE F(k) == SumFunctionOnSet(Amounts(all), S \cup (m + 1 .. m + k))
             G(k) == SumFunctionOnSet(Amounts(new), 1 .. k)
             R == {k \in Nat : k <= Len(new) => F(k) = Bought(ts, id) + G(k)}
  <2>1. 0 \in R
    <3>1. S \cup (m + 1 .. m + 0) = S /\ 1 .. 0 = {}
      BY <1>2
    <3>2. F(0) = Bought(ts, id) /\ G(0) = 0
      BY <1>4, <3>1, SumEmpty
    <3>3. Bought(ts, id) \in Nat
      BY SoldNat
    <3> HIDE DEF F, G
    <3> QED BY <3>2, <3>3
  <2>2. ASSUME NEW k \in Nat, k \in R PROVE k + 1 \in R
    <3> SUFFICES ASSUME k + 1 <= Len(new) PROVE F(k + 1) = Bought(ts, id) + G(k + 1)
      OBVIOUS
    <3> DEFINE A == S \cup (m + 1 .. m + (k + 1))
               e == m + (k + 1)
               B == 1 .. k + 1
    <3>1. /\ e \in A /\ A \ {e} = S \cup (m + 1 .. m + k)
          /\ A \subseteq 1 .. Len(all) /\ e \in 1 .. Len(all)
      <4>1. e \in m + 1 .. m + (k + 1) /\ (m + 1 .. m + (k + 1)) \ {e} = m + 1 .. m + k
        BY <1>2
      <4>2. e \notin S
        BY <1>2, <1>3
      <4>3. m + 1 .. m + (k + 1) \subseteq 1 .. Len(all) /\ 1 .. m \subseteq 1 .. Len(all)
        BY <1>1, <1>2
      <4> HIDE DEF e
      <4> QED BY <1>3, <4>1, <4>2, <4>3
    <3>2. k + 1 \in B /\ B \ {k + 1} = 1 .. k /\ B \subseteq 1 .. Len(new)
      BY <1>2
    <3>3. /\ IsFiniteSet(A) /\ \A x \in A : Amounts(all)[x] \in Int
          /\ Amounts(all)[e] = all[e].amount /\ Amounts(all)[e] \in Nat
      <4>1. IsFiniteSet(A)
        BY <1>1, <3>1, SumOfAmountsNat
      <4>2. \A x \in 1 .. Len(all) : Amounts(all)[x] \in Nat /\ Amounts(all)[x] = all[x].amount
        BY <1>1, AmountsAreNat
      <4> QED BY <3>1, <4>1, <4>2
    <3>4. /\ IsFiniteSet(B) /\ \A x \in B : Amounts(new)[x] \in Int
          /\ Amounts(new)[k + 1] = new[k + 1].amount
      <4>1. IsFiniteSet(B)
        BY <3>2, SumOfAmountsNat
      <4>2. \A x \in 1 .. Len(new) : Amounts(new)[x] \in Nat /\ Amounts(new)[x] = new[x].amount
        BY AmountsAreNat
      <4> QED BY <3>2, <4>1, <4>2
    <3>5. all[e] = new[k + 1]
      BY <1>1, <1>2
    <3> HIDE DEF A, B, e
    <3>6. SumFunctionOnSet(Amounts(all), A) =
              Amounts(all)[e] + SumFunctionOnSet(Amounts(all), A \ {e})
      <4> DEFINE f == Amounts(all)
      <4>1. IsFiniteSet(A) /\ e \in A /\ \A x \in A : f[x] \in Int
        BY <3>1, <3>3
      <4> HIDE DEF f
      <4>2. SumFunctionOnSet(f, A) = f[e] + SumFunctionOnSet(f, A \ {e})
        BY <4>1, SumElement
      <4> QED BY <4>2 DEF f
    <3>7. SumFunctionOnSet(Amounts(new), B) =
              Amounts(new)[k + 1] + SumFunctionOnSet(Amounts(new), B \ {k + 1})
      BY <3>2, <3>4, SumElement
    <3>8. F(k + 1) = Amounts(all)[e] + F(k)
      BY Zenon, <3>1, <3>6 DEF A
    <3>9. G(k + 1) = Amounts(new)[k + 1] + G(k)
      BY Zenon, <3>2, <3>7 DEF B
    <3>10. G(k) \in Nat /\ Bought(ts, id) \in Nat
      <4>1. 1 .. k \subseteq 1 .. Len(new)
        BY <1>2
      <4> QED BY <4>1, SumOfAmountsNat, SoldNat
    <3>11. F(k) = Bought(ts, id) + G(k)
      <4> HIDE DEF F, G
      <4> QED BY <1>2, <2>2
    <3> HIDE DEF F, G
    <3> QED BY <3>3, <3>4, <3>5, <3>8, <3>9, <3>10, <3>11
  <2>3. Nat \subseteq R
    <3> HIDE DEF R
    <3> QED BY <2>1, <2>2, SetOfNatInduction
  <2>4. F(Len(new)) = Bought(ts, id) + G(Len(new))
    <3> HIDE DEF F, G
    <3> QED BY <1>2, <2>3
  <2>5. TakerAt(all, id) = S \cup (m + 1 .. m + Len(new))
    <3>1. TakerAt(all, id) \subseteq S \cup (m + 1 .. m + Len(new))
      BY <1>1, <1>2, <1>5 DEF TakerAt
    <3>2. S \cup (m + 1 .. m + Len(new)) \subseteq TakerAt(all, id)
      <4>1. S \subseteq TakerAt(all, id)
        BY <1>1, <1>2, <1>3 DEF TakerAt
      <4>2. ASSUME NEW k \in m + 1 .. m + Len(new) PROVE k \in TakerAt(all, id)
        <5>1. PICK i \in 1 .. Len(new) : k = m + i
          <6>1. k - m \in 1 .. Len(new) /\ k = m + (k - m)
            BY <1>2
          <6> QED BY <6>1
        <5>2. all[k] = new[i] /\ new[i].taker = id /\ k \in DOMAIN all
          BY <1>1, <1>2, <1>7, <5>1
        <5> QED BY <5>2 DEF TakerAt
      <4> QED BY <4>1, <4>2
    <3> QED BY <3>1, <3>2
  <2> QED BY Zenon, <2>4, <2>5 DEF Bought
<1> QED BY <1>6, <1>7 DEF all
-----------------------------------------------------------------------------
(* What may rest on a side: something of an order that clients posted. The  *)
(* entry keeps the amount it was added with.                                *)
Entry(side) ==
    {e \in OrderType :
        /\ e.side = side /\ e.filled < e.amount
        /\ \E o \in Orders : o.id = e.id /\ o.side = side /\ o.amount = e.amount}

BookSound(b) ==
    /\ b \in BookType
    /\ \A side \in Sides : b[side] \in Seq(Entry(side)) /\ Distinct(b[side])

EntriesOf(s) == {s[i] : i \in 1 .. Len(s)}
BookEntries(b) == EntriesOf(b["buy"]) \cup EntriesOf(b["sell"])

LEMMA EntryFacts ==
    ASSUME NEW side, NEW s \in Seq(Entry(side))
    PROVE  /\ Len(s) \in Nat /\ DOMAIN s = 1 .. Len(s)
           /\ \A i \in 1 .. Len(s) : s[i] \in Entry(side)
           /\ \A e \in EntriesOf(s) : e \in Entry(side)
           /\ Offers(s)
<1>1. Len(s) \in Nat /\ DOMAIN s = 1 .. Len(s)
  BY LenProperties
<1>2. \A i \in 1 .. Len(s) : s[i] \in Entry(side)
  BY ElementOfSeq, LenProperties
<1>3. \A e \in Entry(side) : Left(e) \in Nat /\ Left(e) > 0
  BY DEF Entry, OrderType, Left
<1> QED BY <1>1, <1>2, <1>3 DEF EntriesOf, Offers

LEMMA OrderFacts ==
    ASSUME NEW o \in Orders
    PROVE  /\ o \in OrderType /\ o.id \in OrderIds /\ o.side \in Sides
           /\ o.amount \in Nat /\ o.amount > 0 /\ o.filled = 0 /\ o.status = "open"
           /\ Left(o) = o.amount /\ Left(o) \in Nat /\ Left(o) > 0
           /\ Resting(o) = o /\ o \in Entry(o.side)
           /\ Opposite(o.side) \in Sides /\ Opposite(o.side) # o.side
<1>1. o \in OrderType /\ o.status = "open" /\ o.filled = 0 /\ o.amount > 0
  BY OrdersAssumption
<1>2. o.id \in OrderIds /\ o.side \in Sides /\ o.amount \in Nat
  BY <1>1 DEF OrderType
<1>3. Left(o) = o.amount
  BY <1>1, <1>2 DEF Left
<1>4. Resting(o) = o
  BY <1>1, <1>3 DEF Resting, OrderType
<1>5. o \in Entry(o.side)
  BY <1>1, <1>2 DEF Entry
<1>6. Opposite(o.side) \in Sides /\ Opposite(o.side) # o.side
  BY <1>2 DEF Opposite, Sides
<1> QED BY <1>1, <1>2, <1>3, <1>4, <1>5, <1>6

(* An entry is found by its identifier, whatever side it is on.             *)
LEMMA OneEntry ==
    ASSUME NEW b, BookSound(b), NEW e \in BookEntries(b), NEW f \in BookEntries(b), e.id = f.id
    PROVE  e = f
<1>1a. PICK s1 \in Sides : e \in EntriesOf(b[s1])
  BY DEF BookEntries, Sides
<1>1. PICK i \in 1 .. Len(b[s1]) : e = b[s1][i]
  BY <1>1a DEF EntriesOf
<1>2a. PICK s2 \in Sides : f \in EntriesOf(b[s2])
  BY DEF BookEntries, Sides
<1>2. PICK j \in 1 .. Len(b[s2]) : f = b[s2][j]
  BY <1>2a DEF EntriesOf
<1>3. e \in Entry(s1) /\ f \in Entry(s2)
  <2>1. b[s1] \in Seq(Entry(s1)) /\ b[s2] \in Seq(Entry(s2))
    BY DEF BookSound
  <2> QED BY <1>1, <1>2, <2>1, EntryFacts
<1>4. s1 = s2
  <2>1. PICK o \in Orders : o.id = e.id /\ o.side = s1
    BY <1>3 DEF Entry
  <2>2. PICK p \in Orders : p.id = f.id /\ p.side = s2
    BY <1>3 DEF Entry
  <2>3. o = p
    BY <2>1, <2>2, OrdersAssumption
  <2> QED BY <2>1, <2>2, <2>3
<1>5. i = j
  BY <1>1, <1>2, <1>4 DEF BookSound, Distinct
<1> QED BY <1>1, <1>2, <1>4, <1>5

LEMMA BookEntriesHaveType ==
    ASSUME NEW b, BookSound(b), NEW e \in BookEntries(b)
    PROVE  /\ e \in OrderType /\ e.side \in Sides /\ e \in EntriesOf(b[e.side])
           /\ Left(e) \in Nat /\ Left(e) > 0
           /\ \E o \in Orders : o.id = e.id /\ o.side = e.side /\ o.amount = e.amount
<1>1. PICK side \in Sides : e \in EntriesOf(b[side])
  BY DEF BookEntries, Sides
<1>2. e \in Entry(side)
  BY <1>1, EntryFacts DEF BookSound
<1> QED BY <1>1, <1>2 DEF Entry, OrderType, Left

LEMMA RestingAreEntries ==
    ASSUME NEW b, BookSound(b)
    PROVE  \A id : id \in RestingIds(b) <=> \E e \in BookEntries(b) : e.id = id
<1>1. \A side \in Sides : DOMAIN b[side] = 1 .. Len(b[side])
  BY EntryFacts DEF BookSound
<1>2. \A e \in BookEntries(b) : e.id \in OrderIds
  BY BookEntriesHaveType DEF OrderType
<1>3. ASSUME NEW id \in RestingIds(b) PROVE \E e \in BookEntries(b) : e.id = id
  BY <1>1 DEF RestingIds, BookEntries, EntriesOf, Sides
<1>4. ASSUME NEW e \in BookEntries(b) PROVE e.id \in RestingIds(b)
  BY <1>1, <1>2 DEF RestingIds, BookEntries, EntriesOf, Sides
<1> QED BY <1>3, <1>4

-----------------------------------------------------------------------------
(* A cancelled order, or the copy of one that is added again, leaves.       *)
LEMMA SideEntriesWithout ==
    ASSUME NEW side, NEW s \in Seq(Entry(side)), Distinct(s), NEW id
    PROVE  /\ Without(s, id) \in Seq(Entry(side)) /\ Distinct(Without(s, id))
           /\ EntriesOf(Without(s, id)) = {e \in EntriesOf(s) : e.id # id}
<1> DEFINE r == Without(s, id)
<1>1. r \in Seq(Entry(side)) /\ Distinct(r) /\ Ids(r) = Ids(s) \ {id}
  BY SideWithout
<1>2. EntriesOf(r) \subseteq EntriesOf(s)
  <2>1. \/ r = s
        \/ \E k \in 1 .. Len(s) : CutAt(s, r, k)
    BY WithoutCuts
  <2>2. ASSUME NEW k \in 1 .. Len(s), CutAt(s, r, k) PROVE EntriesOf(r) \subseteq EntriesOf(s)
    <3>1. Len(r) = Len(s) - 1 /\ \A j \in 1 .. Len(r) : r[j] = IF j < k THEN s[j] ELSE s[j + 1]
      BY <2>2 DEF CutAt
    <3>2. Len(s) \in Nat
      BY EntryFacts
    <3> HIDE DEF r
    <3> QED BY <3>1, <3>2 DEF EntriesOf
  <2> QED BY <2>1, <2>2
<1> HIDE DEF r
<1>3. EntriesOf(r) \subseteq {e \in EntriesOf(s) : e.id # id}
  <2>1. \A e \in EntriesOf(r) : e.id \in Ids(r)
    BY DEF EntriesOf, Ids
  <2> QED BY <1>1, <1>2, <2>1
<1>4. ASSUME NEW e \in EntriesOf(s), e.id # id PROVE e \in EntriesOf(r)
  <2>1. e.id \in Ids(r)
    BY <1>1, <1>4 DEF EntriesOf, Ids
  <2>2. PICK f \in EntriesOf(r) : f.id = e.id
    BY <2>1 DEF EntriesOf, Ids
  <2>3. f \in EntriesOf(s)
    BY <1>2
  <2>4. f = e
    BY <2>2, <2>3 DEF EntriesOf, Distinct
  <2> QED BY <2>4
<1> QED BY <1>1, <1>3, <1>4 DEF r

LEMMA SoundSides ==
    ASSUME NEW b, b = [side \in Sides |-> b[side]],
           \A side \in Sides : b[side] \in Seq(Entry(side)) /\ Distinct(b[side])
    PROVE  BookSound(b)
<1>1. \A side \in Sides : b[side] \in Seq(OrderType)
  <2>1. \A side : Entry(side) \subseteq OrderType
    BY DEF Entry
  <2> QED BY <2>1
<1>2. b \in BookType
  BY <1>1 DEF BookType
<1> QED BY <1>2 DEF BookSound

LEMMA RemovedEntries ==
    ASSUME NEW b, BookSound(b), NEW id
    PROVE  /\ BookSound(RemoveOrderFromBook(b, id))
           /\ BookEntries(RemoveOrderFromBook(b, id)) = {e \in BookEntries(b) : e.id # id}
<1> DEFINE r == RemoveOrderFromBook(b, id)
<1>1. r = [side \in Sides |-> Without(b[side], id)]
  BY DEF RemoveOrderFromBook
<1>2. \A side \in Sides :
          /\ r[side] \in Seq(Entry(side)) /\ Distinct(r[side])
          /\ EntriesOf(r[side]) = {e \in EntriesOf(b[side]) : e.id # id}
  BY <1>1, SideEntriesWithout DEF BookSound
<1>3. BookSound(r)
  <2>1. r = [side \in Sides |-> r[side]]
    BY <1>1
  <2> HIDE DEF r
  <2> QED BY <1>2, <2>1, SoundSides
<1> HIDE DEF r
<1>4. BookEntries(r) = {e \in BookEntries(b) : e.id # id}
  BY <1>2 DEF BookEntries, Sides
<1> QED BY <1>3, <1>4 DEF r

-----------------------------------------------------------------------------
(* AddOrder: the order rests whole, and others leave only when the side is  *)
(* full.                                                                    *)
LEMMA SideEntriesInserted ==
    ASSUME NEW side, NEW s \in Seq(Entry(side)), Distinct(s), NEW e \in Entry(side),
           e.id \notin Ids(s)
    PROVE  LET r == InsertOrderSorted(EvictWorst(s), e) IN
           /\ r \in Seq(Entry(side)) /\ Distinct(r)
           /\ e \in EntriesOf(r) /\ EntriesOf(r) \subseteq EntriesOf(s) \cup {e}
           /\ Len(s) < MaxOrdersPerPair => EntriesOf(r) = EntriesOf(s) \cup {e}
<1> DEFINE t == EvictWorst(s)
           r == InsertOrderSorted(t, e)
<1>1. /\ t \in Seq(Entry(side)) /\ Distinct(t) /\ Ids(t) \subseteq Ids(s)
      /\ Len(s) < MaxOrdersPerPair => t = s
  BY SideEvicted
<1>2. EntriesOf(t) \subseteq EntriesOf(s)
  <2>1. /\ Len(t) = IF Len(s) >= MaxOrdersPerPair THEN Len(s) - 1 ELSE Len(s)
        /\ \A j \in 1 .. Len(t) : t[j] = s[j]
    BY EvictWorstCuts
  <2>2. Len(s) \in Nat
    BY EntryFacts
  <2> HIDE DEF t
  <2> QED BY <2>1, <2>2 DEF EntriesOf
<1>3. OneSided(Entry(side))
  BY DEF OneSided, Entry
<1> HIDE DEF t
<1>4. r \in Seq(Entry(side)) /\ Distinct(r)
  BY <1>1, <1>3, SideInserted
<1>5. EntriesOf(r) = EntriesOf(t) \cup {e}
  <2>1. PICK k \in 0 .. Len(t) : InsertedAfter(t, e, r, k)
    BY <1>1, InsertOrderSortedPlaces
  <2>2. Len(t) \in Nat
    BY <1>1, EntryFacts
  <2> HIDE DEF r
  <2>3. /\ Len(r) = Len(t) + 1 /\ r[k + 1] = e
        /\ \A j \in 1 .. k : r[j] = t[j]
        /\ \A j \in k + 1 .. Len(t) : r[j + 1] = t[j]
        /\ \A j \in k + 2 .. Len(t) + 1 : r[j] = t[j - 1]
    <3>1. /\ Len(r) = Len(t) + 1
          /\ \A j \in 1 .. Len(r) :
                r[j] = IF j <= k THEN t[j] ELSE IF j = k + 1 THEN e ELSE t[j - 1]
      BY <2>1 DEF InsertedAfter
    <3> HIDE DEF InsertedAfter
    <3> QED BY <2>2, <3>1
  <2>4. \A j \in 1 .. Len(r) : r[j] = e \/ \E i \in 1 .. Len(t) : r[j] = t[i]
    <3> SUFFICES ASSUME NEW j \in 1 .. Len(r)
                 PROVE  r[j] = e \/ \E i \in 1 .. Len(t) : r[j] = t[i]
      OBVIOUS
    <3>1. CASE j <= k
      BY <2>2, <2>3, <3>1
    <3>2. CASE j = k + 1
      BY <2>3, <3>2
    <3>3. CASE j > k + 1
      <4>1. j - 1 \in 1 .. Len(t) /\ r[j] = t[j - 1]
        BY <2>2, <2>3, <3>3
      <4> QED BY <4>1
    <3> QED BY <2>2, <3>1, <3>2, <3>3
  <2>5. \A i \in 1 .. Len(t) : \E j \in 1 .. Len(r) : r[j] = t[i]
    <3> SUFFICES ASSUME NEW i \in 1 .. Len(t) PROVE \E j \in 1 .. Len(r) : r[j] = t[i]
      OBVIOUS
    <3>1. CASE i <= k
      <4>1. i \in 1 .. Len(r) /\ r[i] = t[i]
        BY <2>2, <2>3, <3>1
      <4> QED BY <4>1
    <3>2. CASE i > k
      <4>1. i + 1 \in 1 .. Len(r) /\ r[i + 1] = t[i]
        BY <2>2, <2>3, <3>2
      <4> QED BY <4>1
    <3> QED BY <2>2, <3>1, <3>2
  <2>6. k + 1 \in 1 .. Len(r) /\ r[k + 1] = e
    BY <2>2, <2>3
  <2>7. EntriesOf(r) \subseteq EntriesOf(t) \cup {e}
    BY <2>4 DEF EntriesOf
  <2>8. EntriesOf(t) \cup {e} \subseteq EntriesOf(r)
    BY <2>5, <2>6 DEF EntriesOf
  <2> QED BY <2>7, <2>8
<1> HIDE DEF r
<1>6. Len(s) < MaxOrdersPerPair => EntriesOf(r) = EntriesOf(s) \cup {e}
  BY <1>1, <1>5
<1> QED BY <1>2, <1>4, <1>5, <1>6 DEF r, t

(* A side has no more entries than there are orders.                        *)
LEMMA SideHasRoom ==
    ASSUME NEW side, NEW s \in Seq(Entry(side)), Distinct(s), NEW o \in Orders, o.id \notin Ids(s),
           IsFiniteSet(Orders), Cardinality(Orders) <= MaxOrdersPerPair
    PROVE  Len(s) < MaxOrdersPerPair
<1> DEFINE f == [i \in 1 .. Len(s) |-> CHOOSE p \in Orders : p.id = s[i].id]
           T == Orders \ {o}
<1>1. Len(s) \in Nat /\ \A i \in 1 .. Len(s) : s[i] \in Entry(side)
  BY EntryFacts
<1>2. \A i \in 1 .. Len(s) : f[i] \in Orders /\ f[i].id = s[i].id
  BY <1>1 DEF Entry
<1>3. f \in Injection(1 .. Len(s), T)
  <2>1. \A i \in 1 .. Len(s) : f[i] # o
    BY <1>2 DEF Ids
  <2>2. f \in [1 .. Len(s) -> T]
    BY <1>2, <2>1
  <2>3. \A i, j \in 1 .. Len(s) : f[i] = f[j] => i = j
    BY <1>2 DEF Distinct
  <2> HIDE DEF f
  <2> QED BY <2>2, <2>3 DEF Injection, IsInjective
<1>4. IsFiniteSet(T) /\ Cardinality(T) = Cardinality(Orders) - 1
  BY FS_RemoveElement
<1>5. Cardinality(1 .. Len(s)) = Len(s)
  <2>1. Cardinality(1 .. Len(s)) = IF 1 > Len(s) THEN 0 ELSE Len(s) - 1 + 1
    <3>1. 1 \in Int /\ Len(s) \in Int
      BY <1>1
    <3> QED BY Zenon, <3>1, FS_Interval
  <2> QED BY <1>1, <2>1
<1> HIDE DEF f, T
<1>6. Cardinality(1 .. Len(s)) <= Cardinality(T)
  BY <1>3, <1>4, FS_Injection
<1>7. Cardinality(Orders) \in Nat
  BY FS_CardinalityType
<1> QED BY <1>1, <1>4, <1>5, <1>6, <1>7, MaxOrdersPerPairAssumption

LEMMA AddedEntries ==
    ASSUME NEW b, BookSound(b), NEW o \in Orders
    PROVE  LET r == AddOrderToBook(b, o)
               others == {e \in BookEntries(b) : e.id # o.id}
           IN  /\ BookSound(r)
               /\ o \in BookEntries(r) /\ BookEntries(r) \subseteq others \cup {o}
               /\ IsFiniteSet(Orders) /\ Cardinality(Orders) <= MaxOrdersPerPair =>
                      BookEntries(r) = others \cup {o}
<1> DEFINE c == RemoveOrderFromBook(b, o.id)
           s == c[o.side]
           t == InsertOrderSorted(EvictWorst(s), o)
           r == AddOrderToBook(b, o)
           others == {e \in BookEntries(b) : e.id # o.id}
<1>1. /\ Left(o) > 0 /\ Left(o) \in Nat /\ Resting(o) = o /\ o \in Entry(o.side) /\ o.side \in Sides
  BY OrderFacts
<1>2. BookSound(c) /\ BookEntries(c) = others
  BY RemovedEntries
<1>3. r = [c EXCEPT ![o.side] = t]
  BY <1>1 DEF AddOrderToBook
<1> HIDE DEF c
<1>4. s \in Seq(Entry(o.side)) /\ Distinct(s)
  BY <1>1, <1>2 DEF BookSound
<1>5. o.id \notin Ids(s)
  <2>1. \A e \in EntriesOf(s) : e \in BookEntries(c)
    BY <1>1 DEF BookEntries, Sides
  <2>2. \A e \in EntriesOf(s) : e.id # o.id
    BY <1>2, <2>1
  <2> QED BY <2>2 DEF EntriesOf, Ids
<1> HIDE DEF s
<1>6. /\ t \in Seq(Entry(o.side)) /\ Distinct(t)
      /\ o \in EntriesOf(t) /\ EntriesOf(t) \subseteq EntriesOf(s) \cup {o}
      /\ Len(s) < MaxOrdersPerPair => EntriesOf(t) = EntriesOf(s) \cup {o}
  BY <1>1, <1>4, <1>5, SideEntriesInserted
<1>7. IsFiniteSet(Orders) /\ Cardinality(Orders) <= MaxOrdersPerPair =>
          EntriesOf(t) = EntriesOf(s) \cup {o}
  BY <1>4, <1>5, <1>6, SideHasRoom
<1> HIDE DEF t, r
<1>8. /\ r[o.side] = t /\ \A side \in Sides : side # o.side => r[side] = c[side]
      /\ r = [side \in Sides |-> r[side]]
  BY <1>1, <1>2, <1>3 DEF BookSound, BookType
<1>9. BookSound(r)
  <2>1. \A side \in Sides : r[side] \in Seq(Entry(side)) /\ Distinct(r[side])
    BY <1>2, <1>6, <1>8 DEF BookSound
  <2> QED BY <1>8, <2>1, SoundSides
<1>10. /\ o \in BookEntries(r) /\ BookEntries(r) \subseteq BookEntries(c) \cup {o}
       /\ EntriesOf(t) = EntriesOf(s) \cup {o} => BookEntries(r) = BookEntries(c) \cup {o}
  BY <1>1, <1>6, <1>8 DEF BookEntries, Sides, s
<1> QED BY <1>2, <1>7, <1>9, <1>10 DEF r

-----------------------------------------------------------------------------
(* Match, on the opposite side: the orders it uses up leave, the next one   *)
(* may stay with less, and the rest stays as it is.                         *)
LEMMA SideMatched ==
    ASSUME NEW side \in Sides, NEW s \in Seq(Entry(side)), Distinct(s), NEW o \in Orders,
           NEW n \in 0 .. Len(s), NEW gone \in 0 .. Len(s), Uses(o, s, n, gone)
    PROVE  LET r == RestOf(o, s, n, gone)
               fill == Fills(o, s)
           IN  /\ r \in Seq(Entry(side)) /\ Distinct(r)
               /\ \A i \in 1 .. Len(s) : fill[i] \in Nat /\ (i > n => fill[i] = 0)
               /\ \A x \in EntriesOf(r) : \E i \in 1 .. Len(s) :
                     i > gone /\ x.id = s[i].id /\ Left(x) = Left(s[i]) - fill[i]
               /\ \A i \in 1 .. Len(s) :
                     (\A x \in EntriesOf(r) : x.id # s[i].id) => i <= n /\ fill[i] = Left(s[i])
<1> DEFINE r == RestOf(o, s, n, gone)
           fill == Fills(o, s)
           M == Len(s) - gone
<1>1. /\ Len(s) \in Nat /\ Offers(s)
      /\ \A i \in 1 .. Len(s) : s[i] \in Entry(side)
  BY EntryFacts
<1>2. /\ gone <= n /\ n <= gone + 1
      /\ \A i \in 1 .. Len(s) : fill[i] > 0 <=> i <= n
      /\ \A i \in 1 .. gone : fill[i] = Left(s[i])
      /\ \A i \in gone + 1 .. n : fill[i] < Left(s[i])
  BY DEF Uses
<1>3. \A i \in 1 .. Len(s) : fill[i] \in Nat
  BY <1>1, OrderFacts, FillIs
<1>4. r = [i \in 1 .. M |->
              IF gone + i <= n
              THEN [s[gone + i] EXCEPT !.filled = @ + fill[gone + i], !.status = "partial"]
              ELSE s[gone + i]]
  BY DEF RestOf
<1> HIDE DEF r, fill
<1>5. \A i \in 1 .. Len(s) : i > n => fill[i] = 0
  BY <1>2, <1>3
<1>6. M \in Nat /\ \A i \in 1 .. M : gone + i \in 1 .. Len(s)
  BY <1>1
<1> HIDE DEF M
<1>7. ASSUME NEW i \in 1 .. M
      PROVE  /\ r[i] \in Entry(side) /\ r[i].id = s[gone + i].id
             /\ Left(r[i]) = Left(s[gone + i]) - fill[gone + i]
  <2> DEFINE e == s[gone + i]
             q == fill[gone + i]
  <2>1. /\ e \in OrderType /\ e.side = side /\ e.filled < e.amount
        /\ \E p \in Orders : p.id = e.id /\ p.side = side /\ p.amount = e.amount
    BY <1>1, <1>6 DEF Entry
  <2>2. q \in Nat /\ (gone + i <= n => q < Left(e)) /\ (~(gone + i <= n) => q = 0)
    <3>1. gone + i \in 1 .. Len(s) /\ (gone + i <= n => gone + i \in gone + 1 .. n)
      BY <1>1, <1>6
    <3> QED BY <1>1, <1>2, <1>3, <1>5, <3>1
  <2>3. r[i] = IF gone + i <= n THEN [e EXCEPT !.filled = @ + q, !.status = "partial"] ELSE e
    BY <1>4
  <2> HIDE DEF e, q
  <2>4. e.filled \in Nat /\ e.amount \in Nat /\ Left(e) = e.amount - e.filled
    BY <2>1 DEF OrderType, Left
  <2>5. CASE gone + i <= n
    <3> DEFINE x == [e EXCEPT !.filled = e.filled + q, !.status = "partial"]
    <3>1. r[i] = x
      BY <2>3, <2>5
    <3>2. /\ x \in OrderType
          /\ x.id = e.id /\ x.side = e.side /\ x.amount = e.amount /\ x.filled = e.filled + q
      <4> DEFINE w == e.filled + q
      <4>1. w \in Nat /\ "partial" \in Statuses
        BY <2>2, <2>4 DEF Statuses
      <4> HIDE DEF w, Statuses
      <4>2. x = [e EXCEPT !.filled = w, !.status = "partial"]
        BY DEF w
      <4> HIDE DEF x
      <4>3. x \in OrderType /\ x.id = e.id /\ x.side = e.side /\ x.amount = e.amount /\ x.filled = w
        BY <2>1, <4>1, <4>2 DEF OrderType
      <4> QED BY <4>3 DEF w
    <3>3. q < Left(e)
      BY <2>2, <2>5
    <3> HIDE DEF x
    <3>4. Left(x) = Left(e) - q /\ x.filled < x.amount
      BY <2>2, <2>4, <3>2, <3>3 DEF Left
    <3>5. x \in Entry(side)
      BY <2>1, <3>2, <3>4 DEF Entry
    <3> QED BY <3>1, <3>2, <3>4, <3>5 DEF e, q
  <2>6. CASE ~(gone + i <= n)
    <3>1. r[i] = e /\ q = 0
      BY <2>2, <2>3, <2>6
    <3>2. e \in Entry(side)
      BY <2>1 DEF Entry
    <3>3. Left(e) = Left(e) - q
      BY <2>4, <3>1
    <3> QED BY <3>1, <3>2, <3>3 DEF e, q
  <2> QED BY <2>5, <2>6
<1>8. r \in Seq(Entry(side)) /\ Len(r) = M
  <2>1. r \in [1 .. M -> Entry(side)]
    BY <1>4, <1>7
  <2> QED BY <1>6, <2>1
<1>9. Distinct(r)
  <2>1. \A i, j \in 1 .. M : r[i].id = r[j].id => gone + i = gone + j
    <3> SUFFICES ASSUME NEW i \in 1 .. M, NEW j \in 1 .. M, r[i].id = r[j].id
                 PROVE  gone + i = gone + j
      OBVIOUS
    <3> DEFINE a == gone + i
               c == gone + j
    <3>1. a \in 1 .. Len(s) /\ c \in 1 .. Len(s) /\ s[a].id = s[c].id
      BY <1>6, <1>7
    <3> HIDE DEF a, c
    <3>2. a = c
      BY <3>1 DEF Distinct
    <3> QED BY <3>2 DEF a, c
  <2>2. \A i, j \in 1 .. M : gone + i = gone + j => i = j
    BY <1>6
  <2> QED BY <1>8, <2>1, <2>2 DEF Distinct
<1>10. \A x \in EntriesOf(r) : \E i \in 1 .. Len(s) :
           i > gone /\ x.id = s[i].id /\ Left(x) = Left(s[i]) - fill[i]
  <2> SUFFICES ASSUME NEW k \in 1 .. M
               PROVE  \E i \in 1 .. Len(s) :
                         i > gone /\ r[k].id = s[i].id /\ Left(r[k]) = Left(s[i]) - fill[i]
    BY <1>8 DEF EntriesOf
  <2>1. gone + k \in 1 .. Len(s) /\ gone + k > gone
    BY <1>6
  <2> QED BY <1>7, <2>1
<1>11. ASSUME NEW i \in 1 .. Len(s), \A x \in EntriesOf(r) : x.id # s[i].id
       PROVE  i <= n /\ fill[i] = Left(s[i])
  <2>1. i <= gone
    <3> SUFFICES ASSUME i > gone PROVE FALSE
      OBVIOUS
    <3>1. i - gone \in 1 .. M /\ gone + (i - gone) = i
      BY <1>1 DEF M
    <3>2. r[i - gone] \in EntriesOf(r) /\ r[i - gone].id = s[i].id
      BY <1>7, <1>8, <3>1 DEF EntriesOf
    <3> QED BY <1>11, <3>2
  <2> QED BY <1>1, <1>2, <2>1
<1> QED BY <1>3, <1>5, <1>8, <1>9, <1>10, <1>11 DEF r, fill

(* The trades of a match take from each entry what the entry loses.         *)
LEMMA MatchBook ==
    ASSUME NEW b, BookSound(b), NEW o \in Orders, NEW ts \in Seq(TradeType)
    PROVE  LET out == MatchOutcome(b, o)
               new == out.trades
           IN  /\ BookSound(out.book) /\ new \in Seq(TradeType)
               /\ \A j \in 1 .. Len(new) : new[j].taker = o.id /\ new[j].seq = j
               /\ SumFunctionOnSet(Amounts(new), 1 .. Len(new)) <= o.amount
               /\ \A x \in BookEntries(out.book) : \E e \in BookEntries(b) :
                     e.id = x.id /\ Sold(ts \o new, e.id) + Left(x) = Sold(ts, e.id) + Left(e)
               /\ \A e \in BookEntries(b) :
                     (\A x \in BookEntries(out.book) : x.id # e.id) =>
                         Sold(ts \o new, e.id) = Sold(ts, e.id) + Left(e)
               /\ \A id : (\A e \in BookEntries(b) : e.id # id) =>
                     Sold(ts \o new, id) = Sold(ts, id)
<1> DEFINE side == Opposite(o.side)
           s == b[side]
           fill == Fills(o, s)
           out == MatchOutcome(b, o)
           new == out.trades
           after == out.book
<1>1. /\ o \in OrderType /\ o.id \in OrderIds /\ o.side \in Sides /\ Left(o) = o.amount
      /\ Left(o) \in Nat /\ side \in Sides /\ side # o.side
  BY OrderFacts
<1>2. s \in Seq(Entry(side)) /\ Distinct(s)
  BY <1>1 DEF BookSound
<1>3. /\ Len(s) \in Nat /\ DOMAIN s = 1 .. Len(s) /\ Offers(s)
      /\ \A i \in 1 .. Len(s) : s[i] \in Entry(side)
  BY <1>2, EntryFacts
<1>4. PICK n \in 0 .. Len(s), gone \in 0 .. Len(s) :
          /\ Uses(o, s, n, gone)
          /\ out = [book   |-> [b EXCEPT ![side] = RestOf(o, s, n, gone)],
                    trades |-> [i \in 1 .. n |-> Trade(o, s[i], Fills(o, s)[i], i)]]
  BY <1>1, <1>3, OutcomeOfMatch
<1> DEFINE r == RestOf(o, s, n, gone)
<1>5. /\ r \in Seq(Entry(side)) /\ Distinct(r)
      /\ \A i \in 1 .. Len(s) : fill[i] \in Nat /\ (i > n => fill[i] = 0)
      /\ \A x \in EntriesOf(r) : \E i \in 1 .. Len(s) :
            i > gone /\ x.id = s[i].id /\ Left(x) = Left(s[i]) - fill[i]
      /\ \A i \in 1 .. Len(s) :
            (\A x \in EntriesOf(r) : x.id # s[i].id) => i <= n /\ fill[i] = Left(s[i])
  <2>1. Uses(o, s, n, gone) /\ side \in Sides
    BY <1>1, <1>4
  <2> HIDE DEF s, side
  <2> QED BY <1>2, <2>1, SideMatched
<1>6. SumFunctionOnSet(fill, 1 .. n) <= o.amount
  BY <1>1, <1>3, FillsWithinTaker
<1>7. new = [i \in 1 .. n |-> Trade(o, s[i], fill[i], i)] /\ after = [b EXCEPT ![side] = r]
  BY <1>4
<1>8. b \in [Sides -> Seq(OrderType)]
  BY DEF BookSound, BookType
<1> HIDE DEF side, fill, r, new, after, out
<1>9. /\ after = [z \in Sides |-> after[z]] /\ after[side] = r
      /\ \A z \in Sides : z # side => after[z] = b[z]
  BY <1>1, <1>7, <1>8
<1> HIDE DEF s
<1>10. BookSound(after)
  <2>1. \A z \in Sides : after[z] \in Seq(Entry(z)) /\ Distinct(after[z])
    BY <1>5, <1>9 DEF BookSound
  <2> QED BY <1>9, <2>1, SoundSides
<1>11. /\ BookEntries(after) = EntriesOf(after[o.side]) \cup EntriesOf(r)
       /\ BookEntries(b) = EntriesOf(b[o.side]) \cup EntriesOf(s)
       /\ after[o.side] = b[o.side]
  BY <1>1, <1>9 DEF BookEntries, Sides, s
<1>12. /\ new \in Seq(TradeType) /\ Len(new) = n
       /\ \A j \in 1 .. n :
             /\ new[j].taker = o.id /\ new[j].seq = j
             /\ new[j].maker = s[j].id /\ new[j].amount = fill[j]
  <2>1. \A j \in 1 .. n : new[j] \in TradeType
    <3> SUFFICES ASSUME NEW j \in 1 .. n PROVE new[j] \in TradeType
      OBVIOUS
    <3>1. j \in 1 .. Len(s) /\ s[j] \in OrderType /\ fill[j] \in Nat /\ j \in Nat
      BY <1>3, <1>5 DEF Entry
    <3>2. s[j].id \in OrderIds /\ s[j].price \in Nat /\ o.pair \in Pairs
      BY <1>1, <3>1 DEF OrderType
    <3>3. new[j] = Trade(o, s[j], fill[j], j)
      BY <1>7
    <3> QED BY <1>1, <3>1, <3>2, <3>3 DEF Trade, TradeType
  <2>2. new \in [1 .. n -> TradeType]
    BY <1>7, <2>1
  <2>3. n \in Nat
    BY <1>3
  <2> QED BY <1>7, <2>2, <2>3 DEF Trade
<1>13. SumFunctionOnSet(Amounts(new), 1 .. Len(new)) <= o.amount
  <2>1. \A x \in 1 .. n : Amounts(new)[x] = fill[x]
    BY <1>12, AmountsAreNat
  <2>2. IsFiniteSet(1 .. n)
    BY <1>12, AmountsAreNat
  <2>3. SumFunctionOnSet(Amounts(new), 1 .. n) = SumFunctionOnSet(fill, 1 .. n)
    BY <2>1, <2>2, SumEqual
  <2> QED BY <1>6, <1>12, <2>3
(* The entry at position i sells its fill, which may be nothing.            *)
<1>14. ASSUME NEW i \in 1 .. Len(s)
       PROVE  Sold(ts \o new, s[i].id) = Sold(ts, s[i].id) + fill[i]
  <2>1. \A j \in 1 .. n : new[j].maker = s[i].id <=> j = i
    <3>1. \A j \in 1 .. n : j \in 1 .. Len(s)
      BY <1>3
    <3> QED BY <1>2, <1>12, <3>1 DEF Distinct
  <2>2. CASE i <= n
    <3>1. i \in 1 .. Len(new) /\ new[i].amount = fill[i]
      BY <1>3, <1>12, <2>2
    <3> QED BY <1>12, <2>1, <3>1, SoldMore
  <2>3. CASE i > n
    <3>1. \A j \in 1 .. Len(new) : new[j].maker # s[i].id
      BY <1>3, <1>12, <2>1, <2>3
    <3>2. fill[i] = 0 /\ Sold(ts, s[i].id) \in Nat
      BY <1>5, <2>3, SoldNat
    <3> QED BY <1>12, <3>1, <3>2, SoldMore
  <2> QED BY <1>3, <2>2, <2>3
<1>15. \A id : (\A i \in 1 .. Len(s) : s[i].id # id) => Sold(ts \o new, id) = Sold(ts, id)
  <2> SUFFICES ASSUME NEW id, \A i \in 1 .. Len(s) : s[i].id # id
               PROVE  Sold(ts \o new, id) = Sold(ts, id)
    OBVIOUS
  <2>1. \A j \in 1 .. Len(new) : new[j].maker # id
    BY <1>3, <1>12
  <2> QED BY <1>12, <2>1, SoldMore
<1>16. \A e \in EntriesOf(b[o.side]) : Sold(ts \o new, e.id) = Sold(ts, e.id)
  <2> SUFFICES ASSUME NEW e \in EntriesOf(b[o.side])
               PROVE  Sold(ts \o new, e.id) = Sold(ts, e.id)
    OBVIOUS
  <2>1. \A i \in 1 .. Len(s) : s[i].id # e.id
    <3> SUFFICES ASSUME NEW i \in 1 .. Len(s), s[i].id = e.id PROVE FALSE
      OBVIOUS
    <3>1. s[i] \in BookEntries(b) /\ e \in BookEntries(b)
      BY <1>11 DEF EntriesOf
    <3>2. s[i] = e
      BY <3>1, OneEntry
    <3>3. s[i].side = side /\ e.side = o.side
      <4>1. e \in Entry(o.side)
        BY <1>1, EntryFacts DEF BookSound
      <4> QED BY <1>3, <4>1 DEF Entry
    <3> QED BY <1>1, <3>2, <3>3
  <2> QED BY <1>15, <2>1
<1>17. \A x \in BookEntries(after) : \E e \in BookEntries(b) :
           e.id = x.id /\ Sold(ts \o new, e.id) + Left(x) = Sold(ts, e.id) + Left(e)
  <2> SUFFICES ASSUME NEW x \in BookEntries(after)
               PROVE  \E e \in BookEntries(b) :
                         e.id = x.id /\ Sold(ts \o new, e.id) + Left(x) = Sold(ts, e.id) + Left(e)
    OBVIOUS
  <2>1. CASE x \in EntriesOf(b[o.side])
    BY <1>11, <1>16, <2>1
  <2>2. CASE x \in EntriesOf(r)
    <3>1. PICK i \in 1 .. Len(s) : x.id = s[i].id /\ Left(x) = Left(s[i]) - fill[i]
      BY <1>5, <2>2
    <3>2. s[i] \in BookEntries(b)
      BY <1>11 DEF EntriesOf
    <3>3. Left(s[i]) \in Nat /\ fill[i] \in Nat /\ Sold(ts, s[i].id) \in Nat
      BY <1>5, <3>2, BookEntriesHaveType, SoldNat
    <3>4. Sold(ts \o new, s[i].id) + Left(x) = Sold(ts, s[i].id) + Left(s[i])
      BY <1>14, <3>1, <3>3
    <3> QED BY <3>1, <3>2, <3>4
  <2> QED BY <1>11, <2>1, <2>2
<1>18. \A e \in BookEntries(b) :
           (\A x \in BookEntries(after) : x.id # e.id) =>
               Sold(ts \o new, e.id) = Sold(ts, e.id) + Left(e)
  <2> SUFFICES ASSUME NEW e \in BookEntries(b), \A x \in BookEntries(after) : x.id # e.id
               PROVE  Sold(ts \o new, e.id) = Sold(ts, e.id) + Left(e)
    OBVIOUS
  <2>1. e \notin EntriesOf(b[o.side])
    BY <1>11
  <2>2. PICK i \in 1 .. Len(s) : e = s[i]
    BY <1>11, <2>1 DEF EntriesOf
  <2>3. \A x \in EntriesOf(r) : x.id # s[i].id
    BY <1>11, <2>2
  <2>4. fill[i] = Left(s[i])
    BY <1>5, <2>3
  <2> QED BY <1>14, <2>2, <2>4
<1>19. \A id : (\A e \in BookEntries(b) : e.id # id) => Sold(ts \o new, id) = Sold(ts, id)
  BY <1>11, <1>15 DEF EntriesOf
<1> QED BY <1>10, <1>12, <1>13, <1>17, <1>18, <1>19 DEF new, after, out

-----------------------------------------------------------------------------
(* The types of the variables, by owner.                                    *)
Messages ==
    {OrderMsg(o) : o \in Orders} \cup {CancelMsg(id) : id \in Cancellable}
        \cup [topic : {"trade/executed"}, trade : TradeType]

Tasks ==
    {Idle} \cup [at : {"add", "match", "store"}, order : Orders]
        \cup [at : {"publish", "record"}, order : Orders, trades : Seq(TradeType)]

NetworkType ==
    /\ up \subseteq Nodes
    /\ clock \in 0 .. MaxTime
    /\ posts \in [OrderIds -> 0 .. MaxPosts]
    /\ cancelled \subseteq Cancellable
    /\ crashes \in 0 .. MaxCrashes

MailType ==
    /\ inbox \in [Nodes -> SUBSET Messages]
    /\ \A n \in Nodes, id \in Cancellable : CancelMsg(id) \in inbox[n] => id \in cancelled

TaskType ==
    /\ task \in [Nodes -> Tasks]
    /\ \A n \in Nodes : task[n].at = "record" => task[n].trades # <<>>
    /\ cancelling \in [Nodes -> Cancellable \cup {NoCancel}]

HistoryType ==
    /\ made \in [Nodes -> Seq(TradeType)]
    /\ copies \in [Nodes -> [OrderIds -> Nat]]

BookInv == book \in [Nodes -> BookType] /\ \A n \in Nodes : BookSound(book[n])

(* A row holds an order as it was posted, or marked cancelled.              *)
IsRowOf(row, o) == row = o \/ row = [o EXCEPT !.status = "cancelled"]

RowInv ==
    /\ orderRows \in [Nodes -> [OrderIds -> OrderType \cup {NoRow}]]
    /\ \A n \in Nodes, id \in OrderIds :
          \/ orderRows[n][id] = NoRow
          \/ \E o \in Orders : o.id = id /\ IsRowOf(orderRows[n][id], o)

RestoreInv == restore \in [Nodes -> [passes : 0 .. 2, rows : SUBSET Orders]]

TradeRowsType == tradeRows \in [Nodes -> SUBSET TradeType]

(* What a node sold of an order, its rest included, and what it bought for  *)
(* it, the match it is about to make included.                              *)
Pending(n, o) == IF task[n].at = "match" /\ task[n].order = o THEN o.amount ELSE 0

FillsAt(ts, c, b, q, o) ==
    /\ Sold(ts, o.id) <= o.amount * c
    /\ \A e \in BookEntries(b) : e.id = o.id =>
          /\ o.amount <= Sold(ts, o.id) + Left(e)
          /\ Sold(ts, o.id) + Left(e) <= o.amount * c
    /\ Bought(ts, o.id) + q <= o.amount * c

FillsOf(n, o) == FillsAt(made[n], copies[n][o.id], book[n], Pending(n, o), o)

FillInv == \A n \in Nodes : \A o \in Orders : FillsOf(n, o)

TypeInv ==
    /\ NetworkType /\ MailType /\ TaskType /\ HistoryType
    /\ BookInv /\ RowInv /\ RestoreInv /\ TradeRowsType

(* No order is given up for another.                                        *)
RoomForAll == IsFiniteSet(Orders) /\ Cardinality(Orders) <= MaxOrdersPerPair

Placed(n, o) ==
    \/ \E e \in BookEntries(book[n]) : e.id = o.id
    \/ Sold(made[n], o.id) >= o.amount
    \/ Expired(o, clock)
    \/ o.id \in cancelled

(* An order that is past AddOrder is placed. One whose row says that it is  *)
(* open is placed, or the restore will still come to it, or has cut it off. *)
PlacedInv ==
    \A n \in MatchNodes :
        /\ task[n].at \in {"match", "publish", "record", "store"} => Placed(n, task[n].order)
        /\ n \in up => \A o \in Orders :
              IsOpen(orderRows[n][o.id]) =>
                  \/ Placed(n, o)
                  \/ restore[n].passes > 0
                  \/ o \in restore[n].rows
                  \/ Outnumbered(n, o)

Unsaved(n) == IF task[n].at \in {"publish", "record"} THEN ToSet(task[n].trades) ELSE {}

SameTrade(r, t) == r.taker = t.taker /\ r.maker = t.maker /\ r.seq = t.seq

HasRow(n, t) == \E r \in tradeRows[n] : SameTrade(r, t)

SavedTradesInv ==
    crashes = 0 =>
        \A n \in MatchNodes : \A t \in Made(n) : t \in Unsaved(n) \/ HasRow(n, t)

-----------------------------------------------------------------------------
(* One step, without the goroutines it is grouped by.                       *)
LEMMA StepIs ==
    ASSUME Next
    PROVE  \/ \E o \in Orders : PostOrder(o)
           \/ \E id \in Cancellable : PostCancel(id)
           \/ \E n \in Nodes :
                 \/ \E o \in Orders : OnNewOrder(n, o)
                 \/ AddTaker(n) \/ MatchTaker(n)
                 \/ PublishTrade(n) \/ RecordTrade(n) \/ StoreOrder(n)
                 \/ \E id \in Cancellable : OnCancelOrder(n, id)
                 \/ MarkCancelled(n)
                 \/ \E m \in inbox[n] : m.topic = "trade/executed" /\ OnTradeExecuted(n, m.trade)
                 \/ RestoreList(n)
                 \/ \E row \in restore[n].rows : RestoreOne(n, row)
                 \/ Crash(n) \/ Restart(n)
           \/ Tick
BY Zenon DEF Next, Handle, HandleCancel, HandleTrade, RestoreBook

(* What each step leaves alone.                                             *)
LEMMA Frames ==
    /\ \A o : PostOrder(o) =>
          UNCHANGED <<up, clock, cancelled, book, task, cancelling, restore, orderRows,
                      tradeRows, crashes, made, copies>>
    /\ \A id : PostCancel(id) =>
          UNCHANGED <<up, clock, posts, book, task, cancelling, restore, orderRows,
                      tradeRows, crashes, made, copies>>
    /\ \A n, o : OnNewOrder(n, o) =>
          UNCHANGED <<up, clock, posts, cancelled, book, cancelling, restore, orderRows,
                      tradeRows, crashes, made, copies>>
    /\ \A n : AddTaker(n) =>
          UNCHANGED <<up, clock, posts, cancelled, inbox, cancelling, restore, orderRows,
                      tradeRows, crashes, made>>
    /\ \A n : MatchTaker(n) =>
          UNCHANGED <<up, clock, posts, cancelled, inbox, cancelling, restore, orderRows,
                      tradeRows, crashes, copies>>
    /\ \A n : PublishTrade(n) =>
          UNCHANGED <<up, clock, posts, cancelled, book, cancelling, restore, orderRows,
                      tradeRows, crashes, made, copies>>
    /\ \A n : RecordTrade(n) =>
          UNCHANGED <<up, clock, posts, cancelled, inbox, book, cancelling, restore, orderRows,
                      crashes, made, copies>>
    /\ \A n : StoreOrder(n) =>
          UNCHANGED <<up, clock, posts, cancelled, inbox, book, cancelling, restore,
                      tradeRows, crashes, made, copies>>
    /\ \A n, id : OnCancelOrder(n, id) =>
          UNCHANGED <<up, clock, posts, cancelled, task, restore, orderRows,
                      tradeRows, crashes, made, copies>>
    /\ \A n : MarkCancelled(n) =>
          UNCHANGED <<up, clock, posts, cancelled, inbox, book, task, restore,
                      tradeRows, crashes, made, copies>>
    /\ \A n, t : OnTradeExecuted(n, t) =>
          UNCHANGED <<up, clock, posts, cancelled, book, task, cancelling, restore, orderRows,
                      crashes, made, copies>>
    /\ \A n : RestoreList(n) =>
          UNCHANGED <<up, clock, posts, cancelled, inbox, book, task, cancelling, orderRows,
                      tradeRows, crashes, made, copies>>
    /\ \A n, row : RestoreOne(n, row) =>
          UNCHANGED <<up, clock, posts, cancelled, inbox, task, cancelling, orderRows,
                      tradeRows, crashes, made>>
    /\ \A n : Crash(n) =>
          UNCHANGED <<clock, posts, cancelled, orderRows, tradeRows, made, copies>>
    /\ \A n : Restart(n) =>
          UNCHANGED <<clock, posts, cancelled, inbox, book, task, cancelling, orderRows,
                      tradeRows, crashes, made, copies>>
    /\ Tick =>
          UNCHANGED <<up, posts, cancelled, inbox, book, task, cancelling, restore, orderRows,
                      tradeRows, crashes, made, copies>>
BY Zenon DEF PostOrder, PostCancel, OnNewOrder, AddTaker, MatchTaker, PublishTrade, RecordTrade,
      StoreOrder, OnCancelOrder, MarkCancelled, OnTradeExecuted, RestoreList, RestoreOne,
      Crash, Restart, Tick

(* What a task holds at each point of the handler.                          *)
LEMMA TaskShape ==
    ASSUME TaskType, NEW n \in Nodes
    PROVE  /\ task[n].at = "idle" <=> task[n] = Idle
           /\ task[n].at \in {"add", "match", "store"} =>
                 /\ task[n].order \in Orders
                 /\ task[n] = [at |-> task[n].at, order |-> task[n].order]
           /\ task[n].at \in {"publish", "record"} =>
                 /\ task[n].order \in Orders /\ task[n].trades \in Seq(TradeType)
                 /\ task[n] = [at |-> task[n].at, order |-> task[n].order,
                               trades |-> task[n].trades]
           /\ task[n].at \in {"idle", "add", "match", "store", "publish", "record"}
<1>1. task[n] \in Tasks
  BY DEF TaskType
<1>2. CASE task[n] = Idle
  BY <1>2 DEF Idle
<1>3. CASE task[n] \in [at : {"add", "match", "store"}, order : Orders]
  BY <1>3 DEF Idle
<1>4. CASE task[n] \in [at : {"publish", "record"}, order : Orders, trades : Seq(TradeType)]
  BY <1>4 DEF Idle
<1> QED BY <1>1, <1>2, <1>3, <1>4 DEF Tasks

LEMMA HandlerTasks ==
    ASSUME TaskType, NEW n \in Nodes
    PROVE  /\ AddTaker(n) =>
                 /\ task[n].order \in Orders
                 /\ task' = [task EXCEPT ![n] =
                       [at |-> IF Admissible(task[n].order, clock) THEN "match" ELSE "store",
                        order |-> task[n].order]]
           /\ MatchTaker(n) => task[n].order \in Orders
           /\ PublishTrade(n) =>
                 /\ task[n].order \in Orders /\ task[n].trades \in Seq(TradeType)
                 /\ task[n].trades # <<>>
                 /\ task' = [task EXCEPT ![n] =
                       [at |-> "record", order |-> task[n].order, trades |-> task[n].trades]]
           /\ RecordTrade(n) =>
                 /\ task[n].order \in Orders /\ task[n].trades \in Seq(TradeType)
                 /\ task[n].trades # <<>>
                 /\ task' = [task EXCEPT ![n] =
                       [at |-> "publish", order |-> task[n].order,
                        trades |-> Tail(task[n].trades)]]
           /\ StoreOrder(n) => task[n].order \in Orders
<1> DEFINE o == task[n].order
           ts == task[n].trades
<1>1. ASSUME AddTaker(n)
      PROVE  /\ o \in Orders
             /\ task' = [task EXCEPT ![n] =
                    [at |-> IF Admissible(o, clock) THEN "match" ELSE "store", order |-> o]]
  <2>1. o \in Orders /\ task[n] = [at |-> "add", order |-> o]
    BY <1>1, TaskShape DEF AddTaker
  <2>2. task' = IF Admissible(o, clock) THEN [task EXCEPT ![n].at = "match"]
                                        ELSE [task EXCEPT ![n].at = "store"]
    BY <1>1 DEF AddTaker
  <2>3. \A a : [task[n] EXCEPT !.at = a] = [at |-> a, order |-> o]
    <3> HIDE DEF o
    <3> QED BY <2>1
  <2> QED BY <2>1, <2>2, <2>3
<1>2. ASSUME task[n].at \in {"publish", "record"}
      PROVE  /\ o \in Orders /\ ts \in Seq(TradeType)
             /\ \A a, new : [[task[n] EXCEPT !.at = a] EXCEPT !.trades = new] =
                               [at |-> a, order |-> o, trades |-> new]
             /\ \A a : [task[n] EXCEPT !.at = a] = [at |-> a, order |-> o, trades |-> ts]
  <2>1. /\ o \in Orders /\ ts \in Seq(TradeType)
        /\ task[n] = [at |-> task[n].at, order |-> o, trades |-> ts]
    BY <1>2, TaskShape
  <2> DEFINE r == task[n]
  <2> HIDE DEF o, ts
  <2>2. \A a : [r EXCEPT !.at = a] = [at |-> a, order |-> o, trades |-> ts]
    <3>1. r = [at |-> r.at, order |-> o, trades |-> ts]
      BY <2>1
    <3> HIDE DEF r
    <3>2. PICK b : r = [at |-> b, order |-> o, trades |-> ts]
      BY <3>1
    <3> QED BY <3>2
  <2>3. \A a, new : [[at |-> a, order |-> o, trades |-> ts] EXCEPT !.trades = new] =
                        [at |-> a, order |-> o, trades |-> new]
    OBVIOUS
  <2> QED BY <2>1, <2>2, <2>3
<1>3. ASSUME PublishTrade(n)
      PROVE  /\ o \in Orders /\ ts \in Seq(TradeType) /\ ts # <<>>
             /\ task' = [task EXCEPT ![n] = [at |-> "record", order |-> o, trades |-> ts]]
  BY <1>2, <1>3 DEF PublishTrade
<1>4. ASSUME RecordTrade(n)
      PROVE  /\ o \in Orders /\ ts \in Seq(TradeType) /\ ts # <<>>
             /\ task' = [task EXCEPT ![n] = [at |-> "publish", order |-> o, trades |-> Tail(ts)]]
  <2>1. task[n].at = "record" /\ ts # <<>>
    BY <1>4 DEF RecordTrade, TaskType
  <2>2. task' = [task EXCEPT ![n] = [[@ EXCEPT !.at = "publish"] EXCEPT !.trades = Tail(ts)]]
    BY <1>4 DEF RecordTrade
  <2> QED BY <1>2, <2>1, <2>2
<1>5. ASSUME MatchTaker(n) PROVE o \in Orders
  BY <1>5, TaskShape DEF MatchTaker
<1>6. ASSUME StoreOrder(n) PROVE o \in Orders
  BY <1>6, TaskShape DEF StoreOrder
<1> QED BY <1>1, <1>3, <1>4, <1>5, <1>6

-----------------------------------------------------------------------------
(* Types are preserved.                                                     *)
LEMMA NetworkKept ==
    ASSUME NetworkType, Next
    PROVE  NetworkType'
<1> USE DEF NetworkType
<1>1. ASSUME NEW o \in Orders, PostOrder(o) PROVE NetworkType'
  <2>1. o.id \in OrderIds
    BY OrderFacts
  <2>2. posts[o.id] + 1 \in 0 .. MaxPosts
    BY <1>1, <2>1, BoundsAssumption DEF PostOrder
  <2> QED BY <1>1, <2>1, <2>2 DEF PostOrder
<1>2. ASSUME NEW id \in Cancellable, PostCancel(id) PROVE NetworkType'
  BY <1>2 DEF PostCancel
<1>3. ASSUME NEW n \in Nodes PROVE Crash(n) \/ Restart(n) => NetworkType'
  BY BoundsAssumption DEF Crash, Restart
<1>4. ASSUME Tick PROVE NetworkType'
  BY <1>4, BoundsAssumption DEF Tick
<1>5. ASSUME UNCHANGED <<up, clock, posts, cancelled, crashes>> PROVE NetworkType'
  BY <1>5
<1> HIDE DEF NetworkType
<1> QED BY <1>1, <1>2, <1>3, <1>4, <1>5, StepIs, Frames

(* A message reaches some inboxes, or one is taken out of an inbox.         *)
LEMMA MailSteps ==
    ASSUME TaskType, Next
    PROVE  \/ \E o \in Orders : PostOrder(o) /\ Gossip(OrderMsg(o))
           \/ \E id \in Cancellable : PostCancel(id) /\ Gossip(CancelMsg(id))
           \/ \E n \in Nodes : PublishTrade(n) /\ Gossip(TradeMsg(Head(task[n].trades)))
           \/ \E n \in Nodes : \E m : Taken(n, m)
           \/ \E n \in Nodes : inbox' = [inbox EXCEPT ![n] = {}]
           \/ inbox' = inbox
BY StepIs DEF PostOrder, PostCancel, OnNewOrder, AddTaker, MatchTaker, PublishTrade,
      RecordTrade, StoreOrder, OnCancelOrder, MarkCancelled, OnTradeExecuted, RestoreList,
      RestoreOne, Crash, Restart, Tick

LEMMA MessagesDiffer ==
    /\ \A o \in Orders : \A id : OrderMsg(o) # CancelMsg(id)
    /\ \A t, id : TradeMsg(t) # CancelMsg(id)
    /\ \A o, t : TradeMsg(t) # OrderMsg(o)
    /\ \A o, p : OrderMsg(o) = OrderMsg(p) => o = p
    /\ \A i, j : CancelMsg(i) = CancelMsg(j) => i = j
    /\ \A t, u : TradeMsg(t) = TradeMsg(u) => t = u
<1>1. \A o : OrderMsg(o).topic = "order/new" /\ OrderMsg(o).order = o
  BY DEF OrderMsg
<1>2. \A id : CancelMsg(id).topic = "order/cancel" /\ CancelMsg(id).id = id
  BY DEF CancelMsg
<1>3. \A t : TradeMsg(t).topic = "trade/executed" /\ TradeMsg(t).trade = t
  BY DEF TradeMsg
<1> QED BY <1>1, <1>2, <1>3

LEMMA MailKept ==
    ASSUME NetworkType, MailType, TaskType, Next
    PROVE  MailType'
<1> DEFINE Mail(b, c) == \A n \in Nodes, id \in Cancellable : CancelMsg(id) \in b[n] => id \in c
<1>0. cancelled \subseteq cancelled'
  BY StepIs DEF PostOrder, PostCancel, OnNewOrder, AddTaker, MatchTaker, PublishTrade,
        RecordTrade, StoreOrder, OnCancelOrder, MarkCancelled, OnTradeExecuted, RestoreList,
        RestoreOne, Crash, Restart, Tick
<1>1. inbox \in [Nodes -> SUBSET Messages] /\ Mail(inbox, cancelled)
  BY DEF MailType
<1>2. ASSUME NEW m \in Messages, Gossip(m),
             \A id \in Cancellable : m = CancelMsg(id) => id \in cancelled'
      PROVE  MailType'
  <2>1. inbox' = [n \in Nodes |-> IF n \in up THEN inbox[n] \cup {m} ELSE inbox[n]]
    BY <1>2 DEF Gossip
  <2>2. inbox' \in [Nodes -> SUBSET Messages]
    BY <1>1, <2>1
  <2>3. Mail(inbox', cancelled')
    BY <1>0, <1>1, <1>2, <2>1
  <2> QED BY <2>2, <2>3 DEF MailType
<1>3. ASSUME NEW o \in Orders, PostOrder(o), Gossip(OrderMsg(o)) PROVE MailType'
  <2>1. OrderMsg(o) \in Messages
    BY DEF Messages
  <2> QED BY <1>2, <1>3, <2>1, MessagesDiffer
<1>4. ASSUME NEW id \in Cancellable, PostCancel(id), Gossip(CancelMsg(id)) PROVE MailType'
  <2>1. CancelMsg(id) \in Messages
    BY DEF Messages
  <2>2. id \in cancelled'
    BY <1>4 DEF PostCancel
  <2> QED BY <1>2, <1>4, <2>1, <2>2, MessagesDiffer
<1>5. ASSUME NEW n \in Nodes, PublishTrade(n), Gossip(TradeMsg(Head(task[n].trades)))
      PROVE  MailType'
  <2>1. Head(task[n].trades) \in TradeType
    <3>1. task[n].trades \in Seq(TradeType) /\ task[n].trades # <<>>
      BY <1>5, HandlerTasks
    <3> QED BY <3>1
  <2>2. TradeMsg(Head(task[n].trades)) \in Messages
    BY <2>1 DEF Messages, TradeMsg
  <2> QED BY <1>2, <1>5, <2>2, MessagesDiffer
<1>6. ASSUME NEW n \in Nodes, NEW m, Taken(n, m) PROVE MailType'
  <2>1. inbox' = [inbox EXCEPT ![n] = inbox[n] \ {m}]
    BY <1>6 DEF Taken
  <2> QED BY <1>0, <1>1, <2>1 DEF MailType
<1>7. ASSUME NEW n \in Nodes, inbox' = [inbox EXCEPT ![n] = {}] PROVE MailType'
  BY <1>0, <1>1, <1>7 DEF MailType
<1>8. ASSUME inbox' = inbox PROVE MailType'
  BY <1>0, <1>1, <1>8 DEF MailType
<1> QED BY <1>3, <1>4, <1>5, <1>6, <1>7, <1>8, MailSteps
LEMMA TaskKept ==
    ASSUME TaskType, BookInv, Next
    PROVE  TaskType'
<1> DEFINE T == {Idle} \cup [at : {"add", "match", "store"}, order : Orders]
           U == [at : {"publish", "record"}, order : Orders, trades : Seq(TradeType)]
<1>0. /\ task \in [Nodes -> Tasks] /\ cancelling \in [Nodes -> Cancellable \cup {NoCancel}]
      /\ \A n \in Nodes : task[n].at = "record" => task[n].trades # <<>>
      /\ T \subseteq Tasks /\ U \subseteq Tasks
  BY DEF TaskType, Tasks
<1>1. ASSUME NEW n \in Nodes, NEW r \in Tasks, r.at = "record" => r.trades # <<>>,
             task' = [task EXCEPT ![n] = r], cancelling' = cancelling
      PROVE  TaskType'
  BY <1>0, <1>1 DEF TaskType
<1>2. ASSUME task' = task, cancelling' \in [Nodes -> Cancellable \cup {NoCancel}] PROVE TaskType'
  BY <1>0, <1>2 DEF TaskType
<1>3. ASSUME NEW n \in Nodes, NEW o \in Orders, OnNewOrder(n, o) PROVE TaskType'
  <2> DEFINE r == [at |-> IF n \in MatchNodes THEN "add" ELSE "store", order |-> o]
  <2>1. r \in T /\ r.at # "record"
    OBVIOUS
  <2>2. (task' = task \/ task' = [task EXCEPT ![n] = r]) /\ cancelling' = cancelling
    BY <1>3 DEF OnNewOrder
  <2> HIDE DEF r, T
  <2> QED BY <1>0, <1>1, <1>2, <2>1, <2>2
<1>4. ASSUME NEW n \in Nodes, AddTaker(n) PROVE TaskType'
  <2> DEFINE r == [at |-> IF Admissible(task[n].order, clock) THEN "match" ELSE "store",
                   order |-> task[n].order]
  <2>1. task[n].order \in Orders /\ task' = [task EXCEPT ![n] = r]
    BY <1>4, HandlerTasks
  <2>2. r \in T /\ r.at # "record"
    BY <2>1
  <2>3. cancelling' = cancelling
    BY <1>4 DEF AddTaker
  <2> HIDE DEF r, T
  <2> QED BY <1>0, <1>1, <2>1, <2>2, <2>3
<1>5. ASSUME NEW n \in Nodes, MatchTaker(n) PROVE TaskType'
  <2> DEFINE o == task[n].order
             new == MatchOutcome(book[n], o).trades
             r == [at |-> "publish", order |-> o, trades |-> new]
  <2>1. o \in Orders
    BY <1>5, HandlerTasks
  <2>2. new \in Seq(TradeType)
    <3>1. <<>> \in Seq(TradeType)
      OBVIOUS
    <3>2. BookSound(book[n])
      BY DEF BookInv
    <3> QED BY <2>1, <3>1, <3>2, MatchBook
  <2>3. task' = [task EXCEPT ![n] = r] /\ cancelling' = cancelling
    BY <1>5 DEF MatchTaker
  <2> HIDE DEF new
  <2>4. r \in U /\ r.at # "record"
    BY <2>1, <2>2
  <2> HIDE DEF r, U
  <2> QED BY <1>0, <1>1, <2>3, <2>4
<1>6. ASSUME NEW n \in Nodes, PublishTrade(n) PROVE TaskType'
  <2> DEFINE r == [at |-> "record", order |-> task[n].order, trades |-> task[n].trades]
  <2>1. /\ task[n].order \in Orders /\ task[n].trades \in Seq(TradeType)
        /\ task[n].trades # <<>> /\ task' = [task EXCEPT ![n] = r]
    BY <1>6, HandlerTasks
  <2>2. r \in U /\ r.trades # <<>>
    BY <2>1
  <2>3. cancelling' = cancelling
    BY <1>6 DEF PublishTrade
  <2> HIDE DEF r, U
  <2> QED BY <1>0, <1>1, <2>1, <2>2, <2>3
<1>7. ASSUME NEW n \in Nodes, RecordTrade(n) PROVE TaskType'
  <2> DEFINE r == [at |-> "publish", order |-> task[n].order, trades |-> Tail(task[n].trades)]
  <2>1. /\ task[n].order \in Orders /\ task[n].trades \in Seq(TradeType)
        /\ task[n].trades # <<>> /\ task' = [task EXCEPT ![n] = r]
    BY <1>7, HandlerTasks
  <2>2. Tail(task[n].trades) \in Seq(TradeType)
    BY <2>1
  <2>3. r \in U /\ r.at # "record"
    BY <2>1, <2>2
  <2>4. cancelling' = cancelling
    BY <1>7 DEF RecordTrade
  <2> HIDE DEF r, U
  <2> QED BY <1>0, <1>1, <2>1, <2>3, <2>4
<1>8. ASSUME NEW n \in Nodes, StoreOrder(n) \/ Crash(n) PROVE TaskType'
  <2>1. Idle \in T /\ Idle.at # "record"
    BY DEF Idle
  <2>2. task' = [task EXCEPT ![n] = Idle]
    BY <1>8 DEF StoreOrder, Crash
  <2>3. cancelling' \in [Nodes -> Cancellable \cup {NoCancel}]
    BY <1>0, <1>8 DEF StoreOrder, Crash
  <2> HIDE DEF T
  <2> QED BY <1>0, <2>1, <2>2, <2>3 DEF TaskType
<1>9. ASSUME NEW n \in Nodes, NEW id \in Cancellable, OnCancelOrder(n, id) PROVE TaskType'
  BY <1>0, <1>2, <1>9 DEF OnCancelOrder
<1>10. ASSUME NEW n \in Nodes, MarkCancelled(n) PROVE TaskType'
  BY <1>0, <1>2, <1>10 DEF MarkCancelled
<1>11. ASSUME UNCHANGED <<task, cancelling>> PROVE TaskType'
  BY <1>0, <1>2, <1>11
<1> QED BY Zenon, <1>3, <1>4, <1>5, <1>6, <1>7, <1>8, <1>9, <1>10, <1>11, StepIs, Frames

(* An order enters a book: from a message, or from a row after a restart.   *)
Enters(n, o) ==
    /\ book' = [book EXCEPT ![n] = AddOrderToBook(book[n], o)]
    /\ copies' = [copies EXCEPT ![n] = [copies[n] EXCEPT ![o.id] = copies[n][o.id] + 1]]
    /\ made' = made

LEMMA OrdersEnter ==
    ASSUME TaskType, RestoreInv, NEW n \in Nodes
    PROVE  /\ AddTaker(n) =>
                 IF Admissible(task[n].order, clock) THEN Enters(n, task[n].order)
                 ELSE UNCHANGED <<book, copies, made>>
           /\ \A row \in restore[n].rows :
                 /\ row \in Orders
                 /\ RestoreOne(n, row) =>
                       IF Admissible(row, clock) THEN Enters(n, row)
                       ELSE UNCHANGED <<book, copies, made>>
<1>1. \A row \in restore[n].rows : row \in Orders
  BY DEF RestoreInv
<1> QED BY <1>1 DEF AddTaker, RestoreOne, Enters

(* What becomes of the books, the trades made and the copies counted.       *)
LEMMA BookSteps ==
    ASSUME TaskType, RestoreInv, Next
    PROVE  \/ \E n \in Nodes, o \in Orders : (AddTaker(n) \/ RestoreOne(n, o)) /\ Enters(n, o)
           \/ \E n \in Nodes : MatchTaker(n)
           \/ /\ UNCHANGED <<made, copies>>
              /\ \/ book' = book
                 \/ \E n \in Nodes, id \in Cancellable :
                       /\ OnCancelOrder(n, id)
                       /\ book' = [book EXCEPT ![n] = RemoveOrderFromBook(book[n], id)]
                 \/ \E n \in Nodes : Crash(n) /\ book' = [book EXCEPT ![n] = EmptyBook]
<1>1. ASSUME NEW n \in Nodes, AddTaker(n) \/ \E row \in restore[n].rows : RestoreOne(n, row)
      PROVE  \/ \E o \in Orders : (AddTaker(n) \/ RestoreOne(n, o)) /\ Enters(n, o)
             \/ UNCHANGED <<book, copies, made>>
  BY <1>1, OrdersEnter, HandlerTasks
<1>2. \A n \in Nodes, id \in Cancellable : OnCancelOrder(n, id) =>
          /\ UNCHANGED <<made, copies>>
          /\ book' = [book EXCEPT ![n] = RemoveOrderFromBook(book[n], id)]
  BY DEF OnCancelOrder
<1>3. \A n \in Nodes : Crash(n) =>
          UNCHANGED <<made, copies>> /\ book' = [book EXCEPT ![n] = EmptyBook]
  BY DEF Crash
<1> QED BY Zenon, <1>1, <1>2, <1>3, StepIs, Frames

LEMMA MatchSteps ==
    ASSUME TaskType, BookInv, HistoryType, NEW n \in Nodes, MatchTaker(n)
    PROVE  LET o   == task[n].order
               out == MatchOutcome(book[n], o)
           IN  /\ o \in Orders /\ task[n].at = "match"
               /\ out.trades \in Seq(TradeType)
               /\ book' = [book EXCEPT ![n] = out.book] /\ BookSound(out.book)
               /\ made' = [made EXCEPT ![n] = made[n] \o out.trades]
               /\ task' = [task EXCEPT ![n] =
                             [at |-> "publish", order |-> o, trades |-> out.trades]]
               /\ copies' = copies
<1>1. task[n].order \in Orders
  BY HandlerTasks
<1>2. BookSound(book[n]) /\ made[n] \in Seq(TradeType)
  BY DEF BookInv, HistoryType
<1>3. /\ BookSound(MatchOutcome(book[n], task[n].order).book)
      /\ MatchOutcome(book[n], task[n].order).trades \in Seq(TradeType)
  BY <1>1, <1>2, MatchBook
<1> QED BY <1>1, <1>3 DEF MatchTaker

LEMMA EmptyBookSound == BookSound(EmptyBook) /\ BookEntries(EmptyBook) = {}
<1>1. \A side \in Sides :
          EmptyBook[side] = <<>> /\ <<>> \in Seq(Entry(side)) /\ Distinct(<<>>)
            /\ EntriesOf(<<>>) = {}
  BY DEF EmptyBook, Distinct, EntriesOf
<1>2. EmptyBook = [side \in Sides |-> EmptyBook[side]]
  BY DEF EmptyBook
<1>3. BookEntries(EmptyBook) = {}
  BY <1>1 DEF BookEntries, Sides
<1> QED BY <1>1, <1>2, <1>3, SoundSides

LEMMA BookKept ==
    ASSUME TaskType, RestoreInv, HistoryType, BookInv, Next
    PROVE  BookInv'
<1>0. book \in [Nodes -> BookType] /\ \A n \in Nodes : BookSound(book[n])
  BY DEF BookInv
<1>1. ASSUME NEW n \in Nodes, NEW b, BookSound(b), book' = [book EXCEPT ![n] = b] PROVE BookInv'
  <2>1. b \in BookType
    BY <1>1 DEF BookSound
  <2>2. /\ book' \in [Nodes -> BookType] /\ book'[n] = b
        /\ \A m \in Nodes : m # n => book'[m] = book[m]
    BY <1>0, <1>1, <2>1
  <2>3. \A m \in Nodes : BookSound(book'[m])
    BY <1>0, <1>1, <2>2
  <2>4. \A m \in Nodes : BookSound(book[m])'
    BY <2>3 DEF BookSound
  <2> QED BY <2>2, <2>4 DEF BookInv
<1>2. ASSUME book' = book PROVE BookInv'
  BY <1>0, <1>2 DEF BookInv, BookSound
<1>3. ASSUME NEW n \in Nodes, NEW o \in Orders, Enters(n, o) PROVE BookInv'
  <2>1. BookSound(AddOrderToBook(book[n], o))
    BY <1>0, AddedEntries
  <2>2. book' = [book EXCEPT ![n] = AddOrderToBook(book[n], o)]
    BY <1>3 DEF Enters
  <2> QED BY <1>1, <2>1, <2>2
<1>4. ASSUME NEW n \in Nodes, MatchTaker(n) PROVE BookInv'
  BY <1>1, <1>4, MatchSteps
<1>5. ASSUME NEW n \in Nodes, NEW id, book' = [book EXCEPT ![n] = RemoveOrderFromBook(book[n], id)]
      PROVE  BookInv'
  <2>1. BookSound(RemoveOrderFromBook(book[n], id))
    BY <1>0, RemovedEntries
  <2> QED BY <1>1, <1>5, <2>1
<1>6. ASSUME NEW n \in Nodes, book' = [book EXCEPT ![n] = EmptyBook] PROVE BookInv'
  BY <1>1, <1>6, EmptyBookSound
<1> QED BY Zenon, <1>2, <1>3, <1>4, <1>5, <1>6, BookSteps

LEMMA HistoryKept ==
    ASSUME TaskType, RestoreInv, BookInv, HistoryType, Next
    PROVE  HistoryType'
<1>1. made \in [Nodes -> Seq(TradeType)] /\ copies \in [Nodes -> [OrderIds -> Nat]]
  BY DEF HistoryType
<1>2. ASSUME NEW n \in Nodes, NEW o \in Orders, Enters(n, o) PROVE HistoryType'
  <2>1. copies[n] \in [OrderIds -> Nat] /\ o.id \in OrderIds
    BY <1>1, OrderFacts
  <2>2. [copies[n] EXCEPT ![o.id] = copies[n][o.id] + 1] \in [OrderIds -> Nat]
    BY <2>1
  <2> QED BY <1>1, <1>2, <2>2 DEF Enters, HistoryType
<1>3. ASSUME NEW n \in Nodes, MatchTaker(n) PROVE HistoryType'
  <2> DEFINE new == MatchOutcome(book[n], task[n].order).trades
  <2>1. new \in Seq(TradeType) /\ made' = [made EXCEPT ![n] = made[n] \o new] /\ copies' = copies
    BY <1>3, MatchSteps
  <2> HIDE DEF new
  <2>2. made[n] \o new \in Seq(TradeType)
    BY <1>1, <2>1
  <2> QED BY <1>1, <2>1, <2>2 DEF HistoryType
<1>4. ASSUME UNCHANGED <<made, copies>> PROVE HistoryType'
  BY <1>1, <1>4 DEF HistoryType
<1> QED BY Zenon, <1>2, <1>3, <1>4, BookSteps

LEMMA RowFacts ==
    ASSUME RowInv, NEW n \in Nodes, NEW o \in Orders
    PROVE  /\ orderRows[n][o.id] = NoRow \/ IsRowOf(orderRows[n][o.id], o)
           /\ IsOpen(orderRows[n][o.id]) => orderRows[n][o.id] = o
<1>1. o.id \in OrderIds /\ o \in OrderType
  BY OrderFacts
<1>2. orderRows[n][o.id] = NoRow \/ \E p \in Orders : p.id = o.id /\ IsRowOf(orderRows[n][o.id], p)
  BY <1>1 DEF RowInv
<1>3. orderRows[n][o.id] = NoRow \/ IsRowOf(orderRows[n][o.id], o)
  BY <1>2, OrdersAssumption
<1>4. [o EXCEPT !.status = "cancelled"].status = "cancelled"
  BY <1>1 DEF OrderType
<1>5. IsOpen(orderRows[n][o.id]) => orderRows[n][o.id] = o
  BY <1>3, <1>4 DEF IsRowOf, IsOpen
<1> QED BY <1>3, <1>5

LEMMA OpenRowsAreOrders ==
    ASSUME RowInv, NEW n \in Nodes
    PROVE  /\ OpenRows(n) \subseteq Orders
           /\ \A o \in Orders : IsOpen(orderRows[n][o.id]) => o \in OpenRows(n)
           /\ \A o \in OpenRows(n) : orderRows[n][o.id] # NoRow
<1>1. ASSUME NEW row \in OpenRows(n) PROVE row \in Orders /\ orderRows[n][row.id] # NoRow
  <2>1. PICK id \in OrderIds : row = orderRows[n][id] /\ IsOpen(orderRows[n][id])
    BY DEF OpenRows, IsOpen
  <2>2. PICK o \in Orders : o.id = id
    BY <2>1 DEF RowInv, IsOpen
  <2>3. row = o
    BY <2>1, <2>2, RowFacts
  <2> QED BY <2>1, <2>2, <2>3 DEF IsOpen
<1>2. ASSUME NEW o \in Orders, IsOpen(orderRows[n][o.id]) PROVE o \in OpenRows(n)
  <2>1. orderRows[n][o.id] = o /\ o.id \in OrderIds
    BY <1>2, RowFacts, OrderFacts
  <2>2. orderRows[n][o.id] \in OpenRows(n)
    BY <1>2, <2>1 DEF OpenRows, IsOpen
  <2> QED BY <2>1, <2>2
<1> QED BY <1>1, <1>2

LEMMA RowKept ==
    ASSUME TaskType, RowInv, Next
    PROVE  RowInv'
<1> DEFINE Good(row, id) == row = NoRow \/ \E o \in Orders : o.id = id /\ IsRowOf(row, o)
<1>0. /\ orderRows \in [Nodes -> [OrderIds -> OrderType \cup {NoRow}]]
      /\ \A n \in Nodes, id \in OrderIds : Good(orderRows[n][id], id)
  BY DEF RowInv
<1>1. ASSUME NEW n \in Nodes, NEW id \in OrderIds, NEW row \in OrderType, Good(row, id),
             orderRows' = [orderRows EXCEPT ![n] = [orderRows[n] EXCEPT ![id] = row]]
      PROVE  RowInv'
  <2> DEFINE f == [orderRows[n] EXCEPT ![id] = row]
  <2>1. orderRows[n] \in [OrderIds -> OrderType \cup {NoRow}]
    BY <1>0
  <2>2. f \in [OrderIds -> OrderType \cup {NoRow}] /\ f[id] = row
        /\ \A i \in OrderIds : i # id => f[i] = orderRows[n][i]
    BY <2>1
  <2>3. \A i \in OrderIds : Good(f[i], i)
    <3> HIDE DEF f, Good
    <3> QED BY <1>0, <1>1, <2>2
  <2>4. orderRows' = [orderRows EXCEPT ![n] = f]
    BY <1>1
  <2> HIDE DEF f, Good
  <2>5. /\ orderRows' \in [Nodes -> [OrderIds -> OrderType \cup {NoRow}]]
        /\ \A m \in Nodes, i \in OrderIds : Good(orderRows'[m][i], i)
    BY <1>0, <2>2, <2>3, <2>4
  <2> QED BY <2>5 DEF RowInv, IsRowOf, Good
<1>2. ASSUME NEW n \in Nodes, StoreOrder(n) PROVE RowInv'
  <2> DEFINE o == task[n].order
  <2>1. o \in Orders
    BY <1>2, HandlerTasks
  <2>2. o \in OrderType /\ o.id \in OrderIds /\ Good(o, o.id)
    BY <2>1, OrderFacts DEF IsRowOf
  <2>3. orderRows' = [orderRows EXCEPT ![n] = [orderRows[n] EXCEPT ![o.id] = o]]
    BY <1>2 DEF StoreOrder
  <2> HIDE DEF o, Good
  <2> QED BY <1>1, <2>2, <2>3
<1>3. ASSUME NEW n \in Nodes, MarkCancelled(n) PROVE RowInv'
  <2> DEFINE id == cancelling[n]
             row == orderRows[n][id]
  <2>1. CASE row = NoRow
    <3>1. orderRows' = orderRows
      BY <1>3, <2>1 DEF MarkCancelled
    <3> QED BY <3>1 DEF RowInv, IsRowOf
  <2>2. CASE row # NoRow
    <3>1. id \in OrderIds
      BY <1>3, CancellableAssumption DEF TaskType, MarkCancelled
    <3>2. PICK o \in Orders : o.id = id /\ IsRowOf(row, o)
      BY <1>0, <2>2, <3>1
    <3> DEFINE new == [row EXCEPT !.status = "cancelled"]
    <3>3. o \in OrderType
      BY OrderFacts
    <3>4. new = [o EXCEPT !.status = "cancelled"]
      BY <3>2, <3>3 DEF IsRowOf, OrderType
    <3>5. new \in OrderType /\ Good(new, id)
      BY <3>2, <3>3, <3>4 DEF OrderType, Statuses, IsRowOf
    <3>6. orderRows' = [orderRows EXCEPT ![n] = [orderRows[n] EXCEPT ![id] = new]]
      BY <1>3, <2>2 DEF MarkCancelled
    <3> HIDE DEF new, Good, id
    <3> QED BY <1>1, <3>1, <3>5, <3>6
  <2> QED BY <2>1, <2>2
<1>4. ASSUME orderRows' = orderRows PROVE RowInv'
  BY <1>4 DEF RowInv, IsRowOf
<1> QED BY Zenon, <1>2, <1>3, <1>4, StepIs, Frames

LEMMA RestoreKept ==
    ASSUME RowInv, RestoreInv, Next
    PROVE  RestoreInv'
<1>0. restore \in [Nodes -> [passes : 0 .. 2, rows : SUBSET Orders]]
  BY DEF RestoreInv
<1>1. ASSUME NEW n \in Nodes, NEW r \in [passes : 0 .. 2, rows : SUBSET Orders],
             restore' = [restore EXCEPT ![n] = r]
      PROVE  RestoreInv'
  BY <1>0, <1>1 DEF RestoreInv
<1>2. ASSUME NEW n \in Nodes, RestoreList(n) PROVE RestoreInv'
  <2>0. PICK rows \in SUBSET OpenRows(n) :
            restore' = [restore EXCEPT ![n] = [passes |-> restore[n].passes - 1, rows |-> rows]]
    BY <1>2 DEF RestoreList
  <2> DEFINE r == [passes |-> restore[n].passes - 1, rows |-> rows]
  <2>1. restore' = [restore EXCEPT ![n] = r] /\ restore[n].passes > 0
    BY <1>2, <2>0 DEF RestoreList
  <2>2. restore[n].passes \in 0 .. 2
    BY <1>0
  <2>3. restore[n].passes - 1 \in 0 .. 2 /\ rows \in SUBSET Orders
    BY <2>1, <2>2, OpenRowsAreOrders
  <2> QED BY <1>1, <2>1, <2>3
<1>3. ASSUME NEW n \in Nodes, NEW row, RestoreOne(n, row) PROVE RestoreInv'
  <2> DEFINE r == [restore[n] EXCEPT !.rows = restore[n].rows \ {row}]
  <2>1. restore' = [restore EXCEPT ![n] = r]
    BY <1>3 DEF RestoreOne
  <2>2. r \in [passes : 0 .. 2, rows : SUBSET Orders]
    BY <1>0
  <2> HIDE DEF r
  <2> QED BY <1>1, <2>1, <2>2
<1>4. ASSUME NEW n \in Nodes, Crash(n) PROVE RestoreInv'
  <2>1. NotRestoring \in [passes : 0 .. 2, rows : SUBSET Orders]
    BY DEF NotRestoring
  <2> QED BY <1>1, <1>4, <2>1 DEF Crash
<1>5. ASSUME NEW n \in Nodes, Restart(n) PROVE RestoreInv'
  <2> DEFINE r == [restore[n] EXCEPT !.passes = IF n \in MatchNodes THEN 2 ELSE 0]
  <2>1. restore' = [restore EXCEPT ![n] = r]
    BY <1>5 DEF Restart
  <2>2. r \in [passes : 0 .. 2, rows : SUBSET Orders]
    BY <1>0
  <2> HIDE DEF r
  <2> QED BY <1>1, <2>1, <2>2
<1>6. ASSUME restore' = restore PROVE RestoreInv'
  BY <1>6 DEF RestoreInv
<1> QED BY Zenon, <1>2, <1>3, <1>4, <1>5, <1>6, StepIs, Frames

(* A trade is written where it was made, and wherever it is announced.      *)
LEMMA TradeRowsKept ==
    ASSUME TaskType, MailType, TradeRowsType, Next
    PROVE  TradeRowsType'
<1>0. tradeRows \in [Nodes -> SUBSET TradeType]
  BY DEF TradeRowsType
<1>1. ASSUME NEW n \in Nodes, NEW t \in TradeType, InsertTrade(n, t) PROVE TradeRowsType'
  <2> DEFINE new == {r \in tradeRows[n] : TradeId(r) # TradeId(t)} \cup {t}
  <2>1. tradeRows' = [tradeRows EXCEPT ![n] = new]
    BY <1>1 DEF InsertTrade
  <2>2. new \in SUBSET TradeType
    BY <1>0
  <2> HIDE DEF new
  <2> QED BY <1>0, <2>1, <2>2 DEF TradeRowsType
<1>2. ASSUME NEW n \in Nodes, RecordTrade(n) PROVE TradeRowsType'
  <2>1. task[n].trades \in Seq(TradeType) /\ task[n].trades # <<>>
    BY <1>2, HandlerTasks
  <2>2. Head(task[n].trades) \in TradeType
    BY <2>1
  <2> QED BY <1>1, <1>2, <2>2 DEF RecordTrade
<1>3. ASSUME NEW n \in Nodes, NEW m \in inbox[n], m.topic = "trade/executed",
             OnTradeExecuted(n, m.trade)
      PROVE  TradeRowsType'
  <2>1. m \in Messages
    BY DEF MailType
  <2>2. m.trade \in TradeType
    BY <1>3, <2>1 DEF Messages, OrderMsg, CancelMsg
  <2> QED BY <1>1, <1>3, <2>2 DEF OnTradeExecuted
<1>4. ASSUME tradeRows' = tradeRows PROVE TradeRowsType'
  BY <1>4 DEF TradeRowsType
<1> QED BY Zenon, <1>2, <1>3, <1>4, StepIs, Frames

-----------------------------------------------------------------------------
LEMMA InitTypes ==
    ASSUME Init
    PROVE  TypeInv
<1>1. NetworkType
  BY BoundsAssumption DEF Init, NetworkType
<1>2. MailType /\ RestoreInv /\ TradeRowsType /\ HistoryType
  <2>1. MailType
    BY DEF Init, MailType
  <2>2. RestoreInv
    BY DEF Init, RestoreInv, NotRestoring
  <2>3. TradeRowsType
    BY DEF Init, TradeRowsType
  <2>4. HistoryType
    BY DEF Init, HistoryType
  <2> QED BY <2>1, <2>2, <2>3, <2>4
<1>3. TaskType
  BY DEF Init, TaskType, Tasks, Idle
<1>4. BookInv
  <2>1. EmptyBook \in BookType /\ BookSound(EmptyBook)
    BY EmptyBookSound DEF BookSound
  <2>2. \A n \in Nodes : book[n] = EmptyBook
    BY DEF Init
  <2>3. book \in [Nodes -> BookType]
    BY <2>1 DEF Init
  <2> QED BY <2>1, <2>2, <2>3 DEF BookInv
<1>5. RowInv
  BY DEF Init, RowInv
<1> QED BY <1>1, <1>2, <1>3, <1>4, <1>5 DEF TypeInv

LEMMA TypesKept ==
    ASSUME TypeInv, [Next]_vars
    PROVE  TypeInv'
<1>1. CASE Next
  <2>1. /\ NetworkType /\ MailType /\ TaskType /\ HistoryType
        /\ BookInv /\ RowInv /\ RestoreInv /\ TradeRowsType
    BY DEF TypeInv
  <2> QED BY <1>1, <2>1, NetworkKept, MailKept, TaskKept, HistoryKept, BookKept, RowKept,
             RestoreKept, TradeRowsKept DEF TypeInv
<1>2. CASE UNCHANGED vars
  <2>1. NetworkType' <=> NetworkType
    BY <1>2 DEF vars, NetworkType
  <2>2. MailType' <=> MailType
    BY <1>2 DEF vars, MailType
  <2>3. TaskType' <=> TaskType
    BY <1>2 DEF vars, TaskType
  <2>4. HistoryType' <=> HistoryType
    BY <1>2 DEF vars, HistoryType
  <2>5. BookInv' <=> BookInv
    BY <1>2 DEF vars, BookInv, BookSound
  <2>6. RowInv' <=> RowInv
    BY <1>2 DEF vars, RowInv, IsRowOf
  <2>7. (RestoreInv' <=> RestoreInv) /\ (TradeRowsType' <=> TradeRowsType)
    BY <1>2 DEF vars, RestoreInv, TradeRowsType
  <2> QED BY <2>1, <2>2, <2>3, <2>4, <2>5, <2>6, <2>7 DEF TypeInv
<1> QED BY <1>1, <1>2

LEMMA TypesImplyTypeOK ==
    ASSUME TypeInv
    PROVE  TypeOK
<1>1. /\ NetworkType /\ MailType /\ TaskType /\ HistoryType
      /\ BookInv /\ RowInv /\ RestoreInv /\ TradeRowsType
  BY DEF TypeInv
<1>2. ASSUME NEW n \in Nodes, NEW m \in inbox[n]
      PROVE  \/ m \in {OrderMsg(o) : o \in Orders} \cup {CancelMsg(id) : id \in Cancellable}
             \/ m.topic = "trade/executed" /\ m.trade \in TradeType
  BY <1>1 DEF MailType, Messages
<1>3. \A n \in Nodes : task[n] = Idle \/ task[n].order \in Orders
  BY <1>1, TaskShape
<1>4. \A n \in Nodes : restore[n].passes \in 0 .. 2 /\ restore[n].rows \subseteq OrderType
  BY <1>1, OrdersAssumption DEF RestoreInv
<1>5. \A n \in Nodes, id \in OrderIds :
          orderRows[n][id] = NoRow \/ orderRows[n][id] \in OrderType
  BY <1>1 DEF RowInv
<1>6. \A n \in Nodes : tradeRows[n] \subseteq TradeType
  BY <1>1 DEF TradeRowsType
<1>7. \A n \in Nodes : made[n] \in Seq(TradeType)
  BY <1>1 DEF HistoryType
<1>8. book \in [Nodes -> BookType] /\ cancelling \in [Nodes -> Cancellable \cup {NoCancel}]
  BY <1>1 DEF BookInv, TaskType
<1>9. /\ up \subseteq Nodes /\ clock \in 0 .. MaxTime /\ posts \in [OrderIds -> 0 .. MaxPosts]
      /\ cancelled \subseteq Cancellable /\ crashes \in 0 .. MaxCrashes
  BY <1>1 DEF NetworkType
<1> QED BY Zenon, <1>2, <1>3, <1>4, <1>5, <1>6, <1>7, <1>8, <1>9 DEF TypeOK

(* Every variable keeps its type: messages, tasks, rows and trades are      *)
(* always of orders that clients posted, and no handler leaves its states.  *)
THEOREM TypeCorrect == Spec => []TypeOK
<1>1. Init => TypeInv
  BY InitTypes
<1>2. TypeInv /\ [Next]_vars => TypeInv'
  BY TypesKept
<1>3. TypeInv => TypeOK
  BY TypesImplyTypeOK
<1> QED BY <1>1, <1>2, <1>3, PTL DEF Spec

-----------------------------------------------------------------------------
(* Fills, step by step. Entries that leave take nothing with them, and a    *)
(* match that is not made buys nothing.                                     *)
LEMMA FillsShrink ==
    ASSUME NEW ts \in Seq(TradeType), NEW c \in Nat, NEW b, NEW q \in Nat, NEW o \in Orders,
           FillsAt(ts, c, b, q, o),
           NEW d, \A e \in BookEntries(d) : e.id = o.id => e \in BookEntries(b),
           NEW r \in Nat, r <= q
    PROVE  FillsAt(ts, c, d, r, o)
<1>1. o.amount * c \in Nat /\ Sold(ts, o.id) \in Nat /\ Bought(ts, o.id) \in Nat
  <2>1. o.amount \in Nat
    BY OrderFacts
  <2> QED BY <2>1, SoldNat
<1>2. /\ Sold(ts, o.id) <= o.amount * c
      /\ Bought(ts, o.id) + q <= o.amount * c
  BY DEF FillsAt
<1>3. Bought(ts, o.id) + r <= o.amount * c
  <2> DEFINE w == o.amount * c
  <2> HIDE DEF w
  <2> QED BY <1>1, <1>2 DEF w
<1> QED BY <1>2, <1>3 DEF FillsAt

(* One more copy allows for what the copy brings.                           *)
LEMMA FillsWithCopy ==
    ASSUME NEW ts \in Seq(TradeType), NEW c \in Nat, NEW b, BookSound(b), NEW q \in Nat,
           NEW o \in Orders, FillsAt(ts, c, b, q, o), NEW r \in Nat, r <= q + o.amount
    PROVE  FillsAt(ts, c + 1, AddOrderToBook(b, o), r, o)
<1> DEFINE w == o.amount * c
           d == AddOrderToBook(b, o)
<1>1. o.amount \in Nat /\ Left(o) = o.amount
  BY OrderFacts
<1>2. w \in Nat /\ o.amount * (c + 1) = w + o.amount
  BY <1>1
<1>3. Sold(ts, o.id) \in Nat /\ Bought(ts, o.id) \in Nat
  BY SoldNat
<1>4. Sold(ts, o.id) <= w /\ Bought(ts, o.id) + q <= w
  BY DEF FillsAt
<1>5. \A e \in BookEntries(d) : e.id = o.id => e = o
  BY AddedEntries
<1> HIDE DEF w, d
<1>6. /\ Sold(ts, o.id) <= w + o.amount /\ Bought(ts, o.id) + r <= w + o.amount
      /\ o.amount <= Sold(ts, o.id) + o.amount
      /\ Sold(ts, o.id) + o.amount <= w + o.amount
  BY <1>1, <1>2, <1>3, <1>4
<1>7. \A e \in BookEntries(d) : e.id = o.id =>
          /\ o.amount <= Sold(ts, o.id) + Left(e)
          /\ Sold(ts, o.id) + Left(e) <= w + o.amount
  BY <1>1, <1>5, <1>6
<1>8. FillsAt(ts, c + 1, d, r, o)
  BY <1>2, <1>6, <1>7 DEF FillsAt
<1> QED BY <1>8 DEF d

(* A match: its trades sell what the entries lose, and buy for the taker    *)
(* what was pending.                                                        *)
LEMMA FillsMatched ==
    ASSUME NEW ts \in Seq(TradeType), NEW c \in Nat, NEW b, BookSound(b), NEW q \in Nat,
           NEW o \in Orders, NEW p \in Orders, FillsAt(ts, c, b, q, p), p = o => q = o.amount
    PROVE  LET out == MatchOutcome(b, o)
           IN  FillsAt(ts \o out.trades, c, out.book, 0, p)
<1> DEFINE out == MatchOutcome(b, o)
           new == out.trades
           d == out.book
           w == p.amount * c
           S == Sold(ts, p.id)
           T == Sold(ts \o new, p.id)
<1>1. /\ new \in Seq(TradeType)
      /\ \A j \in 1 .. Len(new) : new[j].taker = o.id
      /\ SumFunctionOnSet(Amounts(new), 1 .. Len(new)) <= o.amount
      /\ \A x \in BookEntries(d) : \E e \in BookEntries(b) :
            e.id = x.id /\ Sold(ts \o new, e.id) + Left(x) = Sold(ts, e.id) + Left(e)
      /\ \A e \in BookEntries(b) :
            (\A x \in BookEntries(d) : x.id # e.id) =>
                Sold(ts \o new, e.id) = Sold(ts, e.id) + Left(e)
      /\ \A id : (\A e \in BookEntries(b) : e.id # id) => Sold(ts \o new, id) = Sold(ts, id)
      /\ BookSound(d)
  BY MatchBook
<1> HIDE DEF new, d, out
<1>2. p.amount \in Nat /\ w \in Nat /\ S \in Nat /\ T \in Nat /\ o.amount \in Nat
  <2>1. p.amount \in Nat /\ o.amount \in Nat
    BY OrderFacts
  <2>2. ts \o new \in Seq(TradeType)
    BY <1>1
  <2>3. S \in Nat
    BY SoldNat
  <2>4. T \in Nat
    BY <2>2, SoldNat
  <2>5. w \in Nat
    BY <2>1
  <2> QED BY <2>1, <2>3, <2>4, <2>5
<1>3. /\ S <= w /\ Bought(ts, p.id) + q <= w
      /\ \A e \in BookEntries(b) : e.id = p.id => p.amount <= S + Left(e) /\ S + Left(e) <= w
  BY DEF FillsAt
<1> HIDE DEF w, S, T
<1>4. \A x \in BookEntries(d) : x.id = p.id => p.amount <= T + Left(x) /\ T + Left(x) <= w
  <2> SUFFICES ASSUME NEW x \in BookEntries(d), x.id = p.id
               PROVE  p.amount <= T + Left(x) /\ T + Left(x) <= w
    OBVIOUS
  <2>1. PICK e \in BookEntries(b) : e.id = p.id /\ T + Left(x) = S + Left(e)
    BY <1>1 DEF S, T
  <2> QED BY <1>3, <2>1
<1>5. T <= w
  <2>1. CASE \A e \in BookEntries(b) : e.id # p.id
    BY <1>1, <1>3, <2>1 DEF S, T
  <2>2. ASSUME NEW e \in BookEntries(b), e.id = p.id PROVE T <= w
    <3>1. CASE \A x \in BookEntries(d) : x.id # e.id
      <4>1. T = S + Left(e)
        BY <1>1, <2>2, <3>1 DEF S, T
      <4> QED BY <1>3, <2>2, <4>1
    <3>2. ASSUME NEW x \in BookEntries(d), x.id = e.id PROVE T <= w
      <4>1. T + Left(x) <= w
        BY <1>4, <2>2, <3>2
      <4>2. Left(x) \in Nat
        BY <1>1, BookEntriesHaveType
      <4> QED BY <1>2, <4>1, <4>2
    <3> QED BY <3>1, <3>2
  <2> QED BY <2>1, <2>2
<1>6. Bought(ts \o new, p.id) + 0 <= w
  <2>1. Bought(ts, p.id) \in Nat /\ Bought(ts \o new, p.id) \in Nat
    <3>1. ts \o new \in Seq(TradeType)
      BY <1>1
    <3> QED BY <3>1, SoldNat
  <2>2. CASE p = o
    <3>1. Bought(ts \o new, p.id) =
              Bought(ts, p.id) + SumFunctionOnSet(Amounts(new), 1 .. Len(new))
      BY <1>1, <2>2, BoughtMore
    <3>2. SumFunctionOnSet(Amounts(new), 1 .. Len(new)) \in Nat
      BY <1>1, SumOfAmountsNat
    <3> QED BY <1>1, <1>2, <1>3, <2>1, <2>2, <3>1, <3>2
  <2>3. CASE p # o
    <3>1. \A j \in 1 .. Len(new) : new[j].taker # p.id
      BY <1>1, <2>3, OrdersAssumption
    <3>2. Bought(ts \o new, p.id) = Bought(ts, p.id)
      BY <1>1, <3>1, BoughtMore
    <3> QED BY <1>2, <1>3, <2>1, <3>2
  <2> QED BY <2>2, <2>3
<1>7. FillsAt(ts \o new, c, d, 0, p)
  BY <1>4, <1>5, <1>6 DEF FillsAt, T, w
<1> QED BY <1>7 DEF new, d, out

LEMMA InitFills ==
    ASSUME Init
    PROVE  FillInv
<1> SUFFICES ASSUME NEW n \in Nodes, NEW o \in Orders PROVE FillsOf(n, o)
  BY DEF FillInv
<1>1. made[n] = <<>> /\ copies[n][o.id] = 0 /\ BookEntries(book[n]) = {} /\ Pending(n, o) = 0
  BY OrderFacts, EmptyBookSound DEF Init, Pending, Idle
<1>2. Sold(<<>>, o.id) = 0 /\ Bought(<<>>, o.id) = 0
  <2>1. MakerAt(<<>>, o.id) = {} /\ TakerAt(<<>>, o.id) = {}
    BY DEF MakerAt, TakerAt
  <2> QED BY <2>1, SumEmpty DEF Sold, Bought
<1>3. o.amount * 0 = 0
  BY OrderFacts
<1> QED BY <1>1, <1>2, <1>3 DEF FillsOf, FillsAt

(* How the task of a node moves.                                            *)
LEMMA TaskSteps ==
    ASSUME TaskType, BookInv, HistoryType, Next, NEW m \in Nodes
    PROVE  \/ task'[m] = task[m]
           \/ \E o \in Orders :
                 /\ OnNewOrder(m, o) /\ ~Expired(o, clock)
                 /\ task'[m] = [at |-> IF m \in MatchNodes THEN "add" ELSE "store", order |-> o]
           \/ /\ AddTaker(m)
              /\ task'[m] = [at |-> IF Admissible(task[m].order, clock) THEN "match" ELSE "store",
                             order |-> task[m].order]
           \/ /\ MatchTaker(m)
              /\ task'[m] = [at |-> "publish", order |-> task[m].order,
                             trades |-> MatchOutcome(book[m], task[m].order).trades]
           \/ /\ PublishTrade(m)
              /\ task'[m] = [at |-> "record", order |-> task[m].order, trades |-> task[m].trades]
           \/ /\ RecordTrade(m)
              /\ task'[m] = [at |-> "publish", order |-> task[m].order,
                             trades |-> Tail(task[m].trades)]
           \/ (StoreOrder(m) \/ Crash(m)) /\ task'[m] = Idle
<1>0. task \in [Nodes -> Tasks]
  BY DEF TaskType
<1>1. \A n \in Nodes : \A r : task' = [task EXCEPT ![n] = r] =>
         task'[n] = r /\ (n # m => task'[m] = task[m])
  BY <1>0
<1>2. ASSUME NEW n \in Nodes, NEW o \in Orders, OnNewOrder(n, o)
      PROVE  \/ task' = task
             \/ /\ ~Expired(o, clock)
                /\ task' = [task EXCEPT ![n] =
                      [at |-> IF n \in MatchNodes THEN "add" ELSE "store", order |-> o]]
  BY <1>2 DEF OnNewOrder
<1>3. ASSUME NEW n \in Nodes, StoreOrder(n) \/ Crash(n) PROVE task' = [task EXCEPT ![n] = Idle]
  BY <1>3 DEF StoreOrder, Crash
<1>4. ASSUME NEW n \in Nodes, MatchTaker(n)
      PROVE  task' = [task EXCEPT ![n] =
                         [at |-> "publish", order |-> task[n].order,
                          trades |-> MatchOutcome(book[n], task[n].order).trades]]
  BY <1>4, MatchSteps
<1>5. ASSUME NEW n \in Nodes, NEW o \in Orders, OnNewOrder(n, o)
      PROVE  \/ task'[m] = task[m]
             \/ /\ m = n /\ ~Expired(o, clock)
                /\ task'[m] = [at |-> IF m \in MatchNodes THEN "add" ELSE "store", order |-> o]
  BY <1>1, <1>2, <1>5
<1>6. ASSUME NEW n \in Nodes, AddTaker(n)
      PROVE  \/ task'[m] = task[m]
             \/ /\ AddTaker(m)
                /\ task'[m] = [at |-> IF Admissible(task[m].order, clock) THEN "match" ELSE "store",
                               order |-> task[m].order]
  <2> DEFINE r == [at |-> IF Admissible(task[n].order, clock) THEN "match" ELSE "store",
                   order |-> task[n].order]
  <2>1. task' = [task EXCEPT ![n] = r]
    BY <1>6, HandlerTasks
  <2>2. CASE n # m
    <3> HIDE DEF r
    <3> QED BY <1>1, <2>1, <2>2
  <2>3. CASE n = m
    <3>1. task'[n] = r
      <4> HIDE DEF r
      <4> QED BY <1>1, <2>1
    <3> QED BY Zenon, <1>6, <2>3, <3>1
  <2> QED BY <2>2, <2>3
<1>7. ASSUME NEW n \in Nodes, MatchTaker(n)
      PROVE  \/ task'[m] = task[m]
             \/ /\ MatchTaker(m)
                /\ task'[m] = [at |-> "publish", order |-> task[m].order,
                               trades |-> MatchOutcome(book[m], task[m].order).trades]
  <2> DEFINE r == [at |-> "publish", order |-> task[n].order,
                   trades |-> MatchOutcome(book[n], task[n].order).trades]
  <2>1. task' = [task EXCEPT ![n] = r]
    BY <1>7, <1>4
  <2>2. CASE n # m
    <3> HIDE DEF r
    <3> QED BY <1>1, <2>1, <2>2
  <2>3. CASE n = m
    <3>1. task'[n] = r
      <4> HIDE DEF r
      <4> QED BY <1>1, <2>1
    <3> QED BY Zenon, <1>7, <2>3, <3>1
  <2> QED BY <2>2, <2>3
<1>8. ASSUME NEW n \in Nodes, PublishTrade(n)
      PROVE  \/ task'[m] = task[m]
             \/ /\ PublishTrade(m)
                /\ task'[m] = [at |-> "record", order |-> task[m].order,
                               trades |-> task[m].trades]
  <2> DEFINE r == [at |-> "record", order |-> task[n].order, trades |-> task[n].trades]
  <2>1. task' = [task EXCEPT ![n] = r]
    BY <1>8, HandlerTasks
  <2>2. CASE n # m
    <3> HIDE DEF r
    <3> QED BY <1>1, <2>1, <2>2
  <2>3. CASE n = m
    <3>1. task'[n] = r
      <4> HIDE DEF r
      <4> QED BY <1>1, <2>1
    <3> QED BY Zenon, <1>8, <2>3, <3>1
  <2> QED BY <2>2, <2>3
<1>9. ASSUME NEW n \in Nodes, RecordTrade(n)
      PROVE  \/ task'[m] = task[m]
             \/ /\ RecordTrade(m)
                /\ task'[m] = [at |-> "publish", order |-> task[m].order,
                               trades |-> Tail(task[m].trades)]
  <2> DEFINE r == [at |-> "publish", order |-> task[n].order, trades |-> Tail(task[n].trades)]
  <2>1. task' = [task EXCEPT ![n] = r]
    BY <1>9, HandlerTasks
  <2>2. CASE n # m
    <3> HIDE DEF r
    <3> QED BY <1>1, <2>1, <2>2
  <2>3. CASE n = m
    <3>1. task'[n] = r
      <4> HIDE DEF r
      <4> QED BY <1>1, <2>1
    <3> QED BY Zenon, <1>9, <2>3, <3>1
  <2> QED BY <2>2, <2>3
<1>10. ASSUME NEW n \in Nodes, StoreOrder(n) \/ Crash(n)
       PROVE  \/ task'[m] = task[m]
              \/ (StoreOrder(m) \/ Crash(m)) /\ task'[m] = Idle
  BY <1>1, <1>3, <1>10
<1> QED BY Zenon, <1>5, <1>6, <1>7, <1>8, <1>9, <1>10, StepIs, Frames

LEMMA PendingSteps ==
    ASSUME TypeInv, Next, NEW m \in Nodes, NEW p \in Orders
    PROVE  /\ Pending(m, p) \in Nat /\ Pending(m, p)' \in Nat /\ Pending(m, p)' <= p.amount
           /\ Pending(m, p)' <= Pending(m, p) \/ Enters(m, p)
           /\ MatchTaker(m) => Pending(m, p)' = 0
<1>1. TaskType /\ BookInv /\ HistoryType /\ RestoreInv
  BY DEF TypeInv
<1>2. p.amount \in Nat
  BY OrderFacts
<1>3. Pending(m, p) \in Nat /\ Pending(m, p)' \in Nat /\ Pending(m, p)' <= p.amount
  BY <1>2 DEF Pending
<1>4. task'[m] = task[m] => Pending(m, p)' = Pending(m, p)
  BY DEF Pending
<1>5. task'[m].at # "match" => Pending(m, p)' = 0
  BY DEF Pending
<1>6. ASSUME AddTaker(m),
             task'[m] = [at |-> IF Admissible(task[m].order, clock) THEN "match" ELSE "store",
                         order |-> task[m].order]
      PROVE  Pending(m, p)' <= Pending(m, p) \/ Enters(m, p)
  <2>1. CASE task[m].order = p /\ Admissible(task[m].order, clock)
    BY <1>1, <1>6, <2>1, OrdersEnter
  <2>2. CASE task[m].order # p
    <3>1. Pending(m, p)' = 0
      BY <1>6, <2>2 DEF Pending
    <3> QED BY <1>3, <3>1
  <2>3. CASE ~Admissible(task[m].order, clock)
    <3>1. Pending(m, p)' = 0
      BY <1>5, <1>6, <2>3
    <3> QED BY <1>3, <3>1
  <2> QED BY <2>1, <2>2, <2>3
<1>7. MatchTaker(m) => Pending(m, p)' = 0
  <2> SUFFICES ASSUME MatchTaker(m) PROVE Pending(m, p)' = 0
    OBVIOUS
  <2>1. task' = [task EXCEPT ![m] =
                   [at |-> "publish", order |-> task[m].order,
                    trades |-> MatchOutcome(book[m], task[m].order).trades]]
    BY <1>1, MatchSteps
  <2>2. task'[m].at = "publish"
    BY <1>1, <2>1 DEF TaskType
  <2> QED BY <1>5, <2>2
<1>8. Pending(m, p)' <= Pending(m, p) \/ Enters(m, p)
  <2>1. Pending(m, p)' = 0 \/ Pending(m, p)' = Pending(m, p) => Pending(m, p)' <= Pending(m, p)
    BY <1>3
  <2>2. Idle.at # "match"
    BY DEF Idle
  <2>3. \/ task'[m] = task[m]
        \/ task'[m].at # "match"
        \/ /\ AddTaker(m)
           /\ task'[m] = [at |-> IF Admissible(task[m].order, clock) THEN "match" ELSE "store",
                          order |-> task[m].order]
    <3> DEFINE Added == [at |-> IF Admissible(task[m].order, clock) THEN "match" ELSE "store",
                         order |-> task[m].order]
    <3>1. ASSUME NEW o, task'[m] = [at |-> IF m \in MatchNodes THEN "add" ELSE "store", order |-> o]
          PROVE  task'[m].at # "match"
      BY <3>1
    <3>2. ASSUME NEW o, NEW ts, task'[m] = [at |-> "publish", order |-> o, trades |-> ts]
          PROVE  task'[m].at # "match"
      BY <3>2
    <3>3. ASSUME NEW o, NEW ts, task'[m] = [at |-> "record", order |-> o, trades |-> ts]
          PROVE  task'[m].at # "match"
      BY <3>3
    <3>4. \/ task'[m] = task[m]
          \/ \E o : task'[m] = [at |-> IF m \in MatchNodes THEN "add" ELSE "store", order |-> o]
          \/ AddTaker(m) /\ task'[m] = Added
          \/ \E o, ts : task'[m] = [at |-> "publish", order |-> o, trades |-> ts]
          \/ \E o, ts : task'[m] = [at |-> "record", order |-> o, trades |-> ts]
          \/ task'[m] = Idle
      BY Zenon, <1>1, TaskSteps
    <3> HIDE DEF Added
    <3>5. task'[m] = task[m] \/ task'[m].at # "match" \/ (AddTaker(m) /\ task'[m] = Added)
      BY Zenon, <2>2, <3>1, <3>2, <3>3, <3>4
    <3> QED BY Zenon, <3>5 DEF Added
  <2> QED BY <1>4, <1>5, <1>6, <2>1, <2>3
<1> QED BY <1>3, <1>7, <1>8

LEMMA FillsKept ==
    ASSUME TypeInv, FillInv, Next
    PROVE  FillInv'
<1> SUFFICES ASSUME NEW m \in Nodes, NEW p \in Orders PROVE FillsOf(m, p)'
  BY DEF FillInv
<1>1. TaskType /\ RestoreInv /\ HistoryType /\ BookInv
  BY DEF TypeInv
<1>2. /\ made[m] \in Seq(TradeType) /\ copies[m][p.id] \in Nat /\ BookSound(book[m])
      /\ copies[m] \in [OrderIds -> Nat] /\ p.id \in OrderIds
      /\ made \in [Nodes -> Seq(TradeType)] /\ copies \in [Nodes -> [OrderIds -> Nat]]
      /\ book \in [Nodes -> BookType]
  BY <1>1, OrderFacts DEF HistoryType, BookInv
<1>3. FillsAt(made[m], copies[m][p.id], book[m], Pending(m, p), p)
  BY DEF FillInv, FillsOf
<1>4. /\ Pending(m, p) \in Nat /\ Pending(m, p)' \in Nat /\ Pending(m, p)' <= p.amount
      /\ Pending(m, p)' <= Pending(m, p) \/ Enters(m, p)
      /\ MatchTaker(m) => Pending(m, p)' = 0
  BY PendingSteps
<1>5. ASSUME made'[m] = made[m], copies'[m][p.id] = copies[m][p.id],
             Pending(m, p)' <= Pending(m, p),
             \A e \in BookEntries(book'[m]) : e.id = p.id => e \in BookEntries(book[m])
      PROVE  FillsOf(m, p)'
  <2>1. FillsAt(made[m], copies[m][p.id], book'[m], Pending(m, p)', p)
    BY <1>2, <1>3, <1>4, <1>5, FillsShrink
  <2> QED BY Zenon, <1>5, <2>1 DEF FillsOf
<1>6. ASSUME Enters(m, p) PROVE FillsOf(m, p)'
  <2>1. /\ book'[m] = AddOrderToBook(book[m], p) /\ copies'[m][p.id] = copies[m][p.id] + 1
        /\ made'[m] = made[m]
    BY <1>2, <1>6 DEF Enters
  <2>2. Pending(m, p)' <= Pending(m, p) + p.amount
    BY <1>4, OrderFacts
  <2>3. FillsAt(made[m], copies[m][p.id] + 1, AddOrderToBook(book[m], p), Pending(m, p)', p)
    BY <1>2, <1>3, <1>4, <2>2, FillsWithCopy
  <2> QED BY Zenon, <2>1, <2>3 DEF FillsOf
<1>7. ASSUME NEW n \in Nodes, NEW o \in Orders, Enters(n, o), Pending(m, p)' <= Pending(m, p)
      PROVE  FillsOf(m, p)'
  <2>1. CASE n = m /\ o = p
    BY <1>6, <1>7, <2>1
  <2>2. CASE n # m
    <3>1. book'[m] = book[m] /\ copies'[m] = copies[m] /\ made' = made
      BY <1>2, <1>7, <2>2 DEF Enters
    <3> QED BY <1>5, <1>7, <3>1
  <2>3. CASE n = m /\ o # p
    <3>1. o.id # p.id
      BY <2>3, OrdersAssumption
    <3>2. /\ book'[m] = AddOrderToBook(book[m], o) /\ made' = made
          /\ copies'[m][p.id] = copies[m][p.id]
      BY <1>2, <1>7, <2>3, <3>1 DEF Enters
    <3>3. \A e \in BookEntries(book'[m]) : e.id = p.id => e \in BookEntries(book[m])
      BY <1>2, <3>1, <3>2, AddedEntries
    <3> QED BY <1>5, <1>7, <3>2, <3>3
  <2> QED BY <2>1, <2>2, <2>3
<1>8. ASSUME NEW n \in Nodes, MatchTaker(n), Pending(m, p)' <= Pending(m, p)
      PROVE  FillsOf(m, p)'
  <2> DEFINE o == task[n].order
             out == MatchOutcome(book[n], o)
  <2>1. /\ o \in Orders /\ task[n].at = "match"
        /\ book' = [book EXCEPT ![n] = out.book]
        /\ made' = [made EXCEPT ![n] = made[n] \o out.trades]
        /\ copies' = copies
    BY <1>1, <1>8, MatchSteps
  <2>2. CASE n # m
    <3>1. book'[m] = book[m] /\ copies'[m] = copies[m] /\ made'[m] = made[m]
      BY <1>2, <2>1, <2>2
    <3> QED BY <1>5, <1>8, <3>1
  <2>3. CASE n = m
    <3>1. p = o => Pending(m, p) = p.amount
      BY <2>1, <2>3 DEF Pending
    <3>2. /\ book'[m] = out.book /\ made'[m] = made[m] \o out.trades
          /\ copies'[m][p.id] = copies[m][p.id] /\ Pending(m, p)' = 0
      BY <1>2, <1>4, <1>8, <2>1, <2>3
    <3> HIDE DEF o
    <3>3. FillsAt(made[m] \o out.trades, copies[m][p.id], out.book, 0, p)
      BY <1>2, <1>3, <1>4, <2>1, <2>3, <3>1, FillsMatched
    <3> HIDE DEF out
    <3> QED BY Zenon, <3>2, <3>3 DEF FillsOf
  <2> QED BY <2>2, <2>3
<1>9. ASSUME UNCHANGED <<made, copies>>, Pending(m, p)' <= Pending(m, p),
             book' = book \/ \E n \in Nodes : \E b :
                 /\ book' = [book EXCEPT ![n] = b]
                 /\ \A e \in BookEntries(b) : e \in BookEntries(book[n])
      PROVE  FillsOf(m, p)'
  <2>1. \A e \in BookEntries(book'[m]) : e \in BookEntries(book[m])
    <3>1. CASE book' = book
      BY <3>1
    <3>2. ASSUME NEW n \in Nodes, NEW b, book' = [book EXCEPT ![n] = b],
                 \A e \in BookEntries(b) : e \in BookEntries(book[n])
          PROVE  \A e \in BookEntries(book'[m]) : e \in BookEntries(book[m])
      <4>1. book'[m] = IF m = n THEN b ELSE book[m]
        BY <1>2, <3>2
      <4> QED BY <3>2, <4>1
    <3> QED BY <1>9, <3>1, <3>2
  <2> QED BY <1>5, <1>9, <2>1
<1>10. \A n \in Nodes : \A id : \A e \in BookEntries(RemoveOrderFromBook(book[n], id)) :
           e \in BookEntries(book[n])
  BY <1>1, RemovedEntries DEF BookInv
<1>11. \A n \in Nodes : \A e \in BookEntries(EmptyBook) : e \in BookEntries(book[n])
  BY EmptyBookSound
<1>12. CASE Pending(m, p)' <= Pending(m, p)
  <2>1. ASSUME UNCHANGED <<made, copies>>, book' = book PROVE FillsOf(m, p)'
    BY <1>9, <1>12, <2>1
  <2>2. ASSUME UNCHANGED <<made, copies>>, NEW n \in Nodes, NEW id,
               book' = [book EXCEPT ![n] = RemoveOrderFromBook(book[n], id)]
        PROVE  FillsOf(m, p)'
    BY <1>9, <1>10, <1>12, <2>2
  <2>3. ASSUME UNCHANGED <<made, copies>>, NEW n \in Nodes, book' = [book EXCEPT ![n] = EmptyBook]
        PROVE  FillsOf(m, p)'
    BY <1>9, <1>11, <1>12, <2>3
  <2> QED BY Zenon, <1>1, <1>7, <1>8, <1>12, <2>1, <2>2, <2>3, BookSteps
<1> QED BY <1>4, <1>6, <1>12

(* However often an order is delivered, restored or matched, an engine      *)
(* sells it over, in either role, at most once per copy it put on the book. *)
THEOREM FillsBounded == Spec => []FillsBoundedByCopies
<1>1. Init => TypeInv /\ FillInv
  BY InitTypes, InitFills
<1>2. TypeInv /\ FillInv /\ [Next]_vars => (TypeInv /\ FillInv)'
  <2> SUFFICES ASSUME TypeInv, FillInv, [Next]_vars PROVE TypeInv' /\ FillInv'
    OBVIOUS
  <2>1. TypeInv'
    BY TypesKept
  <2>2. CASE UNCHANGED vars
    <3>1. FillInv' <=> FillInv
      BY <2>2 DEF vars, FillInv, FillsOf, Pending
    <3> QED BY <2>1, <3>1
  <2> QED BY <2>1, <2>2, FillsKept
<1>3. TypeInv /\ FillInv => FillsBoundedByCopies
  <2> SUFFICES ASSUME TypeInv, FillInv, NEW n \in MatchNodes, NEW o \in Orders
               PROVE  /\ AsMaker(n, o.id) <= o.amount * copies[n][o.id]
                      /\ AsTaker(n, o.id) <= o.amount * copies[n][o.id]
    BY DEF FillsBoundedByCopies
  <2>1. n \in Nodes /\ HistoryType
    BY DEF Nodes, TypeInv
  <2>2. made[n] \in Seq(TradeType) /\ copies[n][o.id] \in Nat /\ o.amount \in Nat
    BY <2>1, OrderFacts DEF HistoryType
  <2> DEFINE w == o.amount * copies[n][o.id]
  <2>3. Sold(made[n], o.id) <= w /\ Bought(made[n], o.id) + Pending(n, o) <= w
    BY <2>1 DEF FillInv, FillsOf, FillsAt
  <2>4. w \in Nat /\ Bought(made[n], o.id) \in Nat /\ Pending(n, o) \in Nat
    BY <2>2, SoldNat DEF Pending
  <2> HIDE DEF w
  <2>5. Sold(made[n], o.id) <= w /\ Bought(made[n], o.id) <= w
    BY <2>3, <2>4
  <2> QED BY <2>5, SoldIsAsMaker DEF w
<1> QED BY <1>1, <1>2, <1>3, PTL DEF Spec

-----------------------------------------------------------------------------
(* Orders stay placed, as long as no side overflows and the node is up.     *)
LEMMA SoldGrows ==
    ASSUME NEW ts \in Seq(TradeType), NEW new \in Seq(TradeType), NEW id
    PROVE  Sold(ts, id) <= Sold(ts \o new, id)
<1> DEFINE all == ts \o new
           S == MakerAt(ts, id)
           T == MakerAt(all, id)
<1>1. /\ all \in Seq(TradeType) /\ Len(all) = Len(ts) + Len(new)
      /\ \A i \in 1 .. Len(ts) : all[i] = ts[i]
  BY Concatenation
<1>2. /\ DOMAIN ts = 1 .. Len(ts) /\ DOMAIN all = 1 .. Len(all)
      /\ Len(ts) \in Nat /\ Len(new) \in Nat
  BY <1>1, AmountsAreNat
<1> HIDE DEF all
<1>3. S \subseteq 1 .. Len(ts) /\ T \subseteq 1 .. Len(all)
  BY <1>2 DEF MakerAt
<1>4. S \subseteq T
  <2> SUFFICES ASSUME NEW k \in S PROVE k \in T
    OBVIOUS
  <2>1. k \in 1 .. Len(ts) /\ ts[k].maker = id
    BY <1>2 DEF MakerAt
  <2>2. k \in 1 .. Len(all) /\ all[k] = ts[k]
    BY <1>1, <1>2, <2>1
  <2> QED BY <1>2, <2>1, <2>2 DEF MakerAt
<1>5. SumFunctionOnSet(Amounts(all), S) = Sold(ts, id)
  BY <1>3, EarlierAmounts DEF Sold, all
<1>6. IsFiniteSet(T)
  BY <1>1, <1>3, SumOfAmountsNat
<1>7. \A x \in T : Amounts(all)[x] \in Nat
  BY <1>1, <1>3, AmountsAreNat
<1> HIDE DEF S, T
<1>8. SumFunctionOnSet(Amounts(all), S) <= SumFunctionOnSet(Amounts(all), T)
  BY <1>4, <1>6, <1>7, SumSubset
<1> QED BY <1>5, <1>8 DEF Sold, T, all

LEMMA StaysPlaced ==
    ASSUME TypeInv, FillInv, RoomForAll, Next, NEW n \in Nodes, NEW o \in Orders,
           Placed(n, o), ~Crash(n)
    PROVE  Placed(n, o)'
<1>1. /\ TaskType /\ RestoreInv /\ HistoryType /\ BookInv /\ NetworkType /\ MailType
      /\ NetworkType'
  BY TypesKept DEF TypeInv
<1>2. /\ made[n] \in Seq(TradeType) /\ BookSound(book[n]) /\ o.id \in OrderIds
      /\ o.amount \in Nat /\ o.expiresAt \in Nat
      /\ made \in [Nodes -> Seq(TradeType)] /\ book \in [Nodes -> BookType]
  BY <1>1, OrderFacts DEF HistoryType, BookInv, OrderType
<1>3. CASE Expired(o, clock)
  <2>1. clock' = clock \/ clock' = clock + 1
    BY StepIs, Frames DEF Tick
  <2>2. clock \in Nat
    BY <1>1, BoundsAssumption DEF NetworkType
  <2>3. Expired(o, clock')
    BY <1>2, <1>3, <2>1, <2>2 DEF Expired
  <2> QED BY <2>3 DEF Placed, Expired
<1>4. CASE o.id \in cancelled
  <2>1. \A id : PostCancel(id) => cancelled \subseteq cancelled'
    BY DEF PostCancel
  <2>2. cancelled \subseteq cancelled'
    BY <2>1, StepIs, Frames
  <2> QED BY <1>4, <2>2 DEF Placed
<1>5. made'[n] = made[n] \/ \E new \in Seq(TradeType) : made'[n] = made[n] \o new
  <2>1. ASSUME NEW k \in Nodes, MatchTaker(k)
        PROVE  made'[n] = made[n] \/ \E new \in Seq(TradeType) : made'[n] = made[n] \o new
    <3>1. PICK new \in Seq(TradeType) : made' = [made EXCEPT ![k] = made[k] \o new]
      BY <1>1, <2>1, MatchSteps
    <3> QED BY <1>2, <3>1
  <2>2. \A k : \A p : Enters(k, p) => made' = made
    BY DEF Enters
  <2> QED BY <1>1, <2>1, <2>2, BookSteps
<1>6. CASE Sold(made[n], o.id) >= o.amount
  <2>1. Sold(made[n], o.id) <= Sold(made'[n], o.id)
    <3>1. Sold(made[n], o.id) \in Nat
      BY <1>2, SoldNat
    <3>2. \A new \in Seq(TradeType) : Sold(made[n], o.id) <= Sold(made[n] \o new, o.id)
      BY <1>2, SoldGrows
    <3>3. CASE made'[n] = made[n]
      BY <3>1, <3>3
    <3>4. ASSUME NEW new \in Seq(TradeType), made'[n] = made[n] \o new
          PROVE  Sold(made[n], o.id) <= Sold(made'[n], o.id)
      BY <3>2, <3>4
    <3> QED BY <1>5, <3>3, <3>4
  <2>2. Sold(made[n], o.id) \in Nat /\ Sold(made'[n], o.id) \in Nat
    <3>1. made'[n] \in Seq(TradeType)
      BY TypesKept DEF TypeInv, HistoryType
    <3> QED BY <1>2, <3>1, SoldNat
  <2> QED BY <1>2, <1>6, <2>1, <2>2 DEF Placed
<1>7. ASSUME NEW e \in BookEntries(book[n]), e.id = o.id PROVE Placed(n, o)'
  <2>1. ASSUME NEW x \in BookEntries(book'[n]), x.id = o.id PROVE Placed(n, o)'
    BY <2>1 DEF Placed
  <2>2. ASSUME book'[n] = book[n] PROVE Placed(n, o)'
    BY <1>7, <2>1, <2>2
  <2>3. ASSUME NEW k \in Nodes, NEW p \in Orders, Enters(k, p) PROVE Placed(n, o)'
    <3>1. CASE k # n
      BY <1>2, <2>2, <2>3, <3>1 DEF Enters
    <3>2. CASE k = n
      <4>1. book'[n] = AddOrderToBook(book[n], p)
        BY <1>2, <2>3, <3>2 DEF Enters
      <4>2. BookEntries(book'[n]) = {f \in BookEntries(book[n]) : f.id # p.id} \cup {p}
        BY <1>2, <4>1, AddedEntries DEF RoomForAll
      <4>3. CASE p = o
        BY <2>1, <4>2, <4>3
      <4>4. CASE p # o
        <5>1. e.id # p.id
          BY <1>7, <4>4, OrdersAssumption
        <5> QED BY <1>7, <2>1, <4>2, <5>1
      <4> QED BY <4>3, <4>4
    <3> QED BY <3>1, <3>2
  <2>4. ASSUME NEW k \in Nodes, MatchTaker(k) PROVE Placed(n, o)'
    <3> DEFINE p == task[k].order
               out == MatchOutcome(book[k], p)
    <3>1. /\ p \in Orders /\ book' = [book EXCEPT ![k] = out.book]
          /\ made' = [made EXCEPT ![k] = made[k] \o out.trades]
      BY <1>1, <2>4, MatchSteps
    <3>2. CASE k # n
      BY <1>2, <2>2, <3>1, <3>2
    <3>3. CASE k = n
      <4>1. book'[n] = out.book /\ made'[n] = made[n] \o out.trades
        BY <1>2, <3>1, <3>3
      <4>2. CASE \A x \in BookEntries(out.book) : x.id # e.id
        <5>1. BookSound(book[k]) /\ made[k] \in Seq(TradeType) /\ e \in BookEntries(book[k])
          BY <1>2, <3>3
        <5> HIDE DEF p
        <5>2. Sold(made[k] \o out.trades, e.id) = Sold(made[k], e.id) + Left(e)
          BY <3>1, <4>2, <5>1, MatchBook
        <5>3. o.amount <= Sold(made[n], o.id) + Left(e)
          BY <1>7 DEF FillInv, FillsOf, FillsAt
        <5>4. /\ Sold(made[n], o.id) \in Nat /\ Left(e) \in Nat
              /\ Sold(made'[n], o.id) = Sold(made[n], o.id) + Left(e)
          <6> HIDE DEF out
          <6>1. Left(e) \in Nat
            BY <1>2, BookEntriesHaveType
          <6> QED BY <1>2, <1>7, <3>3, <4>1, <5>2, <6>1, SoldNat
        <5>5. Sold(made'[n], o.id) >= o.amount
          BY <1>2, <5>3, <5>4
        <5> QED BY <5>5 DEF Placed
      <4>3. ASSUME NEW x \in BookEntries(out.book), x.id = e.id PROVE Placed(n, o)'
        <5> HIDE DEF out
        <5> QED BY <1>7, <2>1, <4>1, <4>3
      <4> QED BY <4>2, <4>3
    <3> QED BY <3>2, <3>3
  <2>5. ASSUME NEW k \in Nodes, NEW id \in Cancellable, OnCancelOrder(k, id),
               book' = [book EXCEPT ![k] = RemoveOrderFromBook(book[k], id)]
        PROVE  Placed(n, o)'
    <3>1. CASE k # n
      BY <1>2, <2>2, <2>5, <3>1
    <3>2. CASE k = n /\ id = o.id
      <4>1. id \in cancelled'
        BY <1>1, <2>5 DEF MailType, OnCancelOrder
      <4> QED BY <3>2, <4>1 DEF Placed
    <3>3. CASE k = n /\ id # o.id
      <4>1. book'[n] = RemoveOrderFromBook(book[n], id)
        BY <1>2, <2>5, <3>3
      <4>2. e \in BookEntries(book'[n])
        BY <1>2, <1>7, <3>3, <4>1, RemovedEntries
      <4> QED BY <1>7, <2>1, <4>2
    <3> QED BY <3>1, <3>2, <3>3
  <2>6. ASSUME NEW k \in Nodes, Crash(k), book' = [book EXCEPT ![k] = EmptyBook]
        PROVE  Placed(n, o)'
    <3>1. k # n
      BY <2>6
    <3>2. book'[n] = book[n]
      BY <1>2, <2>6, <3>1
    <3> QED BY <2>2, <3>2
  <2> QED BY Zenon, <1>1, <2>2, <2>3, <2>4, <2>5, <2>6, BookSteps
<1> QED BY <1>3, <1>4, <1>6, <1>7 DEF Placed

LEMMA OpenBefore ==
    ASSUME TypeInv, Next, NEW n \in Nodes, NEW o \in Orders, IsOpen(orderRows'[n][o.id])
    PROVE  IsOpen(orderRows[n][o.id]) \/ (StoreOrder(n) /\ task[n].order = o)
<1>1. RowInv /\ TaskType
  BY DEF TypeInv
<1>2. orderRows \in [Nodes -> [OrderIds -> OrderType \cup {NoRow}]] /\ o.id \in OrderIds
  BY <1>1, OrderFacts DEF RowInv
<1>3. ASSUME NEW k \in Nodes, StoreOrder(k)
      PROVE  IsOpen(orderRows[n][o.id]) \/ (StoreOrder(n) /\ task[n].order = o)
  <2> DEFINE p == task[k].order
  <2>1. p \in Orders /\ p.id \in OrderIds
    BY <1>1, <1>3, HandlerTasks, OrderFacts
  <2>2. orderRows' = [orderRows EXCEPT ![k] = [orderRows[k] EXCEPT ![p.id] = p]]
    BY <1>3 DEF StoreOrder
  <2> HIDE DEF p
  <2>3. CASE k = n /\ p = o
    BY <1>3, <2>3 DEF p
  <2>4. CASE k # n
    <3>1. orderRows'[n] = orderRows[n]
      BY <1>2, <2>2, <2>4
    <3> QED BY <3>1
  <2>5. CASE k = n /\ p # o
    <3>1. p.id # o.id
      BY <2>1, <2>5, OrdersAssumption
    <3>2. orderRows'[n][o.id] = orderRows[n][o.id]
      BY <1>2, <2>2, <2>5, <3>1
    <3> QED BY <3>2
  <2> QED BY <2>3, <2>4, <2>5
<1>4. ASSUME NEW k \in Nodes, MarkCancelled(k) PROVE IsOpen(orderRows[n][o.id])
  <2> DEFINE id == cancelling[k]
             row == orderRows[k][id]
  <2>1. CASE row = NoRow
    <3>1. orderRows' = orderRows
      BY <1>4, <2>1 DEF MarkCancelled
    <3> QED BY <3>1
  <2>2. CASE row # NoRow
    <3>1. id \in OrderIds
      BY <1>1, <1>4, CancellableAssumption DEF TaskType, MarkCancelled
    <3> DEFINE new == [row EXCEPT !.status = "cancelled"]
    <3>2. orderRows' = [orderRows EXCEPT ![k] = [orderRows[k] EXCEPT ![id] = new]]
      BY <1>4, <2>2 DEF MarkCancelled
    <3>3. row \in OrderType
      BY <1>2, <2>2, <3>1
    <3>4. new.status = "cancelled"
      BY <3>3 DEF OrderType
    <3> HIDE DEF new, id, row
    <3>5. CASE k = n /\ id = o.id
      <4>1. orderRows'[n][o.id] = new
        BY <1>2, <3>1, <3>2, <3>5
      <4> QED BY <3>4, <4>1 DEF IsOpen
    <3>6. CASE k # n
      <4>1. orderRows'[n] = orderRows[n]
        BY <1>2, <3>2, <3>6
      <4> QED BY <4>1
    <3>7. CASE k = n /\ id # o.id
      <4>1. orderRows'[n][o.id] = orderRows[n][o.id]
        BY <1>2, <3>2, <3>7
      <4> QED BY <4>1
    <3> QED BY <3>5, <3>6, <3>7
  <2> QED BY <2>1, <2>2
<1> QED BY Zenon, <1>3, <1>4, StepIs, Frames

LEMMA InitPlaced ==
    ASSUME Init
    PROVE  PlacedInv
<1> SUFFICES ASSUME NEW n \in MatchNodes
             PROVE  /\ task[n].at = "idle"
                    /\ \A o \in Orders : orderRows[n][o.id] = NoRow
  BY Zenon DEF PlacedInv, IsOpen, Init, Idle
<1> QED BY OrderFacts DEF Init, Idle, Nodes

LEMMA PlacedTask ==
    ASSUME TypeInv, FillInv, PlacedInv, RoomForAll, Next, NEW n \in MatchNodes,
           task'[n].at \in {"match", "publish", "record", "store"},
           NEW o \in Orders, o = task'[n].order
    PROVE  Placed(n, o)'
<1>1. /\ TaskType /\ RestoreInv /\ HistoryType /\ BookInv /\ n \in Nodes
      /\ book \in [Nodes -> BookType]
  BY DEF TypeInv, Nodes, BookInv
<1>2. ~Crash(n)
  <2> SUFFICES ASSUME Crash(n) PROVE FALSE
    OBVIOUS
  <2>1. task'[n] = Idle
    BY <1>1 DEF Crash, TaskType
  <2> QED BY <2>1 DEF Idle
<1>3. ASSUME task[n].at \in {"match", "publish", "record", "store"}, task[n].order = o
      PROVE  Placed(n, o)'
  <2>1. Placed(n, o)
    BY <1>3 DEF PlacedInv
  <2> QED BY <1>1, <1>2, <2>1, StaysPlaced
<1>4. CASE task'[n] = task[n]
  BY <1>3, <1>4
<1>5. ASSUME NEW p, task'[n] = [at |-> IF n \in MatchNodes THEN "add" ELSE "store", order |-> p]
      PROVE  FALSE
  BY <1>5
<1>6. ASSUME AddTaker(n),
             task'[n] = [at |-> IF Admissible(task[n].order, clock) THEN "match" ELSE "store",
                         order |-> task[n].order]
      PROVE  Placed(n, o)'
  <2>1. task[n].order = o
    BY <1>6
  <2>2. CASE Admissible(o, clock)
    <3>1. Enters(n, o)
      BY <1>1, <1>6, <2>1, <2>2, OrdersEnter
    <3>2. book'[n] = AddOrderToBook(book[n], o) /\ BookSound(book[n])
      BY <1>1, <3>1 DEF Enters, BookInv
    <3>3. o \in BookEntries(book'[n])
      BY <3>2, AddedEntries
    <3> QED BY <3>3 DEF Placed
  <2>3. CASE ~Admissible(o, clock)
    <3>1. Expired(o, clock)
      BY <2>3, OrderFacts DEF Admissible
    <3>2. clock' = clock
      BY <1>6, Frames
    <3> QED BY <3>1, <3>2 DEF Placed, Expired
  <2> QED BY <2>2, <2>3
<1>7. ASSUME MatchTaker(n) \/ PublishTrade(n) \/ RecordTrade(n),
             NEW a, NEW ts, task'[n] = [at |-> a, order |-> task[n].order, trades |-> ts]
      PROVE  Placed(n, o)'
  <2>1. task[n].at \in {"match", "publish", "record"}
    BY <1>7 DEF MatchTaker, PublishTrade, RecordTrade
  <2>2. task[n].order = o
    BY <1>7
  <2> QED BY <1>3, <2>1, <2>2
<1>8. task'[n] # Idle
  BY DEF Idle
<1> QED BY Zenon, <1>1, <1>4, <1>5, <1>6, <1>7, <1>8, TaskSteps

(* Of rows that a LIMIT cut, as many were taken as it allows.               *)
LEMMA CutAtLimit ==
    ASSUME NEW rows, IsFiniteSet(rows), NEW chosen \in SUBSET rows, NEW k \in Nat,
           Cardinality(chosen) = SmallerOf(k, Cardinality(rows)), NEW r \in rows \ chosen
    PROVE  Cardinality(chosen) = k
<1>1. Cardinality(rows) \in Nat
  BY FS_CardinalityType
<1>2. Cardinality(chosen) # Cardinality(rows)
  BY FS_Subset
<1> QED BY <1>1, <1>2 DEF SmallerOf

(* An open row that a pass of the restore leaves out is outnumbered.        *)
LEMMA LeftOut ==
    ASSUME RowInv, IsFiniteSet(Orders), NEW n \in Nodes, NEW o \in OpenRows(n),
           NEW rows \in SUBSET OpenRows(n), ListOrdersOpenByPair(rows, OpenRows(n)), o \notin rows
    PROVE  Outnumbered(n, o)
<1> DEFINE open == OpenRows(n)
           L == RestoreLimit
           others == {p \in Orders \ {o} : orderRows[n][p.id] # NoRow}
<1>1. /\ open \subseteq Orders /\ \A p \in open : orderRows[n][p.id] # NoRow
      /\ IsFiniteSet(open) /\ IsFiniteSet(others) /\ o \in Orders
  BY OpenRowsAreOrders, FS_Subset
<1>2. L \in Nat /\ 2 * L \in Nat
  BY RestoreLimitAssumption
<1>3. \A p \in Orders : p.createdAt \in Nat
  BY OrderFacts DEF OrderType
<1>4. PICK read \in SUBSET open :
          /\ Cardinality(read) = SmallerOf(2 * L, Cardinality(open))
          /\ \A c \in read, r \in open \ read : ~Older(r, c)
          /\ rows \subseteq read
          /\ \A side \in Sides :
                /\ OfSide(rows, side) \subseteq OfSide(read, side)
                /\ Cardinality(OfSide(rows, side)) =
                      SmallerOf(L, Cardinality(OfSide(read, side)))
                /\ \A c \in OfSide(rows, side), r \in OfSide(read, side) \ OfSide(rows, side) :
                      ~Ahead(r, c)
  BY DEF ListOrdersOpenByPair, FirstRows
<1> HIDE DEF open, L, others
<1>5. CASE o \notin read
  <2> DEFINE A == {p \in others : p.createdAt <= o.createdAt}
  <2>1. o \in open \ read
    BY <1>5 DEF open
  <2>2. Cardinality(read) = 2 * L
    BY <1>1, <1>2, <1>4, <2>1, CutAtLimit
  <2>3. ASSUME NEW c \in read PROVE c \in A
    <3>1. ~Older(o, c) /\ c \in Orders /\ c # o /\ orderRows[n][c.id] # NoRow
      BY <1>1, <1>4, <2>1
    <3>2. c.createdAt <= o.createdAt
      BY <1>1, <1>3, <3>1 DEF Older
    <3> QED BY <3>1, <3>2 DEF others
  <2>4. IsFiniteSet(A) /\ read \in SUBSET A
    BY <1>1, <2>3, FS_Subset
  <2>5. Cardinality(read) <= Cardinality(A)
    BY <2>4, FS_Subset
  <2> HIDE DEF A
  <2>6. Cardinality(A) >= 2 * L
    BY <1>2, <2>2, <2>4, <2>5, FS_CardinalityType
  <2> QED BY <2>6 DEF Outnumbered, A, others, L
<1>6. CASE o \in read
  <2> DEFINE s == o.side
             C == OfSide(rows, s)
             R == OfSide(read, s)
             A == {p \in OfSide(others, s) : ~Ahead(o, p)}
  <2>1. s \in Sides /\ o \in R \ C
    BY <1>1, <1>6, OrderFacts DEF OfSide, OrderType
  <2>2. IsFiniteSet(R) /\ C \in SUBSET R
    <3>1. R \in SUBSET open
      BY <1>4 DEF OfSide
    <3> QED BY <1>1, <1>4, <2>1, <3>1, FS_Subset
  <2>3. /\ Cardinality(C) = SmallerOf(L, Cardinality(R))
        /\ \A c \in C, r \in R \ C : ~Ahead(r, c)
    BY <1>4, <2>1
  <2>4. Cardinality(C) = L
    <3> HIDE DEF C, R
    <3> QED BY <1>2, <2>1, <2>2, <2>3, CutAtLimit
  <2>5. ASSUME NEW c \in C PROVE c \in A
    <3>1. ~Ahead(o, c)
      BY <2>1, <2>3
    <3>2. c \in open /\ c.side = s /\ c # o
      BY <1>4, <2>1 DEF OfSide
    <3> QED BY <1>1, <3>1, <3>2 DEF others, OfSide
  <2>6. IsFiniteSet(A) /\ C \in SUBSET A
    <3>1. A \in SUBSET others
      BY DEF OfSide
    <3> QED BY <1>1, <2>5, <3>1, FS_Subset
  <2> HIDE DEF A, C, R
  <2>7. Cardinality(C) <= Cardinality(A) /\ Cardinality(A) \in Nat
    BY <2>6, FS_Subset, FS_CardinalityType
  <2>8. Cardinality(A) >= L
    BY <1>2, <2>4, <2>7
  <2> QED BY <2>8 DEF Outnumbered, A, others, L
<1> QED BY <1>5, <1>6

(* Rows are never deleted, so what was outnumbered stays so.                *)
LEMMA RowsStay ==
    ASSUME TypeInv, Next, NEW n \in Nodes, NEW i \in OrderIds, orderRows[n][i] # NoRow
    PROVE  orderRows'[n][i] # NoRow
<1>1. /\ RowInv /\ TaskType
      /\ orderRows \in [Nodes -> [OrderIds -> OrderType \cup {NoRow}]]
  BY DEF TypeInv, RowInv
<1>2. ASSUME NEW k \in Nodes, NEW id \in OrderIds, NEW row \in OrderType,
             orderRows' = [orderRows EXCEPT ![k] = [orderRows[k] EXCEPT ![id] = row]]
      PROVE  orderRows'[n][i] # NoRow
  <2>1. CASE k # n
    <3>1. orderRows'[n] = orderRows[n]
      BY <1>1, <1>2, <2>1
    <3> QED BY <3>1
  <2>2. CASE k = n
    <3>1. orderRows'[n] = [orderRows[n] EXCEPT ![id] = row]
      BY <1>1, <1>2, <2>2
    <3>2. orderRows'[n][i] = IF i = id THEN row ELSE orderRows[n][i]
      BY <1>1, <3>1
    <3> QED BY <1>2, <3>2, NoRowAssumption
  <2> QED BY <2>1, <2>2
<1>3. ASSUME NEW k \in Nodes, StoreOrder(k) PROVE orderRows'[n][i] # NoRow
  <2> DEFINE p == task[k].order
  <2>1. p \in OrderType /\ p.id \in OrderIds
    BY <1>1, <1>3, HandlerTasks, OrderFacts
  <2>2. orderRows' = [orderRows EXCEPT ![k] = [orderRows[k] EXCEPT ![p.id] = p]]
    BY <1>3 DEF StoreOrder
  <2> HIDE DEF p
  <2> QED BY <1>2, <2>1, <2>2
<1>4. ASSUME NEW k \in Nodes, MarkCancelled(k) PROVE orderRows'[n][i] # NoRow
  <2> DEFINE id == cancelling[k]
             row == orderRows[k][id]
             new == [row EXCEPT !.status = "cancelled"]
  <2>1. CASE row = NoRow
    <3>1. orderRows' = orderRows
      BY <1>4, <2>1 DEF MarkCancelled
    <3> QED BY <3>1
  <2>2. CASE row # NoRow
    <3>1. id \in OrderIds
      BY <1>1, <1>4, CancellableAssumption DEF TaskType, MarkCancelled
    <3>2. orderRows' = [orderRows EXCEPT ![k] = [orderRows[k] EXCEPT ![id] = new]]
      BY <1>4, <2>2 DEF MarkCancelled
    <3>3. row \in OrderType
      BY <1>1, <2>2, <3>1
    <3> HIDE DEF id, row
    <3>4. new \in OrderType
      BY <3>3 DEF OrderType, Statuses
    <3> HIDE DEF new
    <3> QED BY <1>2, <3>1, <3>2, <3>4
  <2> QED BY <2>1, <2>2
<1> QED BY Zenon, <1>3, <1>4, StepIs, Frames

LEMMA StaysOutnumbered ==
    ASSUME TypeInv, IsFiniteSet(Orders), Next, NEW n \in Nodes, NEW o \in Orders,
           Outnumbered(n, o)
    PROVE  Outnumbered(n, o)'
<1> DEFINE Has(f) == {p \in Orders \ {o} : f[p.id] # NoRow}
           Old(f) == {p \in Has(f) : p.createdAt <= o.createdAt}
           Near(f) == {p \in OfSide(Has(f), o.side) : ~Ahead(o, p)}
           f0 == orderRows[n]
           f1 == orderRows'[n]
<1>1. Has(f0) \subseteq Has(f1)
  BY OrderFacts, RowsStay
<1>2. /\ Old(f0) \in SUBSET Old(f1) /\ Near(f0) \in SUBSET Near(f1)
      /\ Old(f1) \in SUBSET Orders /\ Near(f1) \in SUBSET Orders
  BY <1>1 DEF OfSide
<1>3. /\ Cardinality(Old(f0)) >= 2 * RestoreLimit \/ Cardinality(Near(f0)) >= RestoreLimit
  BY DEF Outnumbered
<1> HIDE DEF Has, Old, Near, f0, f1
<1>4. IsFiniteSet(Old(f1)) /\ IsFiniteSet(Near(f1))
  BY <1>2, FS_Subset
<1>5. /\ Cardinality(Old(f0)) <= Cardinality(Old(f1))
      /\ Cardinality(Near(f0)) <= Cardinality(Near(f1))
      /\ IsFiniteSet(Old(f0)) /\ IsFiniteSet(Near(f0))
  BY <1>2, <1>4, FS_Subset
<1>6. /\ Cardinality(Old(f0)) \in Nat /\ Cardinality(Old(f1)) \in Nat
      /\ Cardinality(Near(f0)) \in Nat /\ Cardinality(Near(f1)) \in Nat
      /\ RestoreLimit \in Nat
  BY <1>4, <1>5, FS_CardinalityType, RestoreLimitAssumption
<1>7. Cardinality(Old(f1)) >= 2 * RestoreLimit \/ Cardinality(Near(f1)) >= RestoreLimit
  BY <1>3, <1>5, <1>6
<1> QED BY <1>7 DEF Outnumbered, Old, Near, Has, f1

(* What a node still has to restore changes only with its own steps.        *)
LEMMA RestoreSteps ==
    ASSUME TypeInv, Next, NEW n \in Nodes
    PROVE  \/ restore'[n] = restore[n]
           \/ \E rows \in SUBSET OpenRows(n) :
                 /\ ListOrdersOpenByPair(rows, OpenRows(n))
                 /\ restore'[n].rows = rows
           \/ \E row \in restore[n].rows :
                 RestoreOne(n, row) /\ restore'[n].rows = restore[n].rows \ {row}
           \/ Crash(n)
           \/ Restart(n) /\ (n \in MatchNodes => restore'[n].passes = 2)
<1>1. restore \in [Nodes -> [passes : 0 .. 2, rows : SUBSET Orders]]
  BY DEF TypeInv, RestoreInv
<1>2. ASSUME NEW k \in Nodes, RestoreList(k)
      PROVE  \/ restore'[n] = restore[n]
             \/ \E rows \in SUBSET OpenRows(n) :
                   /\ ListOrdersOpenByPair(rows, OpenRows(n))
                   /\ restore'[n].rows = rows
  <2>1. PICK rows \in SUBSET OpenRows(k) :
            /\ ListOrdersOpenByPair(rows, OpenRows(k))
            /\ restore' = [restore EXCEPT ![k] =
                              [passes |-> restore[k].passes - 1, rows |-> rows]]
    BY <1>2 DEF RestoreList
  <2>2. CASE k # n
    BY <1>1, <2>1, <2>2
  <2>3. CASE k = n
    <3>1. restore'[n].rows = rows
      BY <1>1, <2>1, <2>3
    <3> QED BY <2>1, <2>3, <3>1
  <2> QED BY <2>2, <2>3
<1>5. ASSUME NEW k \in Nodes, Crash(k) PROVE restore'[n] = restore[n] \/ Crash(n)
  <2>1. CASE k # n
    BY <1>1, <1>5, <2>1 DEF Crash
  <2>2. CASE k = n
    BY <1>5, <2>2
  <2> QED BY <2>1, <2>2
<1>3. ASSUME NEW k \in Nodes, NEW row \in restore[k].rows, RestoreOne(k, row)
      PROVE  \/ restore'[n] = restore[n]
             \/ \E r \in restore[n].rows :
                   RestoreOne(n, r) /\ restore'[n].rows = restore[n].rows \ {r}
  <2>1. restore' = [restore EXCEPT ![k] = [restore[k] EXCEPT !.rows = restore[k].rows \ {row}]]
    BY <1>3 DEF RestoreOne
  <2>2. CASE k # n
    BY <1>1, <2>1, <2>2
  <2>3. CASE k = n
    <3>1. restore'[n].rows = restore[n].rows \ {row}
      BY <1>1, <2>1, <2>3
    <3> QED BY <1>3, <2>3, <3>1
  <2> QED BY <2>2, <2>3
<1>4. ASSUME NEW k \in Nodes, Restart(k)
      PROVE  \/ restore'[n] = restore[n]
             \/ Restart(n) /\ (n \in MatchNodes => restore'[n].passes = 2)
  <2>1. restore' = [restore EXCEPT ![k] =
                       [restore[k] EXCEPT !.passes = IF k \in MatchNodes THEN 2 ELSE 0]]
    BY <1>4 DEF Restart
  <2>2. CASE k # n
    BY <1>1, <2>1, <2>2
  <2>3. CASE k = n
    <3>1. restore'[n].passes = IF n \in MatchNodes THEN 2 ELSE 0
      BY <1>1, <2>1, <2>3
    <3> QED BY <1>4, <2>3, <3>1
  <2> QED BY <2>2, <2>3
<1> QED BY Zenon, <1>2, <1>3, <1>4, <1>5, StepIs, Frames

LEMMA PlacedKept ==
    ASSUME TypeInv, FillInv, PlacedInv, RoomForAll, Next
    PROVE  PlacedInv'
<1> SUFFICES ASSUME NEW n \in MatchNodes, n \in up', NEW o \in Orders, IsOpen(orderRows'[n][o.id])
             PROVE  \/ Placed(n, o)'
                    \/ restore'[n].passes > 0
                    \/ o \in restore'[n].rows
                    \/ Outnumbered(n, o)'
  <2>1. ASSUME NEW n \in MatchNodes, task'[n].at \in {"match", "publish", "record", "store"}
        PROVE  Placed(n, task[n].order)'
    <3> DEFINE o == task'[n].order
    <3>1. o \in Orders
      <4>1. TaskType'
        BY TypesKept DEF TypeInv
      <4>2. \A m \in Nodes : task'[m] \in Tasks
        BY <4>1 DEF TaskType
      <4>3. task'[n] \in Tasks
        BY <4>2 DEF Nodes
      <4> QED BY <2>1, <4>3 DEF Tasks, Idle
    <3> HIDE DEF o
    <3>2. PICK p \in Orders : p = o
      BY <3>1
    <3>3. Placed(n, p)'
      BY <2>1, <3>2, PlacedTask DEF o
    <3> QED BY <3>2, <3>3 DEF o, Placed
  <2> QED BY <2>1 DEF PlacedInv, IsOpen, Outnumbered
<1>1. TypeInv' /\ RowInv /\ TaskType /\ RestoreInv /\ RestoreInv' /\ n \in Nodes /\ NetworkType
      /\ BookInv
  BY TypesKept DEF TypeInv, Nodes
<1>2. ~Crash(n)
  BY DEF Crash
<1>3. Placed(n, o) => Placed(n, o)'
  BY <1>1, <1>2, StaysPlaced
<1>7. IsFiniteSet(Orders) /\ (Outnumbered(n, o) => Outnumbered(n, o)')
  BY <1>1, StaysOutnumbered DEF RoomForAll
<1>4. CASE Restart(n)
  <2>1. restore'[n].passes = 2
    BY <1>1, <1>4 DEF Restart, RestoreInv
  <2> QED BY <2>1
<1>5. CASE StoreOrder(n) /\ task[n].order = o
  <2>1. task[n].at \in {"store", "publish"}
    BY <1>5 DEF StoreOrder
  <2> QED BY <1>3, <1>5, <2>1 DEF PlacedInv
<1>6. CASE ~Restart(n) /\ IsOpen(orderRows[n][o.id])
  <2>1. n \in up
    <3>1. \A k \in Nodes : Restart(k) => k # n
      BY <1>6
    <3>2. \A k : Restart(k) => up' = up \cup {k}
      BY DEF Restart
    <3>3. \A k : Crash(k) => up' = up \ {k}
      BY DEF Crash
    <3> QED BY <3>1, <3>2, <3>3, StepIs, Frames
  <2>2. Placed(n, o) \/ restore[n].passes > 0 \/ o \in restore[n].rows \/ Outnumbered(n, o)
    BY <1>6, <2>1 DEF PlacedInv
  <2>3. CASE restore'[n] = restore[n]
    BY <1>3, <1>7, <2>2, <2>3
  <2>4. ASSUME NEW rows \in SUBSET OpenRows(n), ListOrdersOpenByPair(rows, OpenRows(n)),
               restore'[n].rows = rows
        PROVE  o \in restore'[n].rows \/ Outnumbered(n, o)'
    <3>1. o \in OpenRows(n)
      BY <1>1, <1>6, OpenRowsAreOrders
    <3>2. o \notin rows => Outnumbered(n, o)
      BY <1>1, <1>7, <2>4, <3>1, LeftOut
    <3> QED BY <1>7, <2>4, <3>2
  <2>5. ASSUME NEW row \in restore[n].rows, RestoreOne(n, row),
               restore'[n].rows = restore[n].rows \ {row}
        PROVE  \/ Placed(n, o)'
               \/ restore'[n].passes > 0
               \/ o \in restore'[n].rows
               \/ Outnumbered(n, o)'
    <3>1. row \in Orders
      BY <1>1, OrdersEnter
    <3>2. CASE o = row /\ Admissible(o, clock)
      <4>1. Enters(n, o) /\ BookSound(book[n])
        BY <1>1, <2>5, <3>2, OrdersEnter DEF BookInv
      <4>2. book'[n] = AddOrderToBook(book[n], o)
        BY <1>1, <4>1 DEF Enters, BookInv
      <4>3. o \in BookEntries(book'[n])
        BY <4>1, <4>2, AddedEntries
      <4> QED BY <4>3 DEF Placed
    <3>3. CASE o = row /\ ~Admissible(o, clock)
      <4>1. Expired(o, clock)
        BY <3>3, OrderFacts DEF Admissible
      <4>2. Placed(n, o)
        BY <4>1 DEF Placed
      <4> QED BY <1>3, <4>2
    <3>4. CASE o # row
      <4>1. restore'[n].passes = restore[n].passes
        <5>1. restore' =
                [restore EXCEPT ![n] = [restore[n] EXCEPT !.rows = restore[n].rows \ {row}]]
          BY <2>5 DEF RestoreOne
        <5> QED BY <1>1, <5>1 DEF RestoreInv
      <4> QED BY <1>3, <1>7, <2>2, <2>5, <3>4, <4>1
    <3> QED BY <3>2, <3>3, <3>4
  <2> QED BY Zenon, <1>1, <1>2, <1>6, <2>3, <2>4, <2>5, RestoreSteps
<1> QED BY <1>1, <1>4, <1>5, <1>6, OpenBefore

(* An order that nobody cancelled and that a match node lists as open rests *)
(* on its book once the node is quiet, or is sold out, or has expired, or   *)
(* is outnumbered by what the restore reads first. No side may have to give *)
(* up an order for another: it has room for all.                            *)
THEOREM OpenRowsStayOnBook ==
    ASSUME IsFiniteSet(Orders), Cardinality(Orders) <= MaxOrdersPerPair
    PROVE  Spec => []OpenRowsRest
<1>0. RoomForAll
  BY DEF RoomForAll
<1>1. Init => TypeInv /\ FillInv /\ PlacedInv
  BY InitTypes, InitFills, InitPlaced
<1>2. TypeInv /\ FillInv /\ PlacedInv /\ [Next]_vars => (TypeInv /\ FillInv /\ PlacedInv)'
  <2> SUFFICES ASSUME TypeInv, FillInv, PlacedInv, [Next]_vars
               PROVE  TypeInv' /\ FillInv' /\ PlacedInv'
    OBVIOUS
  <2>1. TypeInv'
    BY TypesKept
  <2>2. CASE UNCHANGED vars
    <3>1. FillInv' <=> FillInv
      BY <2>2 DEF vars, FillInv, FillsOf, Pending
    <3>2. PlacedInv' <=> PlacedInv
      BY <2>2 DEF vars, PlacedInv, Placed, Outnumbered
    <3> QED BY <2>1, <3>1, <3>2
  <2> QED BY <1>0, <2>1, <2>2, FillsKept, PlacedKept
<1>3. TypeInv /\ FillInv /\ PlacedInv => OpenRowsRest
  <2> SUFFICES ASSUME TypeInv, PlacedInv, NEW n \in MatchNodes, NEW o \in Orders,
                      Quiet(n), IsOpen(orderRows[n][o.id]), o.id \notin cancelled
               PROVE  \/ o.id \in RestingIds(book[n])
                      \/ AsMaker(n, o.id) >= o.amount
                      \/ Expired(o, clock)
                      \/ Outnumbered(n, o)
    BY DEF OpenRowsRest
  <2>1. n \in up /\ restore[n].passes = 0 /\ restore[n].rows = {}
    BY DEF Quiet, NotRestoring
  <2>2. Placed(n, o) \/ Outnumbered(n, o)
    BY <2>1 DEF PlacedInv
  <2>3. n \in Nodes /\ BookSound(book[n])
    BY DEF Nodes, TypeInv, BookInv
  <2> QED BY <2>2, <2>3, RestingAreEntries, SoldIsAsMaker DEF Placed
<1> QED BY <1>1, <1>2, <1>3, PTL DEF Spec

-----------------------------------------------------------------------------
(* The trades of a node reach its store, as long as no node stops.          *)
LEMMA InitSaved ==
    ASSUME Init
    PROVE  SavedTradesInv
<1>1. \A n \in MatchNodes : n \in Nodes /\ made[n] = <<>>
  BY DEF Init, Nodes
<1>2. \A n \in MatchNodes : Made(n) = {}
  BY <1>1 DEF Made, ToSet
<1> QED BY <1>2 DEF SavedTradesInv

(* An engine's list of trades grows by the outcomes of its matches.         *)
LEMMA MadeSteps ==
    ASSUME TypeInv, Next, NEW n \in Nodes
    PROVE  \/ made'[n] = made[n]
           \/ /\ MatchTaker(n) /\ task[n].at = "match" /\ task[n].order \in Orders
              /\ \E new \in Seq(TradeType) :
                    /\ made'[n] = made[n] \o new
                    /\ task'[n] = [at |-> "publish", order |-> task[n].order, trades |-> new]
<1>1. /\ TaskType /\ RestoreInv /\ HistoryType /\ BookInv
      /\ made \in [Nodes -> Seq(TradeType)] /\ task \in [Nodes -> Tasks]
  BY DEF TypeInv, HistoryType, TaskType
<1>2. ASSUME NEW k \in Nodes, MatchTaker(k), k # n PROVE made'[n] = made[n]
  <2>1. \E ts : made' = [made EXCEPT ![k] = ts]
    BY <1>1, <1>2, MatchSteps
  <2> QED BY <1>1, <1>2, <2>1
<1>3. ASSUME MatchTaker(n)
      PROVE  /\ task[n].at = "match" /\ task[n].order \in Orders
             /\ \E new \in Seq(TradeType) :
                   /\ made'[n] = made[n] \o new
                   /\ task'[n] = [at |-> "publish", order |-> task[n].order, trades |-> new]
  <2> DEFINE o == task[n].order
             new == MatchOutcome(book[n], o).trades
  <2>1. /\ o \in Orders /\ task[n].at = "match" /\ new \in Seq(TradeType)
        /\ made' = [made EXCEPT ![n] = made[n] \o new]
        /\ task' = [task EXCEPT ![n] = [at |-> "publish", order |-> o, trades |-> new]]
    BY <1>1, <1>3, MatchSteps
  <2> HIDE DEF new
  <2>2. /\ made'[n] = made[n] \o new
        /\ task'[n] = [at |-> "publish", order |-> o, trades |-> new]
    BY <1>1, <2>1
  <2> QED BY <2>1, <2>2
<1>4. \A k : \A p : Enters(k, p) => made' = made
  BY DEF Enters
<1> QED BY Zenon, <1>1, <1>2, <1>3, <1>4, BookSteps

(* The elements of a sequence that grows or shrinks.                        *)
LEMMA ToSetConcat ==
    ASSUME NEW S, NEW s \in Seq(S), NEW t \in Seq(S)
    PROVE  ToSet(s \o t) = ToSet(s) \cup ToSet(t)
<1> DEFINE st == s \o t
<1>1. /\ st \in Seq(S) /\ Len(st) = Len(s) + Len(t)
      /\ \A i \in 1 .. Len(s) : st[i] = s[i]
      /\ \A i \in 1 .. Len(t) : st[Len(s) + i] = t[i]
  BY Concatenation
<1>2. /\ DOMAIN s = 1 .. Len(s) /\ DOMAIN t = 1 .. Len(t) /\ DOMAIN st = 1 .. Len(st)
      /\ Len(s) \in Nat /\ Len(t) \in Nat
  BY <1>1
<1> HIDE DEF st
<1>3. ASSUME NEW k \in 1 .. Len(st) PROVE st[k] \in ToSet(s) \cup ToSet(t)
  <2>1. CASE k \in 1 .. Len(s)
    BY <1>1, <1>2, <2>1 DEF ToSet
  <2>2. CASE k \notin 1 .. Len(s)
    <3>1. k - Len(s) \in 1 .. Len(t) /\ k = Len(s) + (k - Len(s))
      BY <1>1, <1>2, <2>2
    <3>2. st[k] = t[k - Len(s)]
      BY <1>1, <3>1
    <3> QED BY <1>2, <3>1, <3>2 DEF ToSet
  <2> QED BY <2>1, <2>2
<1>4. ASSUME NEW k \in 1 .. Len(s) PROVE s[k] \in ToSet(st)
  <2>1. k \in 1 .. Len(st)
    BY <1>1, <1>2
  <2> QED BY <1>1, <1>2, <2>1 DEF ToSet
<1>5. ASSUME NEW k \in 1 .. Len(t) PROVE t[k] \in ToSet(st)
  <2>1. Len(s) + k \in 1 .. Len(st)
    BY <1>1, <1>2
  <2> QED BY <1>1, <1>2, <2>1 DEF ToSet
<1>6. ToSet(st) \subseteq ToSet(s) \cup ToSet(t)
  BY <1>2, <1>3 DEF ToSet
<1>7. ToSet(s) \subseteq ToSet(st) /\ ToSet(t) \subseteq ToSet(st)
  BY <1>2, <1>4, <1>5 DEF ToSet
<1>8. ToSet(st) = ToSet(s) \cup ToSet(t)
  BY <1>6, <1>7
<1> QED BY <1>8 DEF st

LEMMA ToSetTail ==
    ASSUME NEW S, NEW s \in Seq(S), s # <<>>
    PROVE  ToSet(s) = {Head(s)} \cup ToSet(Tail(s))
<1>1. /\ Tail(s) \in Seq(S) /\ Len(Tail(s)) = Len(s) - 1 /\ Len(s) \in Nat \ {0}
      /\ \A i \in 1 .. Len(Tail(s)) : Tail(s)[i] = s[i + 1]
      /\ DOMAIN s = 1 .. Len(s) /\ Head(s) = s[1]
  OBVIOUS
<1>2. DOMAIN Tail(s) = 1 .. Len(Tail(s))
  BY <1>1
<1>3. ASSUME NEW i \in 1 .. Len(s) PROVE s[i] \in {Head(s)} \cup ToSet(Tail(s))
  <2>1. CASE i = 1
    BY <1>1, <2>1
  <2>2. CASE i # 1
    <3>1. i - 1 \in 1 .. Len(Tail(s)) /\ (i - 1) + 1 = i
      BY <1>1, <2>2
    <3>2. Tail(s)[i - 1] = s[i]
      BY <1>1, <3>1
    <3> QED BY <1>2, <3>1, <3>2 DEF ToSet
  <2> QED BY <2>1, <2>2
<1>4. ASSUME NEW i \in 1 .. Len(Tail(s)) PROVE Tail(s)[i] \in ToSet(s)
  <2>1. i + 1 \in 1 .. Len(s)
    BY <1>1
  <2> QED BY <1>1, <2>1 DEF ToSet
<1>5. ToSet(s) \subseteq {Head(s)} \cup ToSet(Tail(s))
  BY <1>1, <1>3 DEF ToSet
<1>6. Head(s) \in ToSet(s)
  BY <1>1 DEF ToSet
<1>7. ToSet(Tail(s)) \subseteq ToSet(s)
  BY <1>2, <1>4 DEF ToSet
<1> QED BY <1>5, <1>6, <1>7

LEMMA SavedTradesKept ==
    ASSUME TypeInv, SavedTradesInv, Next
    PROVE  SavedTradesInv'
<1> DEFINE Saved(n) == \A t \in Made(n) : t \in Unsaved(n) \/ HasRow(n, t)
<1> SUFFICES ASSUME NEW n \in MatchNodes, crashes' = 0
             PROVE  Saved(n)'
  BY DEF SavedTradesInv
<1>0. crashes = 0 /\ ~Crash(n)
  <2>1. crashes \in Nat
    BY BoundsAssumption DEF TypeInv, NetworkType
  <2>2. \A k : ~Crash(k)
    BY <2>1 DEF Crash
  <2>3. crashes' = crashes
    BY <2>2, StepIs, Frames
  <2> QED BY <2>2, <2>3
<1>1. /\ TaskType /\ BookInv /\ HistoryType /\ n \in Nodes /\ Saved(n)
      /\ tradeRows \in [Nodes -> SUBSET TradeType]
  BY <1>0 DEF TypeInv, Nodes, SavedTradesInv, TradeRowsType
(* A row that is replaced is replaced by one with the same identifier.      *)
<1>2. ASSUME NEW t, InsertTrade(n, t), NEW u, HasRow(n, u) \/ SameTrade(t, u)
      PROVE  HasRow(n, u)'
  <2>1. tradeRows'[n] = {r \in tradeRows[n] : TradeId(r) # TradeId(t)} \cup {t}
    BY <1>1, <1>2 DEF InsertTrade
  <2>2. CASE SameTrade(t, u)
    BY <2>1, <2>2 DEF HasRow
  <2>3. ASSUME NEW r \in tradeRows[n], SameTrade(r, u) PROVE HasRow(n, u)'
    <3>1. CASE TradeId(r) # TradeId(t)
      BY <2>1, <2>3, <3>1 DEF HasRow
    <3>2. CASE TradeId(r) = TradeId(t)
      <4>1. SameTrade(t, u)
        BY <2>3, <3>2 DEF TradeId, SameTrade
      <4> QED BY <2>2, <4>1
    <3> QED BY <3>1, <3>2
  <2> QED BY <1>2, <2>2, <2>3 DEF HasRow
<1>5. tradeRows'[n] = tradeRows[n] \/ \E t : InsertTrade(n, t)
  <2>1. \A k \in Nodes : \A t : InsertTrade(k, t) /\ k # n => tradeRows'[n] = tradeRows[n]
    BY <1>1 DEF InsertTrade
  <2>2. \A k : RecordTrade(k) => \E t : InsertTrade(k, t)
    BY DEF RecordTrade
  <2>3. \A k : \A t : OnTradeExecuted(k, t) => InsertTrade(k, t)
    BY DEF OnTradeExecuted
  <2> QED BY <2>1, <2>2, <2>3, StepIs, Frames
<1>6. ASSUME NEW u, HasRow(n, u) PROVE HasRow(n, u)'
  <2>1. CASE tradeRows'[n] = tradeRows[n]
    BY <1>6, <2>1 DEF HasRow
  <2> QED BY <1>2, <1>5, <1>6, <2>1
(* Steps that make no trade: what was unsaved still is, or is saved now.    *)
<1>8. ASSUME made'[n] = made[n], \A u \in Unsaved(n) : u \in Unsaved(n)' \/ HasRow(n, u)'
      PROVE  Saved(n)'
  <2>1. Made(n)' = Made(n)
    BY <1>8 DEF Made, ToSet
  <2> QED BY <1>1, <1>6, <1>8, <2>1
<1>9. Saved(n)'
  <2>1. ASSUME task[n].at = "match", NEW new \in Seq(TradeType), made'[n] = made[n] \o new,
               task'[n] = [at |-> "publish", order |-> task[n].order, trades |-> new]
        PROVE  Saved(n)'
    <3>1. Unsaved(n) = {} /\ Unsaved(n)' = ToSet(new)
      BY <2>1 DEF Unsaved
    <3>2. Made(n)' = Made(n) \cup ToSet(new)
      <4>1. made[n] \in Seq(TradeType)
        BY <1>1 DEF HistoryType
      <4>2. ToSet(made[n] \o new) = ToSet(made[n]) \cup ToSet(new)
        BY <2>1, <4>1, ToSetConcat
      <4> QED BY <2>1, <4>2 DEF Made
    <3> QED BY <1>1, <1>6, <3>1, <3>2
  <2>2. CASE made'[n] = made[n] /\ task[n].at # "match"
    <3>1. CASE task'[n] = task[n]
      BY <1>8, <2>2, <3>1 DEF Unsaved
    <3>2. ASSUME Unsaved(n) = {}, Unsaved(n)' = {}
          PROVE  Saved(n)'
      BY <1>8, <2>2, <3>2
    <3>3. ASSUME task[n].at \notin {"publish", "record"}, task'[n].at \notin {"publish", "record"}
          PROVE  Saved(n)'
      BY <3>2, <3>3 DEF Unsaved
    <3>4. ASSUME NEW o, OnNewOrder(n, o),
                 task'[n] = [at |-> IF n \in MatchNodes THEN "add" ELSE "store", order |-> o]
          PROVE  Saved(n)'
      BY <3>3, <3>4 DEF OnNewOrder, Idle
    <3>5. ASSUME AddTaker(n),
                 task'[n] = [at |-> IF Admissible(task[n].order, clock) THEN "match" ELSE "store",
                             order |-> task[n].order]
          PROVE  Saved(n)'
      BY <3>3, <3>5 DEF AddTaker
    <3>6. ~MatchTaker(n)
      BY <2>2 DEF MatchTaker
    <3>7. ASSUME PublishTrade(n),
                 task'[n] = [at |-> "record", order |-> task[n].order, trades |-> task[n].trades]
          PROVE  Saved(n)'
      <4>1. Unsaved(n) = ToSet(task[n].trades) /\ Unsaved(n)' = ToSet(task[n].trades)
        BY <3>7 DEF PublishTrade, Unsaved
      <4> QED BY <1>8, <2>2, <4>1
    <3>8. ASSUME RecordTrade(n),
                 task'[n] = [at |-> "publish", order |-> task[n].order,
                             trades |-> Tail(task[n].trades)]
          PROVE  Saved(n)'
      <4> DEFINE ts == task[n].trades
      <4>1. ts \in Seq(TradeType) /\ ts # <<>> /\ InsertTrade(n, Head(ts))
        BY <1>1, <3>8, HandlerTasks DEF RecordTrade
      <4>2. Unsaved(n) = ToSet(ts) /\ Unsaved(n)' = ToSet(Tail(ts))
        <5>1. task[n].at = "record"
          BY <3>8 DEF RecordTrade
        <5>2. task'[n].at = "publish" /\ task'[n].trades = Tail(ts)
          BY <3>8
        <5> QED BY <5>1, <5>2 DEF Unsaved
      <4> HIDE DEF ts
      <4>3. ToSet(ts) = {Head(ts)} \cup ToSet(Tail(ts))
        BY <4>1, ToSetTail
      <4>4. PICK first : first = Head(ts)
        OBVIOUS
      <4>5. SameTrade(first, first)
        BY DEF SameTrade
      <4>6. HasRow(n, first)'
        BY <1>2, <4>1, <4>4, <4>5
      <4> QED BY <1>8, <2>2, <4>2, <4>3, <4>4, <4>6
    <3>9. ASSUME StoreOrder(n), task'[n] = Idle
          PROVE  Saved(n)'
      <4>1. Unsaved(n) = {} /\ Unsaved(n)' = {}
        BY <3>9 DEF StoreOrder, Unsaved, Idle, ToSet
      <4> QED BY <3>2, <4>1
    <3> QED BY Zenon, <1>0, <1>1, <3>1, <3>4, <3>5, <3>6, <3>7, <3>8, <3>9, TaskSteps
  <2>3. CASE task[n].at = "match" /\ ~MatchTaker(n)
    <3>1. task'[n] = task[n] \/ task'[n].at \notin {"publish", "record"}
      <4>1. ~AddTaker(n) /\ ~PublishTrade(n) /\ ~RecordTrade(n)
        BY <2>3 DEF AddTaker, PublishTrade, RecordTrade
      <4>2. \A o : task'[n] = [at |-> IF n \in MatchNodes THEN "add" ELSE "store", order |-> o]
                      => task'[n].at \notin {"publish", "record"}
        OBVIOUS
      <4>3. task'[n] = Idle => task'[n].at \notin {"publish", "record"}
        BY DEF Idle
      <4> QED BY Zenon, <1>1, <2>3, <4>1, <4>2, <4>3, TaskSteps
    <3>2. Unsaved(n) = {} /\ Unsaved(n)' = {}
      BY <2>3, <3>1 DEF Unsaved
    <3> QED BY <1>1, <1>8, <2>3, <3>2, MadeSteps
  <2>4. CASE MatchTaker(n)
    <3>1. PICK new \in Seq(TradeType) :
             /\ task[n].at = "match" /\ made'[n] = made[n] \o new
             /\ task'[n] = [at |-> "publish", order |-> task[n].order, trades |-> new]
      <4> DEFINE out == MatchOutcome(book[n], task[n].order)
      <4>1. /\ task[n].at = "match" /\ out.trades \in Seq(TradeType)
            /\ made' = [made EXCEPT ![n] = made[n] \o out.trades]
            /\ task' = [task EXCEPT ![n] =
                          [at |-> "publish", order |-> task[n].order, trades |-> out.trades]]
        BY <1>1, <2>4, MatchSteps
      <4> HIDE DEF out
      <4>2. /\ made'[n] = made[n] \o out.trades
            /\ task'[n] = [at |-> "publish", order |-> task[n].order, trades |-> out.trades]
        BY <1>1, <4>1 DEF HistoryType, TaskType
      <4> QED BY <4>1, <4>2
    <3> QED BY <2>1, <3>1
  <2> QED BY <1>1, <2>2, <2>3, <2>4, MadeSteps
<1> QED BY <1>9

(* A match node that is at rest has a row for every trade its engine made,  *)
(* until some node stops: however often orders are delivered, a row is only *)
(* replaced by that of a trade with its identifier.                         *)
THEOREM TradesAreKept == Spec => []TradesKeepRows
<1>1. Init => TypeInv /\ SavedTradesInv
  BY InitTypes, InitSaved
<1>2. TypeInv /\ SavedTradesInv /\ [Next]_vars => (TypeInv /\ SavedTradesInv)'
  <2> SUFFICES ASSUME TypeInv, SavedTradesInv, [Next]_vars
               PROVE  TypeInv' /\ SavedTradesInv'
    OBVIOUS
  <2>1. TypeInv'
    BY TypesKept
  <2>2. CASE UNCHANGED vars
    <3>1. SavedTradesInv' <=> SavedTradesInv
      BY <2>2 DEF vars, SavedTradesInv, Unsaved, Made, HasRow
    <3> QED BY <2>1, <3>1
  <2> QED BY <2>1, <2>2, SavedTradesKept
<1>3. TypeInv /\ SavedTradesInv => TradesKeepRows
  <2> SUFFICES ASSUME SavedTradesInv, NEW n \in MatchNodes, crashes = 0, Quiet(n),
                      NEW t \in Made(n)
               PROVE  \E r \in tradeRows[n] : SameTrade(r, t)
    BY DEF TradesKeepRows, SameTrade
  <2>1. Unsaved(n) = {}
    BY DEF Quiet, Unsaved, Idle
  <2> QED BY <2>1 DEF SavedTradesInv, HasRow
<1> QED BY <1>1, <1>2, <1>3, PTL DEF Spec
=============================================================================
