----------------------------- MODULE SyncProofs -----------------------------
(***************************************************************************)
(* Theorems about SubgraphSync, for any orders, any length of a page and   *)
(* every choice of faults.  First what holds of the chain and the          *)
(* subgraph's lists (ListInv), then the cursor of the events               *)
(* (EventsArePulledOnce), then that the solver knows the active orders     *)
(* once it has caught up (CaughtUpAgrees), all of them if nothing goes     *)
(* wrong around it (NothingIsMissed), at last that it follows the log of   *)
(* the subgraph (SyncFollowsLog).                                          *)
(***************************************************************************)
EXTENDS SubgraphSync, FiniteSetTheorems, SequenceTheorems, TLAPS

Kinds == {"AddOrder", "RemoveOrder"}
TxSet == [id : Nat, time : Nat \ {0}, order : Orders, kind : Kinds]

\* What the values are, without the bounds of the chain.
SyncTypes ==
    /\ clock \in Nat \ {0} /\ mined \in Nat /\ active \subseteq Orders
    /\ unindexed \in Seq(TxSet) /\ view \in Seq(TxSet) /\ listing \in Seq(Orders)
    /\ syncPhase \in {"fetching", "ready", "pulling", "applying"}
    /\ offset \in Nat /\ got \subseteq Orders /\ known \subseteq Orders
    /\ lastFetch \in Nat /\ skip \in Nat
    /\ events \in Seq(Event) /\ seen \in Seq(Nat) /\ overlooked \subseteq Orders

\* Before the fetch is over nothing is pulled, and after a sync nothing is left
\* to be applied.
FreshInv ==
    /\ syncPhase = "fetching" => /\ lastFetch = NoTime /\ skip = 0 /\ seen = <<>>
                                 /\ known = {}
    /\ syncPhase \in {"fetching", "ready"} => events = <<>>

\* A page of a list.
LEMMA PageOf ==
    ASSUME NEW S, NEW s \in Seq(S), NEW from \in Nat
    PROVE  /\ Page(s, from) \in Seq(S) /\ Len(Page(s, from)) \in Nat
           /\ Len(Page(s, from)) <= PageSize
           /\ from <= Len(s) => from + Len(Page(s, from)) <= Len(s)
           /\ Len(Page(s, from)) < PageSize => Len(s) <= from + Len(Page(s, from))
           /\ \A i \in 1 .. Len(Page(s, from)) : /\ from + i \in 1 .. Len(s)
                                                 /\ Page(s, from)[i] = s[from + i]
           /\ DOMAIN Page(s, from) = 1 .. Len(Page(s, from))
<1> DEFINE last == IF from + PageSize <= Len(s) THEN from + PageSize ELSE Len(s)
           p == SubSeq(s, from + 1, last)
<1>1. Len(s) \in Nat /\ last \in Nat /\ last <= Len(s) /\ last <= from + PageSize
  BY PageSizeAssumption, LenProperties
<1>2. \A i \in from + 1 .. last : i \in 1 .. Len(s) /\ s[i] \in S
  BY <1>1, ElementOfSeq
<1>3. /\ p \in Seq(S) /\ Len(p) = IF from + 1 <= last THEN last - (from + 1) + 1 ELSE 0
      /\ \A i \in 1 .. last - (from + 1) + 1 : p[i] = s[from + 1 + i - 1]
  BY <1>1, <1>2, SubSeqProperties
<1>4. DOMAIN p = 1 .. Len(p)
  BY <1>3, LenProperties
<1>5. last < from + PageSize => last = Len(s)
  BY <1>1, PageSizeAssumption
<1>6. from <= Len(s) => from <= last
  BY <1>1, PageSizeAssumption
<1> HIDE DEF last
<1>7. Page(s, from) = p
  BY DEF Page, last
<1> HIDE DEF p
<1>8. /\ Len(p) \in Nat /\ Len(p) <= PageSize
      /\ from <= Len(s) => from + Len(p) <= Len(s)
      /\ Len(p) < PageSize => Len(s) <= from + Len(p)
  BY <1>1, <1>3, <1>5, <1>6, PageSizeAssumption
<1>9. ASSUME NEW i \in 1 .. Len(p)
      PROVE  from + i \in 1 .. Len(s) /\ p[i] = s[from + i]
  <2>1. i \in 1 .. last - (from + 1) + 1 /\ from + 1 + i - 1 = from + i /\ from + i \in from + 1 .. last
    BY <1>1, <1>3
  <2>2. QED
    BY <1>2, <1>3, <2>1
<1>10. QED
  BY <1>3, <1>4, <1>7, <1>8, <1>9

LEMMA TypesInitially == SyncInit => SyncTypes /\ FreshInv
<1> SUFFICES ASSUME SyncInit
             PROVE  SyncTypes /\ FreshInv
  OBVIOUS
<1>1. PICK s \in [1 .. Cardinality(Orders) -> Orders] :
        \E n \in 0 .. Cardinality(Orders) : listing = SubSeq(s, 1, n)
  BY DEF SyncInit
<1>2. PICK n \in 0 .. Cardinality(Orders) : listing = SubSeq(s, 1, n)
  BY <1>1
<1>3. n \in Int /\ \A i \in 1 .. n : s[i] \in Orders
  <2>1. Cardinality(Orders) \in Nat
    BY OrdersAssumption, FS_CardinalityType
  <2>2. QED
    BY <1>1, <1>2, <2>1
<1>4. listing \in Seq(Orders)
  BY <1>2, <1>3, SubSeqProperties
<1>5. active \subseteq Orders
  BY <1>4, LenProperties DEF SyncInit, Elements
<1>6. <<>> \in Seq(TxSet) /\ <<>> \in Seq(Event) /\ <<>> \in Seq(Nat)
  BY EmptySeq
<1>7. QED
  BY <1>4, <1>5, <1>6 DEF SyncInit, SyncTypes, FreshInv, NoTime

\* A transaction is mined.
LEMMA MineFacts ==
    ASSUME SyncTypes, NEW o \in Orders, mine(o)
    PROVE  \E t \in TxSet :
             /\ t.id = mined + 1 /\ t.time = clock /\ t.order = o
             /\ (t.kind = "AddOrder" <=> o \notin active)
             /\ unindexed' = Append(unindexed, t) /\ unindexed' \in Seq(TxSet)
             /\ Len(unindexed') = Len(unindexed) + 1
             /\ DOMAIN unindexed = 1 .. Len(unindexed)
             /\ DOMAIN unindexed' = 1 .. Len(unindexed) + 1
             /\ unindexed'[Len(unindexed) + 1] = t
             /\ \A i \in 1 .. Len(unindexed) : unindexed'[i] = unindexed[i]
             /\ active' = IF o \in active THEN active \ {o} ELSE active \union {o}
             /\ UNCHANGED <<clock, subgraph, syncPhase, fetch, sync, known>>
<1> DEFINE t == [id |-> mined + 1, time |-> clock, order |-> o,
                 kind |-> IF o \in active THEN "RemoveOrder" ELSE "AddOrder"]
<1>1. /\ t \in TxSet /\ t.id = mined + 1 /\ t.time = clock /\ t.order = o
      /\ (t.kind = "AddOrder" <=> o \notin active)
  BY DEF SyncTypes, TxSet, Kinds
<1>2. /\ unindexed' = Append(unindexed, t)
      /\ active' = IF o \in active THEN active \ {o} ELSE active \union {o}
      /\ UNCHANGED <<clock, subgraph, syncPhase, fetch, sync, known>>
  BY DEF mine
<1> HIDE DEF t
<1>3. /\ Append(unindexed, t) \in Seq(TxSet) /\ Len(unindexed) \in Nat
      /\ Len(Append(unindexed, t)) = Len(unindexed) + 1
      /\ Append(unindexed, t)[Len(unindexed) + 1] = t
      /\ \A i \in 1 .. Len(unindexed) : Append(unindexed, t)[i] = unindexed[i]
      /\ DOMAIN unindexed = 1 .. Len(unindexed)
  BY <1>1, AppendProperties, LenProperties DEF SyncTypes
<1>4. DOMAIN Append(unindexed, t) = 1 .. Len(unindexed) + 1
  BY <1>3, LenProperties
<1>5. QED
  BY <1>1, <1>2, <1>3, <1>4

\* A transaction is indexed.
LEMMA IndexFacts ==
    ASSUME SyncTypes, index
    PROVE  LET t == unindexed[1]
               n == Len(view)
               u == Len(unindexed)
           IN  /\ t \in TxSet /\ t = Head(unindexed)
               /\ n \in Nat /\ u \in Nat \ {0}
               /\ DOMAIN view = 1 .. n /\ DOMAIN unindexed = 1 .. u
               /\ view' \in Seq(TxSet) /\ Len(view') = n + 1 /\ DOMAIN view' = 1 .. n + 1
               /\ view'[n + 1] = t /\ \A i \in 1 .. n : view'[i] = view[i]
               /\ unindexed' \in Seq(TxSet) /\ Len(unindexed') = u - 1
               /\ DOMAIN unindexed' = 1 .. u - 1
               /\ \A i \in 1 .. u - 1 : unindexed'[i] = unindexed[i + 1]
<1> DEFINE t == unindexed[1]
           n == Len(view)
           u == Len(unindexed)
<1>1. /\ view \in Seq(TxSet) /\ unindexed \in Seq(TxSet) /\ unindexed # <<>>
      /\ view' = Append(view, Head(unindexed)) /\ unindexed' = Tail(unindexed)
  BY DEF index, SyncTypes
<1>2. /\ u \in Nat \ {0} /\ n \in Nat /\ DOMAIN view = 1 .. n /\ DOMAIN unindexed = 1 .. u
  BY <1>1, EmptySeq, LenProperties
<1>3. t \in TxSet /\ Head(unindexed) = t
  BY <1>1, <1>2
<1>4. /\ view' \in Seq(TxSet) /\ Len(view') = n + 1
      /\ view'[n + 1] = t /\ \A i \in 1 .. n : view'[i] = view[i]
  BY <1>1, <1>3, AppendProperties
<1>5. /\ unindexed' \in Seq(TxSet) /\ Len(unindexed') = u - 1
      /\ \A i \in 1 .. u - 1 : unindexed'[i] = unindexed[i + 1]
  BY <1>1, HeadTailProperties
<1>6. DOMAIN view' = 1 .. n + 1 /\ DOMAIN unindexed' = 1 .. u - 1
  BY <1>4, <1>5, LenProperties
<1>7. QED
  BY <1>2, <1>3, <1>4, <1>5, <1>6
-----------------------------------------------------------------------------
Listed(o) == o \in Elements(listing)
Adds(t) == t.kind = "AddOrder"

\* Among the entries of a list, the first and the last one of an order, and
\* the one that is next to another.
FirstOf(s, i) == \A j \in 1 .. i - 1 : s[j].order # s[i].order
LastOf(s, i) == \A j \in i + 1 .. Len(s) : s[j].order # s[i].order
Follows(s, j, i) ==
    /\ s[j].order = s[i].order
    /\ \A k \in j + 1 .. i - 1 : s[k].order # s[i].order

InChain(o) == \E i \in DOMAIN unindexed : unindexed[i].order = o

\* No order is listed twice, and the transactions that are still to be indexed
\* lead from the listing to the active orders: those of an order alternate,
\* the first one changes the listing and the last one tells what is active.
\* The last one that is indexed tells what is listed.
ListInv ==
    /\ IsInjective(listing)
    /\ \A i \in DOMAIN unindexed : FirstOf(unindexed, i) =>
         (Adds(unindexed[i]) <=> ~Listed(unindexed[i].order))
    /\ \A i \in DOMAIN unindexed : \A j \in 1 .. i - 1 : Follows(unindexed, j, i) =>
         (Adds(unindexed[i]) <=> ~Adds(unindexed[j]))
    /\ \A i \in DOMAIN unindexed : LastOf(unindexed, i) =>
         (Adds(unindexed[i]) <=> unindexed[i].order \in active)
    /\ \A o \in Orders : ~InChain(o) => (o \in active <=> Listed(o))
    /\ \A i \in DOMAIN view : LastOf(view, i) => (Adds(view[i]) <=> Listed(view[i].order))

\* A new order comes first.
LEMMA ListingGrows ==
    ASSUME NEW l \in Seq(Orders), NEW o \in Orders, IsInjective(l), o \notin Elements(l)
    PROVE  LET m == <<o>> \o l
           IN  /\ m \in Seq(Orders) /\ Len(m) = Len(l) + 1 /\ IsInjective(m)
               /\ m[1] = o /\ \A i \in 1 .. Len(l) : m[i + 1] = l[i]
               /\ Elements(m) = Elements(l) \union {o}
<1> DEFINE m == <<o>> \o l
           n == Len(l)
<1>1. n \in Nat /\ DOMAIN l = 1 .. n
  BY LenProperties
<1>2. <<o>> \in Seq(Orders) /\ Len(<<o>>) = 1 /\ <<o>>[1] = o
  OBVIOUS
<1>3. /\ m \in Seq(Orders) /\ Len(m) = 1 + n
      /\ \A i \in 1 .. 1 + n : m[i] = IF i <= 1 THEN <<o>>[i] ELSE l[i - 1]
  BY <1>2, ConcatProperties
<1>4. DOMAIN m = 1 .. 1 + n
  BY <1>3, LenProperties
<1> HIDE DEF m, n
<1>5. m[1] = o /\ \A i \in 1 .. n : m[i + 1] = l[i]
  <2>1. 1 \in 1 .. 1 + n /\ 1 <= 1
    BY <1>1
  <2>2. m[1] = o
    BY <1>2, <1>3, <2>1
  <2>3. ASSUME NEW i \in 1 .. n
        PROVE  m[i + 1] = l[i]
    <3>1. i + 1 \in 1 .. 1 + n /\ ~(i + 1 <= 1) /\ (i + 1) - 1 = i
      BY <1>1
    <3>2. QED
      BY <1>3, <3>1
  <2>4. QED
    BY <2>2, <2>3
<1>6. \A i \in 1 .. 1 + n : i # 1 => i - 1 \in 1 .. n /\ m[i] = l[i - 1]
  <2>1. ASSUME NEW i \in 1 .. 1 + n, i # 1
        PROVE  i - 1 \in 1 .. n /\ m[i] = l[i - 1]
    <3>1. i - 1 \in 1 .. n /\ ~(i <= 1)
      BY <1>1, <2>1
    <3>2. QED
      BY <1>3, <3>1
  <2>2. QED
    BY <2>1
<1>7. IsInjective(m)
  <2>1. ASSUME NEW i \in 1 .. 1 + n, NEW j \in 1 .. 1 + n, m[i] = m[j]
        PROVE  i = j
    <3>1. CASE i = 1 /\ j = 1
      BY <3>1
    <3>2. CASE i = 1 /\ j # 1
      BY <1>1, <1>5, <1>6, <2>1, <3>2 DEF Elements
    <3>3. CASE i # 1 /\ j = 1
      BY <1>1, <1>5, <1>6, <2>1, <3>3 DEF Elements
    <3>4. CASE i # 1 /\ j # 1
      <4>1. i - 1 = j - 1
        BY <1>1, <1>6, <2>1, <3>4 DEF IsInjective
      <4>2. QED
        BY <1>1, <4>1
    <3>5. QED
      BY <3>1, <3>2, <3>3, <3>4
  <2>2. QED
    BY <1>4, <2>1 DEF IsInjective
<1>8. Elements(m) = Elements(l) \union {o}
  <2>1. ASSUME NEW i \in 1 .. 1 + n
        PROVE  m[i] \in Elements(l) \union {o}
    <3>1. CASE i = 1
      BY <1>5, <3>1
    <3>2. CASE i # 1
      BY <1>1, <1>6, <3>2 DEF Elements
    <3>3. QED
      BY <3>1, <3>2
  <2>2. o \in Elements(m)
    BY <1>1, <1>4, <1>5 DEF Elements
  <2>3. Elements(l) \subseteq Elements(m)
    <3>1. \A i \in 1 .. n : i + 1 \in 1 .. 1 + n
      BY <1>1
    <3>2. QED
      BY <1>1, <1>4, <1>5, <3>1 DEF Elements
  <2>4. QED
    BY <1>4, <2>1, <2>2, <2>3 DEF Elements
<1>9. QED
  BY <1>1, <1>3, <1>5, <1>7, <1>8 DEF m, n

\* A removed order leaves its place to the next one.
LEMMA ListingShrinks ==
    ASSUME NEW l \in Seq(Orders), NEW p \in 1 .. Len(l), IsInjective(l)
    PROVE  LET m == RemoveAt(l, p)
           IN  /\ m \in Seq(Orders) /\ Len(m) = Len(l) - 1 /\ IsInjective(m)
               /\ \A i \in 1 .. Len(l) - 1 : m[i] = IF i < p THEN l[i] ELSE l[i + 1]
               /\ Elements(m) = Elements(l) \ {l[p]}
<1> DEFINE n == Len(l)
           front == SubSeq(l, 1, p - 1)
           back == SubSeq(l, p + 1, n)
           m == RemoveAt(l, p)
<1>1. n \in Nat /\ p \in 1 .. n /\ DOMAIN l = 1 .. n /\ \A i \in 1 .. n : l[i] \in Orders
  BY LenProperties, ElementOfSeq
<1>2. m = front \o back
  BY DEF RemoveAt
<1>3. /\ front \in Seq(Orders) /\ Len(front) = p - 1
      /\ \A i \in 1 .. p - 1 : front[i] = l[i]
  <2>1. \A i \in 1 .. p - 1 : l[i] \in Orders
    BY <1>1
  <2>2. /\ front \in Seq(Orders) /\ Len(front) = IF 1 <= p - 1 THEN p - 1 - 1 + 1 ELSE 0
        /\ \A i \in 1 .. p - 1 - 1 + 1 : front[i] = l[1 + i - 1]
    BY <1>1, <2>1, SubSeqProperties
  <2>3. p - 1 - 1 + 1 = p - 1 /\ \A i \in 1 .. p - 1 : 1 + i - 1 = i
    BY <1>1
  <2>4. Len(front) = p - 1
    BY <1>1, <2>2
  <2>5. QED
    BY <2>2, <2>3, <2>4
<1>4. /\ back \in Seq(Orders) /\ Len(back) = n - p
      /\ \A i \in 1 .. n - p : back[i] = l[p + i]
  <2>1. \A i \in p + 1 .. n : l[i] \in Orders
    BY <1>1
  <2>2. /\ back \in Seq(Orders) /\ Len(back) = IF p + 1 <= n THEN n - (p + 1) + 1 ELSE 0
        /\ \A i \in 1 .. n - (p + 1) + 1 : back[i] = l[p + 1 + i - 1]
    BY <1>1, <2>1, SubSeqProperties
  <2>3. n - (p + 1) + 1 = n - p /\ \A i \in 1 .. n - p : p + 1 + i - 1 = p + i
    BY <1>1
  <2>4. Len(back) = n - p
    <3>1. CASE p + 1 <= n
      BY <1>1, <2>2, <3>1
    <3>2. CASE p = n
      BY <1>1, <2>2, <3>2
    <3>3. p + 1 <= n \/ p = n
      <4>1. n \in Int /\ p \in Int /\ p <= n
        BY <1>1
      <4> HIDE DEF n
      <4>2. QED
        BY <4>1
    <3>4. QED
      BY <3>1, <3>2, <3>3
  <2>5. QED
    BY <2>2, <2>3, <2>4
<1> HIDE DEF front, back, m, n
<1>5. /\ m \in Seq(Orders) /\ Len(m) = (p - 1) + (n - p)
      /\ \A i \in 1 .. (p - 1) + (n - p) : m[i] = IF i <= p - 1 THEN front[i] ELSE back[i - (p - 1)]
  BY <1>2, <1>3, <1>4, ConcatProperties
<1>6. Len(m) = n - 1 /\ (p - 1) + (n - p) = n - 1
  BY <1>1, <1>5
<1>7. ASSUME NEW i \in 1 .. n - 1
      PROVE  m[i] = IF i < p THEN l[i] ELSE l[i + 1]
  <2>1. i \in 1 .. (p - 1) + (n - p)
    BY <1>1
  <2>2. CASE i < p
    <3>1. i <= p - 1 /\ i \in 1 .. p - 1
      BY <1>1, <2>2
    <3>2. QED
      BY <1>3, <1>5, <2>1, <2>2, <3>1
  <2>3. CASE ~(i < p)
    <3>1. ~(i <= p - 1) /\ i - (p - 1) \in 1 .. n - p /\ p + (i - (p - 1)) = i + 1
      BY <1>1, <2>3
    <3>2. m[i] = back[i - (p - 1)]
      BY <1>5, <2>1, <3>1
    <3>3. back[i - (p - 1)] = l[p + (i - (p - 1))]
      BY <1>4, <3>1
    <3>4. QED
      BY <2>3, <3>1, <3>2, <3>3
  <2>4. QED
    BY <2>2, <2>3
<1>8. DOMAIN m = 1 .. n - 1
  BY <1>5, <1>6, LenProperties
<1>9. IsInjective(m)
  <2>1. ASSUME NEW i \in 1 .. n - 1, NEW j \in 1 .. n - 1, m[i] = m[j]
        PROVE  i = j
    <3>1. CASE i < p /\ j < p
      BY <1>1, <1>7, <2>1, <3>1 DEF IsInjective
    <3>2. CASE ~(i < p) /\ ~(j < p)
      <4>1. i + 1 \in 1 .. n /\ j + 1 \in 1 .. n /\ l[i + 1] = l[j + 1]
        BY <1>1, <1>7, <2>1, <3>2
      <4>2. i + 1 = j + 1
        BY <1>1, <4>1 DEF IsInjective
      <4>3. QED
        BY <4>2
    <3>3. CASE i < p /\ ~(j < p)
      <4>1. i \in 1 .. n /\ j + 1 \in 1 .. n /\ l[i] = l[j + 1]
        BY <1>1, <1>7, <2>1, <3>3
      <4>2. i = j + 1
        BY <1>1, <4>1 DEF IsInjective
      <4>3. QED
        BY <1>1, <3>3, <4>2
    <3>4. CASE ~(i < p) /\ j < p
      <4>1. i + 1 \in 1 .. n /\ j \in 1 .. n /\ l[i + 1] = l[j]
        BY <1>1, <1>7, <2>1, <3>4
      <4>2. i + 1 = j
        BY <1>1, <4>1 DEF IsInjective
      <4>3. QED
        BY <1>1, <3>4, <4>2
    <3>5. QED
      BY <3>1, <3>2, <3>3, <3>4
  <2>2. QED
    BY <1>8, <2>1 DEF IsInjective
<1>10. Elements(m) = Elements(l) \ {l[p]}
  <2>1. ASSUME NEW i \in 1 .. n - 1
        PROVE  m[i] \in Elements(l) /\ m[i] # l[p]
    <3>1. CASE i < p
      <4>1. i \in 1 .. n /\ m[i] = l[i] /\ i # p
        BY <1>1, <1>7, <3>1
      <4>2. QED
        BY <1>1, <4>1 DEF Elements, IsInjective
    <3>2. CASE ~(i < p)
      <4>1. i + 1 \in 1 .. n /\ m[i] = l[i + 1] /\ i + 1 # p
        BY <1>1, <1>7, <3>2
      <4>2. QED
        BY <1>1, <4>1 DEF Elements, IsInjective
    <3>3. QED
      BY <3>1, <3>2
  <2>2. ASSUME NEW k \in 1 .. n, k # p
        PROVE  l[k] \in Elements(m)
    <3>1. CASE k < p
      <4>1. k \in 1 .. n - 1 /\ m[k] = l[k]
        BY <1>1, <1>7, <3>1
      <4>2. QED
        BY <1>8, <4>1 DEF Elements
    <3>2. CASE k > p
      <4>1. k - 1 \in 1 .. n - 1 /\ ~(k - 1 < p) /\ (k - 1) + 1 = k
        BY <1>1, <3>2
      <4>2. m[k - 1] = l[k]
        BY <1>7, <4>1
      <4>3. QED
        BY <1>8, <4>1, <4>2 DEF Elements
    <3>3. QED
      BY <1>1, <2>2, <3>1, <3>2
  <2>3. QED
    BY <1>1, <1>8, <2>1, <2>2 DEF Elements
<1>11. QED
  BY <1>5, <1>6, <1>7, <1>9, <1>10 DEF m, n

\* A transaction that is indexed changes the listing, of its order alone.
LEMMA ListingFollows ==
    ASSUME SyncTypes, ListInv, index
    PROVE  LET t == unindexed[1]
               p == PlaceOf(t.order)
               n == Len(listing)
           IN  /\ listing' \in Seq(Orders) /\ IsInjective(listing') /\ n \in Nat
               /\ DOMAIN listing = 1 .. n
               /\ Adds(t) <=> ~Listed(t.order)
               /\ Adds(t) => /\ Len(listing') = n + 1 /\ DOMAIN listing' = 1 .. n + 1
                             /\ listing'[1] = t.order
                             /\ \A i \in 1 .. n : listing'[i + 1] = listing[i]
                             /\ Elements(listing)' = Elements(listing) \union {t.order}
               /\ ~Adds(t) => /\ p \in 1 .. n /\ listing[p] = t.order
                              /\ DOMAIN listing' = 1 .. n - 1
                              /\ \A i \in 1 .. n - 1 :
                                   listing'[i] = IF i < p THEN listing[i] ELSE listing[i + 1]
                              /\ Elements(listing)' = Elements(listing) \ {t.order}
<1> DEFINE t == unindexed[1]
           p == PlaceOf(t.order)
           n == Len(listing)
<1>1. /\ t \in TxSet /\ t = Head(unindexed) /\ 1 \in DOMAIN unindexed
      /\ t.order \in Orders /\ t.kind \in Kinds
  <2>1. t \in TxSet /\ t = Head(unindexed) /\ 1 \in DOMAIN unindexed
    BY IndexFacts
  <2>2. QED
    BY <2>1 DEF TxSet
<1>2. listing \in Seq(Orders) /\ n \in Nat /\ DOMAIN listing = 1 .. n /\ IsInjective(listing)
  BY LenProperties DEF SyncTypes, ListInv
<1>3. Adds(t) <=> ~Listed(t.order)
  <2>1. FirstOf(unindexed, 1)
    BY DEF FirstOf
  <2>2. QED
    BY <1>1, <2>1 DEF ListInv
<1>4. listing' = IF Adds(t) THEN <<t.order>> \o listing ELSE RemoveAt(listing, p)
  BY <1>1 DEF index, Adds
<1> HIDE DEF n, p, t
<1>5. CASE Adds(t)
  <2> DEFINE m == <<t.order>> \o listing
  <2>1. t.order \notin Elements(listing)
    BY <1>3, <1>5 DEF Listed
  <2>2. /\ m \in Seq(Orders) /\ Len(m) = n + 1 /\ IsInjective(m)
        /\ m[1] = t.order /\ \A i \in 1 .. n : m[i + 1] = listing[i]
        /\ Elements(m) = Elements(listing) \union {t.order}
    BY <1>1, <1>2, <2>1, ListingGrows DEF n
  <2>3. DOMAIN m = 1 .. n + 1
    BY <2>2, LenProperties
  <2> HIDE DEF m
  <2>4. listing' = m
    BY <1>4, <1>5 DEF m
  <2>5. Elements(listing)' = Elements(m)
    BY <2>4 DEF Elements
  <2>6. QED
    BY <1>2, <1>3, <1>5, <2>2, <2>3, <2>4, <2>5 DEF n, p, t
<1>6. CASE ~Adds(t)
  <2> DEFINE m == RemoveAt(listing, p)
  <2>1. \E i \in DOMAIN listing : listing[i] = t.order
    BY <1>3, <1>6 DEF Listed, Elements
  <2>2. p \in 1 .. n /\ listing[p] = t.order
    BY <1>2, <2>1 DEF p, PlaceOf
  <2>3. /\ m \in Seq(Orders) /\ Len(m) = n - 1 /\ IsInjective(m)
        /\ \A i \in 1 .. n - 1 : m[i] = IF i < p THEN listing[i] ELSE listing[i + 1]
        /\ Elements(m) = Elements(listing) \ {t.order}
    <3>1. p \in 1 .. Len(listing)
      BY <2>2 DEF n
    <3>2. /\ m \in Seq(Orders) /\ Len(m) = Len(listing) - 1 /\ IsInjective(m)
          /\ \A i \in 1 .. Len(listing) - 1 : m[i] = IF i < p THEN listing[i] ELSE listing[i + 1]
          /\ Elements(m) = Elements(listing) \ {listing[p]}
      BY <1>2, <3>1, ListingShrinks
    <3>3. QED
      BY <2>2, <3>2 DEF n
  <2>4. DOMAIN m = 1 .. n - 1
    BY <2>3, LenProperties
  <2> HIDE DEF m
  <2>5. listing' = m
    BY <1>4, <1>6 DEF m
  <2>6. Elements(listing)' = Elements(m)
    BY <2>5 DEF Elements
  <2>7. QED
    BY <1>2, <1>3, <1>6, <2>2, <2>3, <2>4, <2>5, <2>6 DEF n, p, t
<1>7. QED
  BY <1>5, <1>6 DEF n, p, t

LEMMA ListedMine ==
    ASSUME SyncTypes, ListInv, NEW o \in Orders, mine(o)
    PROVE  ListInv'
<1> DEFINE u == Len(unindexed)
<1>1. PICK t \in TxSet :
        /\ t.order = o /\ (Adds(t) <=> o \notin active)
        /\ Len(unindexed') = u + 1 /\ unindexed'[u + 1] = t
        /\ DOMAIN unindexed = 1 .. u /\ DOMAIN unindexed' = 1 .. u + 1
        /\ \A i \in 1 .. u : unindexed'[i] = unindexed[i]
        /\ active' = IF o \in active THEN active \ {o} ELSE active \union {o}
        /\ listing' = listing /\ view' = view
  BY MineFacts DEF Adds, subgraph
<1>2. u \in Nat
  BY LenProperties DEF SyncTypes
<1> HIDE DEF u
<1>3. \A x : Listed(x)' <=> Listed(x)
  BY <1>1 DEF Listed, Elements
<1>4. ASSUME NEW i \in 1 .. u
      PROVE  unindexed'[i] = unindexed[i] /\ i \in DOMAIN unindexed
  BY <1>1
<1>5. ASSUME NEW i \in 1 .. u + 1, i \notin 1 .. u
      PROVE  i = u + 1
  BY <1>2, <1>5
<1>6. ASSUME NEW i \in 1 .. u + 1, FirstOf(unindexed', i)
      PROVE  Adds(unindexed'[i]) <=> ~Listed(unindexed'[i].order)
  <2>1. CASE i \in 1 .. u
    <3>1. \A j \in 1 .. i - 1 : j \in 1 .. u
      BY <1>2, <2>1
    <3>2. FirstOf(unindexed, i)
      BY <1>4, <1>6, <2>1, <3>1 DEF FirstOf
    <3>3. QED
      BY <1>4, <2>1, <3>2 DEF ListInv
  <2>2. CASE i = u + 1
    <3>1. \A j \in 1 .. u : j \in 1 .. i - 1
      BY <1>2, <2>2
    <3>2. ~InChain(o)
      BY <1>1, <1>4, <1>6, <2>2, <3>1 DEF FirstOf, InChain
    <3>3. QED
      BY <1>1, <2>2, <3>2 DEF ListInv
  <2>3. QED
    BY <1>5, <2>1, <2>2
<1>7. ASSUME NEW i \in 1 .. u + 1, NEW j \in 1 .. i - 1, Follows(unindexed', j, i)
      PROVE  Adds(unindexed'[i]) <=> ~Adds(unindexed'[j])
  <2>1. j \in 1 .. u
    BY <1>2
  <2>2. \A k \in j + 1 .. i - 1 : k \in 1 .. u
    BY <1>2, <2>1
  <2>3. CASE i \in 1 .. u
    <3>1. Follows(unindexed, j, i)
      BY <1>4, <1>7, <2>1, <2>2, <2>3 DEF Follows
    <3>2. QED
      BY <1>4, <2>1, <2>3, <3>1 DEF ListInv
  <2>4. CASE i = u + 1
    <3>1. \A k \in j + 1 .. u : k \in j + 1 .. i - 1
      BY <1>2, <2>1, <2>4
    <3>2. unindexed[j].order = o /\ \A k \in j + 1 .. u : unindexed[k].order # o
      BY <1>1, <1>4, <1>7, <2>1, <2>2, <2>4, <3>1 DEF Follows
    <3>3. LastOf(unindexed, j)
      BY <3>2 DEF LastOf, u
    <3>4. Adds(unindexed[j]) <=> o \in active
      BY <1>4, <2>1, <3>2, <3>3 DEF ListInv
    <3>5. QED
      BY <1>1, <1>4, <2>1, <2>4, <3>4
  <2>5. QED
    BY <1>5, <2>3, <2>4
<1>8. ASSUME NEW i \in 1 .. u + 1, LastOf(unindexed', i)
      PROVE  Adds(unindexed'[i]) <=> unindexed'[i].order \in active'
  <2>1. CASE i \in 1 .. u
    <3>1. u + 1 \in i + 1 .. u + 1 /\ \A j \in i + 1 .. u : j \in 1 .. u /\ j \in i + 1 .. u + 1
      BY <1>2, <2>1
    <3>2. unindexed[i].order # o
      BY <1>1, <1>4, <1>8, <2>1, <3>1 DEF LastOf
    <3>3. LastOf(unindexed, i)
      BY <1>1, <1>4, <1>8, <2>1, <3>1 DEF LastOf, u
    <3>4. Adds(unindexed[i]) <=> unindexed[i].order \in active
      BY <1>4, <2>1, <3>3 DEF ListInv
    <3>5. QED
      BY <1>1, <1>4, <2>1, <3>2, <3>4
  <2>2. CASE i = u + 1
    BY <1>1, <2>2
  <2>3. QED
    BY <1>5, <2>1, <2>2
<1>9. ASSUME NEW x \in Orders, ~InChain(x)'
      PROVE  x \in active' <=> Listed(x)
  <2>1. u + 1 \in 1 .. u + 1 /\ \A i \in 1 .. u : i \in 1 .. u + 1
    BY <1>2
  <2>2. x # o
    BY <1>1, <1>9, <2>1 DEF InChain
  <2>3. ~InChain(x)
    BY <1>1, <1>4, <1>9, <2>1 DEF InChain
  <2>4. QED
    BY <1>1, <2>2, <2>3 DEF ListInv
<1>10. IsInjective(listing') /\ \A i \in DOMAIN view' : LastOf(view', i) =>
                                   (Adds(view'[i]) <=> Listed(view'[i].order))
  BY <1>1 DEF ListInv
<1>11. QED
  BY <1>1, <1>3, <1>6, <1>7, <1>8, <1>9, <1>10 DEF ListInv, InChain, Adds, FirstOf, LastOf, Follows

LEMMA ListedIndex ==
    ASSUME SyncTypes, ListInv, index
    PROVE  ListInv'
<1> DEFINE t == unindexed[1]
           u == Len(unindexed)
           n == Len(view)
<1>1. /\ t \in TxSet /\ n \in Nat /\ u \in Nat \ {0}
      /\ DOMAIN view = 1 .. n /\ DOMAIN unindexed = 1 .. u
      /\ Len(view') = n + 1 /\ DOMAIN view' = 1 .. n + 1
      /\ view'[n + 1] = t /\ \A i \in 1 .. n : view'[i] = view[i]
      /\ Len(unindexed') = u - 1 /\ DOMAIN unindexed' = 1 .. u - 1
      /\ \A i \in 1 .. u - 1 : unindexed'[i] = unindexed[i + 1]
  BY IndexFacts
<1>2. /\ IsInjective(listing') /\ (Adds(t) <=> ~Listed(t.order))
      /\ Elements(listing)' = IF Adds(t) THEN Elements(listing) \union {t.order}
                                         ELSE Elements(listing) \ {t.order}
  BY ListingFollows
<1>3. /\ t.order \in Elements(listing') <=> Adds(t)
      /\ \A x : x # t.order => (x \in Elements(listing') <=> Listed(x))
  <2>1. Elements(listing') = Elements(listing)'
    BY DEF Elements
  <2>2. QED
    BY <1>2, <2>1 DEF Listed
<1>4. active' = active
  BY DEF index
<1> HIDE DEF u, n, t
<1>5. ASSUME NEW i \in 1 .. u - 1
      PROVE  i + 1 \in 1 .. u /\ unindexed'[i] = unindexed[i + 1] /\ i + 1 # 1
  BY <1>1
<1>6. 1 \in 1 .. u /\ t = unindexed[1]
  BY <1>1 DEF t
<1>7. ASSUME NEW i \in 1 .. u - 1, FirstOf(unindexed', i)
      PROVE  Adds(unindexed'[i]) <=> unindexed'[i].order \notin Elements(listing')
  <2>1. \A k \in 2 .. i : /\ k - 1 \in 1 .. i - 1 /\ k - 1 \in 1 .. u - 1
                          /\ (k - 1) + 1 = k
    BY <1>1
  <2>2. ASSUME NEW k \in 2 .. i
        PROVE  unindexed[k].order # unindexed[i + 1].order
    <3>1. unindexed'[k - 1].order # unindexed'[i].order
      BY <1>7, <2>1 DEF FirstOf
    <3>2. QED
      BY <1>5, <2>1, <3>1
  <2>3. CASE unindexed[i + 1].order = t.order
    <3>1. Follows(unindexed, 1, i + 1)
      <4>1. \A k \in 1 + 1 .. (i + 1) - 1 : k \in 2 .. i
        BY <1>1
      <4>2. QED
        BY <1>6, <2>2, <2>3, <4>1 DEF Follows
    <3>2. i + 1 \in DOMAIN unindexed /\ 1 \in 1 .. (i + 1) - 1
      BY <1>1, <1>5
    <3>3. Adds(unindexed[i + 1]) <=> ~Adds(t)
      BY <1>6, <3>1, <3>2 DEF ListInv
    <3>4. QED
      BY <1>3, <1>5, <2>3, <3>3
  <2>4. CASE unindexed[i + 1].order # t.order
    <3>1. FirstOf(unindexed, i + 1)
      <4>1. \A k \in 1 .. (i + 1) - 1 : k = 1 \/ k \in 2 .. i
        BY <1>1
      <4>2. QED
        BY <1>6, <2>2, <2>4, <4>1 DEF FirstOf
    <3>2. Adds(unindexed[i + 1]) <=> ~Listed(unindexed[i + 1].order)
      BY <1>1, <1>5, <3>1 DEF ListInv
    <3>3. QED
      BY <1>3, <1>5, <2>4, <3>2
  <2>5. QED
    BY <2>3, <2>4
<1>8. ASSUME NEW i \in 1 .. u - 1, NEW j \in 1 .. i - 1, Follows(unindexed', j, i)
      PROVE  Adds(unindexed'[i]) <=> ~Adds(unindexed'[j])
  <2>1. j \in 1 .. u - 1 /\ j + 1 \in 1 .. (i + 1) - 1
    BY <1>1
  <2>2. \A k \in (j + 1) + 1 .. (i + 1) - 1 : /\ k - 1 \in j + 1 .. i - 1 /\ k - 1 \in 1 .. u - 1
                                              /\ (k - 1) + 1 = k
    BY <1>1
  <2>3. Follows(unindexed, j + 1, i + 1)
    <3>1. unindexed[j + 1].order = unindexed[i + 1].order
      BY <1>5, <1>8, <2>1 DEF Follows
    <3>2. ASSUME NEW k \in (j + 1) + 1 .. (i + 1) - 1
          PROVE  unindexed[k].order # unindexed[i + 1].order
      <4>1. unindexed'[k - 1].order # unindexed'[i].order
        BY <1>8, <2>2 DEF Follows
      <4>2. QED
        BY <1>5, <2>2, <4>1
    <3>3. QED
      BY <3>1, <3>2 DEF Follows
  <2>4. Adds(unindexed[i + 1]) <=> ~Adds(unindexed[j + 1])
    BY <1>1, <1>5, <2>1, <2>3 DEF ListInv
  <2>5. QED
    BY <1>5, <2>1, <2>4
<1>9. ASSUME NEW i \in 1 .. u - 1, LastOf(unindexed', i)
      PROVE  Adds(unindexed'[i]) <=> unindexed'[i].order \in active
  <2>1. ASSUME NEW k \in (i + 1) + 1 .. u
        PROVE  unindexed[k].order # unindexed[i + 1].order
    <3>1. k - 1 \in i + 1 .. u - 1 /\ k - 1 \in 1 .. u - 1 /\ (k - 1) + 1 = k
      BY <1>1
    <3>2. unindexed'[k - 1].order # unindexed'[i].order
      BY <1>1, <1>9, <3>1 DEF LastOf
    <3>3. QED
      BY <1>5, <3>1, <3>2
  <2>2. LastOf(unindexed, i + 1)
    BY <2>1 DEF LastOf, u
  <2>3. QED
    BY <1>1, <1>5, <2>2 DEF ListInv
<1>10. ASSUME NEW x \in Orders, ~InChain(x)'
       PROVE  x \in active <=> x \in Elements(listing')
  <2>1. ASSUME NEW k \in 2 .. u
        PROVE  unindexed[k].order # x
    <3>1. k - 1 \in 1 .. u - 1 /\ (k - 1) + 1 = k
      BY <1>1
    <3>2. unindexed'[k - 1].order # x
      BY <1>1, <1>10, <3>1 DEF InChain
    <3>3. QED
      BY <1>5, <3>1, <3>2
  <2>2. CASE x = t.order
    <3>1. \A k \in 1 + 1 .. u : k \in 2 .. u
      BY <1>1
    <3>2. LastOf(unindexed, 1)
      BY <1>6, <2>1, <2>2, <3>1 DEF LastOf, u
    <3>3. Adds(t) <=> x \in active
      BY <1>1, <1>6, <2>2, <3>2 DEF ListInv
    <3>4. QED
      BY <1>3, <2>2, <3>3
  <2>3. CASE x # t.order
    <3>1. \A k \in 1 .. u : k = 1 \/ k \in 2 .. u
      BY <1>1
    <3>2. ~InChain(x)
      BY <1>1, <1>6, <2>1, <2>3, <3>1 DEF InChain
    <3>3. QED
      BY <1>3, <2>3, <3>2 DEF ListInv
  <2>4. QED
    BY <2>2, <2>3
<1>11. ASSUME NEW i \in 1 .. n + 1, LastOf(view', i)
       PROVE  Adds(view'[i]) <=> view'[i].order \in Elements(listing')
  <2>1. CASE i = n + 1
    BY <1>1, <1>3, <2>1
  <2>2. CASE i \in 1 .. n
    <3>1. n + 1 \in i + 1 .. n + 1 /\ \A j \in i + 1 .. n : j \in 1 .. n /\ j \in i + 1 .. n + 1
      BY <1>1, <2>2
    <3>2. view[i].order # t.order
      BY <1>1, <1>11, <2>2, <3>1 DEF LastOf
    <3>3. LastOf(view, i)
      BY <1>1, <1>11, <2>2, <3>1 DEF LastOf, n
    <3>4. Adds(view[i]) <=> Listed(view[i].order)
      BY <1>1, <2>2, <3>3 DEF ListInv
    <3>5. QED
      BY <1>1, <1>3, <2>2, <3>2, <3>4
  <2>3. QED
    BY <1>1, <2>1, <2>2
<1>12. QED
  BY <1>1, <1>2, <1>4, <1>7, <1>8, <1>9, <1>10, <1>11
  DEF ListInv, InChain, Adds, FirstOf, LastOf, Follows, Listed, Elements

-----------------------------------------------------------------------------
\* The transactions that a query can return are the end of the list.
LEMMA RecentIs ==
    ASSUME SyncTypes
    PROVE  /\ Old \in Nat /\ Old <= Len(view) /\ Len(view) \in Nat /\ DOMAIN view = 1 .. Len(view)
           /\ Recent \in Seq(TxSet) /\ Len(Recent) = Len(view) - Old
           /\ \A i \in 1 .. Len(Recent) : /\ Old + i \in 1 .. Len(view)
                                          /\ Recent[i] = view[Old + i]
<1> DEFINE n == Len(view)
           S == {i \in DOMAIN view : view[i].time <= lastFetch}
<1>1. n \in Nat /\ DOMAIN view = 1 .. n /\ view \in Seq(TxSet)
  BY LenProperties DEF SyncTypes
<1>2. IsFiniteSet(1 .. n) /\ Cardinality(1 .. n) = n
  BY <1>1, FS_Interval
<1>3. S \in SUBSET (1 .. n)
  BY <1>1
<1>4. IsFiniteSet(S) /\ Cardinality(S) \in Nat /\ Cardinality(S) <= n
  BY <1>2, <1>3, FS_Subset, FS_CardinalityType
<1>5. Old = Cardinality(S)
  BY DEF Old
<1>6. Old \in Nat /\ Old <= n
  BY <1>4, <1>5
<1> HIDE DEF n, S
<1>7. \A i \in Old + 1 .. n : i \in 1 .. n /\ view[i] \in TxSet
  BY <1>1, <1>6, ElementOfSeq DEF n
<1>8. /\ Recent \in Seq(TxSet) /\ Len(Recent) = IF Old + 1 <= n THEN n - (Old + 1) + 1 ELSE 0
      /\ \A i \in 1 .. n - (Old + 1) + 1 : Recent[i] = view[Old + 1 + i - 1]
  BY <1>1, <1>6, <1>7, SubSeqProperties DEF Recent, n
<1>9. Len(Recent) = n - Old
  <2>1. Old + 1 <= n \/ Old = n
    BY <1>1, <1>6
  <2>2. QED
    BY <1>1, <1>6, <1>8, <2>1
<1>10. ASSUME NEW i \in 1 .. Len(Recent)
       PROVE  Old + i \in 1 .. n /\ Recent[i] = view[Old + i]
  <2>1. i \in 1 .. n - (Old + 1) + 1 /\ Old + 1 + i - 1 = Old + i /\ Old + i \in 1 .. n
    BY <1>1, <1>6, <1>9
  <2>2. QED
    BY <1>8, <2>1
<1>11. QED
  BY <1>1, <1>6, <1>8, <1>9, <1>10 DEF n

\* A page of them is pulled.
LEMMA PullFacts ==
    ASSUME SyncTypes, pullPage, skip <= Len(view) - Old
    PROVE  \E page \in Seq(TxSet) :
             LET n == Len(page)
                 e == Len(events)
             IN  /\ n \in Nat /\ e \in Nat /\ skip' = skip + n /\ Old + skip + n <= Len(view)
                 /\ \A i \in 1 .. n : /\ Old + skip + i \in 1 .. Len(view)
                                      /\ page[i] = view[Old + skip + i] /\ page[i] \in TxSet
                 /\ events' \in Seq(Event) /\ Len(events') = e + n
                 /\ DOMAIN events = 1 .. e /\ DOMAIN events' = 1 .. e + n
                 /\ \A i \in 1 .. e : events'[i] = events[i]
                 /\ \A i \in 1 .. n : events'[e + i] = Pulled(page[i])
                 /\ seen' = seen \o [i \in 1 .. n |-> page[i].id]
                 /\ UNCHANGED <<chainVars, subgraph, fetch, entry, dropped, overlooked, known>>
                 /\ syncPhase = "pulling" /\ syncPhase' \in {"pulling", "applying"}
<1> DEFINE page == Page(Recent, skip)
           n == Len(page)
           e == Len(events)
           new == [i \in 1 .. n |-> Pulled(page[i])]
<1>1. /\ Old \in Nat /\ Len(view) \in Nat /\ skip \in Nat
      /\ Recent \in Seq(TxSet) /\ Len(Recent) = Len(view) - Old
      /\ \A i \in 1 .. Len(Recent) : /\ Old + i \in 1 .. Len(view)
                                     /\ Recent[i] = view[Old + i]
  BY RecentIs DEF SyncTypes
<1>2. /\ page \in Seq(TxSet) /\ n \in Nat
      /\ skip <= Len(Recent) => skip + n <= Len(Recent)
      /\ \A i \in 1 .. n : skip + i \in 1 .. Len(Recent) /\ page[i] = Recent[skip + i]
  <2>1. Recent \in Seq(TxSet) /\ skip \in Nat
    BY <1>1
  <2> HIDE DEF TxSet
  <2>2. QED
    BY <2>1, PageOf
<1>3. /\ events' = events \o new /\ skip' = skip + n
      /\ seen' = seen \o [i \in 1 .. n |-> page[i].id]
      /\ UNCHANGED <<chainVars, subgraph, fetch, entry, dropped, overlooked, known>>
      /\ syncPhase = "pulling" /\ syncPhase' \in {"pulling", "applying"}
  BY DEF pullPage, NextSkip
<1> HIDE DEF page, n
<1>4. \A i \in 1 .. n : page[i] \in TxSet
  BY <1>2, ElementOfSeq DEF n
<1>5. \A i \in 1 .. n : Pulled(page[i]) \in Event
  BY <1>4 DEF Pulled, Event, TxSet, Kinds
<1>6. new \in Seq(Event) /\ Len(new) = n /\ \A i \in 1 .. n : new[i] = Pulled(page[i])
  <2>1. new \in [1 .. n -> Event]
    BY <1>5
  <2>2. new \in Seq(Event)
    BY <1>2, <2>1
  <2>3. Len(new) = n
    BY <1>2, <2>1, <2>2, LenProperties
  <2>4. QED
    BY <2>2, <2>3
<1> HIDE DEF new
<1>7. e \in Nat /\ DOMAIN events = 1 .. e
  BY LenProperties DEF SyncTypes
<1> HIDE DEF e
<1>8. /\ events' \in Seq(Event) /\ Len(events') = e + n
      /\ \A i \in 1 .. e + n : events'[i] = IF i <= e THEN events[i] ELSE new[i - e]
  BY <1>3, <1>6, ConcatProperties DEF SyncTypes, e
<1>9. DOMAIN events' = 1 .. e + n
  BY <1>8, LenProperties
<1>10. ASSUME NEW i \in 1 .. e
       PROVE  events'[i] = events[i]
  <2>1. i \in 1 .. e + n /\ i <= e
    BY <1>2, <1>7
  <2>2. QED
    BY <1>8, <2>1
<1>11. ASSUME NEW i \in 1 .. n
       PROVE  events'[e + i] = Pulled(page[i])
  <2>1. e + i \in 1 .. e + n /\ ~(e + i <= e) /\ (e + i) - e = i
    BY <1>2, <1>7
  <2>2. QED
    BY <1>6, <1>8, <2>1
<1>12. Old + skip + n <= Len(view)
  BY <1>1, <1>2
<1>13. ASSUME NEW i \in 1 .. n
       PROVE  Old + skip + i \in 1 .. Len(view) /\ page[i] = view[Old + skip + i]
  <2>1. Old + (skip + i) = Old + skip + i
    BY <1>1, <1>2
  <2>2. QED
    BY <1>1, <1>2, <2>1
<1>14. QED
  BY <1>2, <1>3, <1>4, <1>7, <1>8, <1>9, <1>10, <1>11, <1>12, <1>13 DEF n, e

\* The next event, and those after it.
LEMMA HeadEvent ==
    ASSUME SyncTypes, events # <<>>
    PROVE  LET n == Len(events)
               rest == Tail(events)
           IN  /\ n \in Nat \ {0} /\ DOMAIN events = 1 .. n
               /\ Head(events) = events[1] /\ events[1] \in Event /\ events[1].order \in Orders
               /\ rest \in Seq(Event) /\ Len(rest) = n - 1 /\ DOMAIN rest = 1 .. n - 1
               /\ \A i \in 1 .. n - 1 : rest[i] = events[i + 1]
               /\ {e.order : e \in Elements(events)} \subseteq Orders
<1> DEFINE n == Len(events)
           rest == Tail(events)
<1>1. events \in Seq(Event) /\ n \in Nat \ {0} /\ DOMAIN events = 1 .. n
  BY EmptySeq, LenProperties DEF SyncTypes
<1>2. /\ Head(events) = events[1] /\ rest \in Seq(Event) /\ Len(rest) = n - 1
      /\ \A i \in 1 .. n - 1 : rest[i] = events[i + 1]
  BY <1>1, HeadTailProperties
<1>3. DOMAIN rest = 1 .. n - 1
  BY <1>2, LenProperties
<1>4. \A i \in 1 .. n : events[i] \in Event /\ events[i].order \in Orders
  <2>1. \A i \in 1 .. n : events[i] \in Event
    BY <1>1, ElementOfSeq
  <2>2. \A e \in Event : e.order \in Orders
    BY DEF Event
  <2>3. QED
    BY <2>1, <2>2
<1>5. {e.order : e \in Elements(events)} \subseteq Orders
  BY <1>1, <1>4 DEF Elements
<1>6. QED
  BY <1>1, <1>2, <1>3, <1>4, <1>5

LEMMA TypesKept ==
    ASSUME SyncTypes, ListInv, FreshInv, skip <= Len(view) - Old, [SyncNext]_syncVars
    PROVE  SyncTypes' /\ FreshInv'
<1>1. CASE tick
  BY <1>1 DEF tick, SyncTypes, FreshInv, subgraph, fetch, sync
<1>2. ASSUME NEW o \in Orders, mine(o)
      PROVE  SyncTypes' /\ FreshInv'
  <2>1. unindexed' \in Seq(TxSet)
    BY <1>2, MineFacts
  <2>2. /\ mined' = mined + 1 /\ active' \subseteq active \union {o}
        /\ UNCHANGED <<clock, subgraph, syncPhase, fetch, sync, known>>
    BY <1>2 DEF mine
  <2>3. SyncTypes'
    BY <2>1, <2>2 DEF SyncTypes, subgraph, fetch, sync
  <2>4. FreshInv'
    BY <2>2 DEF FreshInv, fetch, sync
  <2>5. QED
    BY <2>3, <2>4
<1>3. CASE index
  <2>1. view' \in Seq(TxSet) /\ unindexed' \in Seq(TxSet) /\ Head(unindexed) \in TxSet
    BY <1>3, IndexFacts
  <2>2. listing' \in Seq(Orders)
    BY <1>3, ListingFollows
  <2>3. overlooked' \subseteq Orders
    <3>1. \A i \in DOMAIN listing : listing[i] \in Orders
      BY LenProperties, ElementOfSeq DEF SyncTypes
    <3>2. PassedOver(Head(unindexed)) \subseteq Orders
      BY <3>1 DEF PassedOver
    <3>3. Head(unindexed).order \in Orders
      BY <2>1 DEF TxSet
    <3>4. overlooked' = overlooked \union PassedOver(Head(unindexed))
                                   \union (IF Unseen(Head(unindexed)) THEN {Head(unindexed).order} ELSE {})
      BY <1>3 DEF index
    <3>5. QED
      BY <3>2, <3>3, <3>4 DEF SyncTypes
  <2>4. QED
    BY <1>3, <2>1, <2>2, <2>3 DEF index, SyncTypes, FreshInv, fetch
<1>4. ASSUME fetchPage \/ fetchLastPage
      PROVE  SyncTypes' /\ FreshInv'
  <2> DEFINE page == Page(listing, offset)
  <2>1. Elements(page) \subseteq Orders
    <3>1. page \in Seq(Orders)
      BY PageOf DEF SyncTypes
    <3>2. QED
      BY <3>1, LenProperties, ElementOfSeq DEF Elements
  <2>2. got' \subseteq Orders
    BY <1>4, <2>1 DEF fetchPage, fetchLastPage, SyncTypes
  <2>3. CASE fetchPage
    BY <2>2, <2>3, PageSizeAssumption
    DEF fetchPage, SyncTypes, FreshInv, chainVars, subgraph, sync
  <2>4. CASE fetchLastPage
    <3>1. known' \subseteq got'
      BY <2>4 DEF fetchLastPage, Added
    <3>2. QED
      BY <2>2, <2>4, <3>1 DEF fetchLastPage, SyncTypes, FreshInv, chainVars, subgraph
  <2>5. QED
    BY <1>4, <2>3, <2>4
<1>5. CASE fetchFails
  BY <1>5 DEF fetchFails, SyncTypes, FreshInv, chainVars, subgraph
<1>6. CASE beginSync
  BY <1>6 DEF beginSync, SyncTypes, FreshInv, chainVars, subgraph, fetch
<1>7. CASE pullPage
  <2>1. PICK page \in Seq(TxSet) :
          /\ Len(page) \in Nat /\ skip' = skip + Len(page)
          /\ \A i \in 1 .. Len(page) : page[i] \in TxSet
          /\ events' \in Seq(Event)
          /\ seen' = seen \o [i \in 1 .. Len(page) |-> page[i].id]
          /\ UNCHANGED <<chainVars, subgraph, fetch, entry, dropped, overlooked, known>>
          /\ syncPhase = "pulling" /\ syncPhase' \in {"pulling", "applying"}
    BY <1>7, PullFacts
  <2>2. [i \in 1 .. Len(page) |-> page[i].id] \in Seq(Nat)
    BY <2>1 DEF TxSet
  <2>3. seen' \in Seq(Nat)
    BY <2>1, <2>2, ConcatProperties DEF SyncTypes
  <2>4. QED
    BY <2>1, <2>3 DEF SyncTypes, FreshInv, chainVars, subgraph, fetch
<1>8. CASE pullFails
  BY <1>8 DEF pullFails, SyncTypes, FreshInv, chainVars, subgraph, fetch, sync
<1>9. ASSUME applyAddition \/ additionFails \/ additionThrows \/ applyRemoval \/ ignoreEvent
      PROVE  SyncTypes' /\ FreshInv'
  <2>1. events # <<>> /\ syncPhase = "applying"
    BY <1>9 DEF applyAddition, additionFails, additionThrows, applyRemoval, ignoreEvent
  <2>2. Tail(events) \in Seq(Event) /\ Head(events).order \in Orders
        /\ {e.order : e \in Elements(events)} \subseteq Orders
    BY <2>1, HeadEvent
  <2>3. <<>> \in Seq(Event)
    BY EmptySeq
  <2>4. CASE applyAddition
    BY <2>1, <2>2, <2>4 DEF applyAddition, SyncTypes, FreshInv, chainVars, subgraph, fetch
  <2>5. CASE additionFails
    BY <2>1, <2>2, <2>5 DEF additionFails, SyncTypes, FreshInv, chainVars, subgraph, fetch
  <2>6. CASE additionThrows
    BY <2>2, <2>3, <2>6 DEF additionThrows, SyncTypes, FreshInv, chainVars, subgraph, fetch
  <2>7. CASE applyRemoval
    BY <2>1, <2>2, <2>7 DEF applyRemoval, SyncTypes, FreshInv, chainVars, subgraph, fetch
  <2>8. CASE ignoreEvent
    BY <2>1, <2>2, <2>8 DEF ignoreEvent, SyncTypes, FreshInv, chainVars, subgraph, fetch
  <2>9. QED
    BY <1>9, <2>4, <2>5, <2>6, <2>7, <2>8
<1>10. CASE endSync
  BY <1>10 DEF endSync, SyncTypes, FreshInv, chainVars, subgraph, fetch, sync
<1>11. CASE UNCHANGED syncVars
  BY <1>11 DEF syncVars, SyncTypes, FreshInv, chainVars, subgraph, fetch, sync
<1>12. QED
  BY <1>1, <1>2, <1>3, <1>4, <1>5, <1>6, <1>7, <1>8, <1>9, <1>10, <1>11 DEF SyncNext, solverStep

LEMMA ListKept ==
    ASSUME SyncTypes, ListInv, [SyncNext]_syncVars
    PROVE  ListInv'
<1>1. ASSUME UNCHANGED <<active, unindexed, view, listing>>
      PROVE  ListInv'
  BY <1>1 DEF ListInv, InChain, Listed, Elements
<1>2. CASE solverStep
  <2>1. UNCHANGED <<active, unindexed, view, listing>>
    BY <1>2 DEF solverStep, fetchPage, fetchLastPage, fetchFails, beginSync, pullPage, pullFails,
                applyAddition, additionFails, additionThrows, applyRemoval, ignoreEvent, endSync,
                chainVars, subgraph
  <2>2. QED
    BY <1>1, <2>1
<1>3. CASE tick
  BY <1>1, <1>3 DEF tick, subgraph
<1>4. CASE UNCHANGED syncVars
  BY <1>1, <1>4 DEF syncVars, chainVars, subgraph
<1>5. QED
  BY <1>2, <1>3, <1>4, ListedMine, ListedIndex DEF SyncNext

-----------------------------------------------------------------------------
(***************************************************************************)
(* PulledOnceInOrder: times only grow, so what a query passes over is the  *)
(* beginning of the list and stays so; a transaction that is indexed late  *)
(* lengthens it only while nothing is pulled.                              *)
(***************************************************************************)
TimeInv ==
    /\ lastFetch <= clock
    /\ \A i \in DOMAIN unindexed : unindexed[i].time <= clock
    /\ \A i \in DOMAIN view : view[i].time <= clock
    /\ \A i \in DOMAIN view : \A j \in DOMAIN unindexed : view[i].time <= unindexed[j].time
    /\ \A i \in DOMAIN unindexed : \A j \in 1 .. i - 1 : unindexed[j].time <= unindexed[i].time
    /\ \A i \in DOMAIN view : view[i].time <= lastFetch <=> i <= Old

\* skip counts what is pulled.
PullInv ==
    /\ skip <= Len(view) - Old
    /\ seen = [i \in 1 .. skip |-> view[Old + i].id]

\* The transactions up to a time are counted by the place of the last one.
LEMMA CutCount ==
    ASSUME NEW v, NEW l, NEW m \in Nat, NEW n \in Nat, m <= n, DOMAIN v = 1 .. n,
           \A i \in 1 .. n : v[i].time <= l <=> i <= m
    PROVE  Cardinality({i \in DOMAIN v : v[i].time <= l}) = m
<1>1. {i \in DOMAIN v : v[i].time <= l} = 1 .. m
  OBVIOUS
<1>2. Cardinality(1 .. m) = m
  BY FS_Interval
<1>3. QED
  BY <1>1, <1>2

\* Nothing changes for the queries while neither the list nor the time of the
\* fetch changes.
LEMMA SameQuery ==
    ASSUME UNCHANGED <<view, lastFetch>>
    PROVE  Old' = Old /\ Recent' = Recent
BY DEF Old, Recent

LEMMA PullIndex ==
    ASSUME SyncTypes, TimeInv, PullInv, index
    PROVE  /\ TimeInv' /\ PullInv'
           /\ unindexed[1].time <= lastFetch => skip = 0 /\ Old = Len(view) /\ Old' = Len(view')
           /\ ~(unindexed[1].time <= lastFetch) => Old' = Old
<1> DEFINE t == unindexed[1]
           u == Len(unindexed)
           n == Len(view)
<1>1. /\ t \in TxSet /\ n \in Nat /\ u \in Nat \ {0}
      /\ DOMAIN view = 1 .. n /\ DOMAIN unindexed = 1 .. u
      /\ Len(view') = n + 1 /\ DOMAIN view' = 1 .. n + 1
      /\ view'[n + 1] = t /\ \A i \in 1 .. n : view'[i] = view[i]
      /\ Len(unindexed') = u - 1 /\ DOMAIN unindexed' = 1 .. u - 1
      /\ \A i \in 1 .. u - 1 : unindexed'[i] = unindexed[i + 1]
  BY IndexFacts
<1>2. UNCHANGED <<clock, lastFetch, skip, seen>>
  BY DEF index, fetch
<1>3. Old \in Nat /\ Old <= n
  BY RecentIs
<1>4. skip \in Nat /\ lastFetch \in Nat
  BY DEF SyncTypes
<1>5. t.time \in Nat /\ \A i \in 1 .. n : view[i].time \in Nat
  <2>1. \A i \in 1 .. n : view[i] \in TxSet
    BY <1>1, ElementOfSeq DEF SyncTypes
  <2>2. \A r \in TxSet : r.time \in Nat
    BY DEF TxSet
  <2>3. QED
    BY <1>1, <2>1, <2>2
<1>6. /\ t.time <= clock /\ \A i \in 1 .. n : view[i].time <= t.time /\ view[i].time <= clock
      /\ \A i \in 1 .. n : view[i].time <= lastFetch <=> i <= Old
  <2>1. 1 \in DOMAIN unindexed
    BY <1>1
  <2>2. QED
    BY <1>1, <2>1 DEF TimeInv
<1>7. \A i \in 1 .. u - 1 : /\ i + 1 \in 1 .. u /\ 1 \in 1 .. (i + 1) - 1
                            /\ \A j \in 1 .. i - 1 : j + 1 \in 1 .. (i + 1) - 1 /\ j \in 1 .. u - 1
  BY <1>1
<1> HIDE DEF u, n
<1>8. \A i \in 1 .. u - 1 : /\ unindexed'[i].time <= clock /\ t.time <= unindexed'[i].time
                            /\ \A j \in 1 .. n : view[j].time <= unindexed'[i].time
                            /\ \A j \in 1 .. i - 1 : unindexed'[j].time <= unindexed'[i].time
  <2>1. TAKE i \in 1 .. u - 1
  <2>2. unindexed'[i] = unindexed[i + 1] /\ i + 1 \in DOMAIN unindexed /\ 1 \in 1 .. (i + 1) - 1
    BY <1>1, <1>7
  <2>3. unindexed'[i].time <= clock /\ t.time <= unindexed'[i].time
    BY <2>2 DEF TimeInv, t
  <2>4. \A j \in 1 .. n : view[j].time <= unindexed'[i].time
    BY <1>1, <2>2 DEF TimeInv
  <2>5. ASSUME NEW j \in 1 .. i - 1
        PROVE  unindexed'[j].time <= unindexed'[i].time
    <3>1. unindexed'[j] = unindexed[j + 1] /\ j + 1 \in 1 .. (i + 1) - 1
      BY <1>1, <1>7
    <3>2. QED
      BY <2>2, <3>1 DEF TimeInv
  <2>6. QED
    BY <2>3, <2>4, <2>5
<1> HIDE DEF t
<1> DEFINE m == IF t.time <= lastFetch THEN n + 1 ELSE Old
<1>9. /\ m \in Nat /\ m <= n + 1
      /\ t.time <= lastFetch => m = n + 1
      /\ ~(t.time <= lastFetch) => m = Old
  <2>1. Old \in Nat /\ n \in Nat /\ Old <= n
    BY <1>1, <1>3
  <2>2. CASE t.time <= lastFetch
    BY <2>1, <2>2
  <2>3. CASE ~(t.time <= lastFetch)
    BY <2>1, <2>3
  <2>4. QED
    BY <2>2, <2>3
<1>10. \A i \in 1 .. n + 1 : view'[i].time <= lastFetch <=> i <= m
  <2>1. ASSUME NEW i \in 1 .. n
        PROVE  view'[i].time <= lastFetch <=> i <= m
    <3>1. view'[i] = view[i]
      BY <1>1
    <3>2. CASE t.time <= lastFetch
      <4>1. view[i].time <= t.time /\ view[i].time \in Nat
        BY <1>5, <1>6
      <4>2. view[i].time <= lastFetch /\ i <= n + 1
        BY <1>1, <1>4, <1>5, <3>2, <4>1
      <4>3. QED
        BY <3>1, <3>2, <4>2
    <3>3. CASE ~(t.time <= lastFetch)
      BY <1>6, <3>1, <3>3
    <3>4. QED
      BY <3>2, <3>3
  <2>2. t.time <= lastFetch <=> n + 1 <= m
    BY <1>1, <1>3
  <2>3. \A i \in 1 .. n + 1 : i \in 1 .. n \/ i = n + 1
    BY <1>1
  <2>4. QED
    BY <1>1, <2>1, <2>2, <2>3
<1> HIDE DEF m
<1>11. Old' = m
  <2>0. n + 1 \in Nat /\ DOMAIN view' = 1 .. n + 1
    BY <1>1
  <2>1. Cardinality({i \in DOMAIN view' : view'[i].time <= lastFetch}) = m
    BY <1>9, <1>10, <2>0, CutCount
  <2>2. QED
    BY <1>2, <2>1 DEF Old
<1>12. TimeInv'
  <2>1. \A i \in 1 .. n + 1 : /\ view'[i].time <= clock
                              /\ \A j \in 1 .. u - 1 : view'[i].time <= unindexed'[j].time
    <3>1. \A i \in 1 .. n + 1 : i \in 1 .. n \/ i = n + 1
      BY <1>1
    <3>2. QED
      BY <1>1, <1>6, <1>8, <3>1
  <2>2. QED
    BY <1>1, <1>2, <1>8, <1>10, <1>11, <2>1 DEF TimeInv
<1>13. t.time <= lastFetch => Old = n /\ skip = 0
  <2>1. SUFFICES ASSUME t.time <= lastFetch
                 PROVE  Old = n /\ skip = 0
    OBVIOUS
  <2>2. CASE n = 0
    BY <1>3, <1>4, <2>2 DEF PullInv, n
  <2>3. CASE n # 0
    <3>1. n \in 1 .. n
      BY <1>1, <2>3
    <3>2. view[n].time <= lastFetch
      <4>1. view[n].time <= t.time /\ view[n].time \in Nat
        BY <1>5, <1>6, <3>1
      <4>2. QED
        BY <1>4, <1>5, <2>1, <4>1
    <3>3. n <= Old
      BY <1>6, <3>1, <3>2
    <3>4. Old = n
      BY <1>1, <1>3, <3>3
    <3>5. QED
      BY <1>3, <1>4, <3>4 DEF PullInv, n
  <2>4. QED
    BY <2>2, <2>3
<1>14. PullInv'
  <2>1. skip <= n + 1 - m
    <3>1. CASE t.time <= lastFetch
      BY <1>1, <1>9, <1>13, <3>1
    <3>2. CASE ~(t.time <= lastFetch)
      <4>1. skip <= n - Old
        BY DEF PullInv, n
      <4>2. QED
        BY <1>1, <1>3, <1>4, <1>9, <3>2, <4>1
    <3>3. QED
      BY <3>1, <3>2
  <2>2. ASSUME NEW i \in 1 .. skip
        PROVE  view'[m + i].id = view[Old + i].id
    <3>1. ~(t.time <= lastFetch) /\ m = Old
      BY <1>4, <1>9, <1>13
    <3>2. Old + i \in 1 .. n
      BY <1>1, <1>3, <1>4, <2>1, <3>1 DEF PullInv, n
    <3>3. QED
      BY <1>1, <3>1, <3>2
  <2>3. [i \in 1 .. skip |-> view'[m + i].id] = [i \in 1 .. skip |-> view[Old + i].id]
    BY <2>2
  <2>4. seen' = [i \in 1 .. skip' |-> view'[Old' + i].id]
    BY <1>2, <1>11, <2>3 DEF PullInv
  <2>5. skip' <= Len(view') - Old'
    <3>1. Len(view') = n + 1 /\ skip' = skip /\ skip \in Int /\ n \in Int /\ m \in Int
      BY <1>1, <1>2, <1>4, <1>9
    <3>2. Len(view') - Old' = n + 1 - m
      BY <1>11, <3>1
    <3>3. QED
      BY <2>1, <3>1, <3>2
  <2>6. QED
    BY <2>4, <2>5 DEF PullInv
<1>15. QED
  BY <1>1, <1>9, <1>11, <1>12, <1>13, <1>14 DEF t, n

\* With the last page of the fetch the queries pass over all that is indexed.
LEMMA PullFetched ==
    ASSUME SyncTypes, FreshInv, TimeInv, PullInv, fetchLastPage
    PROVE  TimeInv' /\ PullInv' /\ Old' = Len(view)
<1>1. /\ UNCHANGED <<clock, view, unindexed, skip, seen>> /\ lastFetch' = clock
      /\ skip = 0 /\ seen = <<>>
  BY DEF fetchLastPage, chainVars, subgraph, FreshInv
<1>2. Len(view) \in Nat /\ DOMAIN view = 1 .. Len(view) /\ Old \in Nat /\ Old <= Len(view)
  BY RecentIs
<1>3. \A i \in 1 .. Len(view) : view[i].time <= clock <=> i <= Len(view)
  BY <1>2 DEF TimeInv
<1>4. Old' = Len(view)
  <2>1. Len(view) <= Len(view)
    BY <1>2
  <2>2. Cardinality({i \in DOMAIN view : view[i].time <= clock}) = Len(view)
    BY <1>2, <1>3, <2>1, CutCount
  <2>3. QED
    BY <1>1, <2>2 DEF Old
<1>5. TimeInv'
  <2>1. clock <= clock
    BY DEF SyncTypes
  <2>2. QED
    BY <1>1, <1>2, <1>3, <1>4, <2>1 DEF TimeInv
<1>6. PullInv'
  <2>1. [i \in 1 .. 0 |-> view[Len(view) + i].id] = <<>>
    OBVIOUS
  <2>2. 0 <= Len(view) - Len(view)
    BY <1>2
  <2>3. QED
    BY <1>1, <1>4, <2>1, <2>2 DEF PullInv
<1>7. QED
  BY <1>4, <1>5, <1>6

LEMMA PullPulls ==
    ASSUME SyncTypes, TimeInv, PullInv, pullPage
    PROVE  TimeInv' /\ PullInv'
<1>1. PICK page \in Seq(TxSet) :
        LET n == Len(page)
        IN  /\ n \in Nat /\ skip' = skip + n /\ Old + skip + n <= Len(view)
            /\ \A i \in 1 .. n : page[i] = view[Old + skip + i] /\ page[i] \in TxSet
            /\ seen' = seen \o [i \in 1 .. n |-> page[i].id]
            /\ UNCHANGED <<chainVars, subgraph, fetch, entry, dropped, overlooked, known>>
  BY PullFacts DEF PullInv
<1> DEFINE n == Len(page)
           new == [i \in 1 .. n |-> page[i].id]
<1>2. /\ n \in Nat /\ skip' = skip + n /\ Old + skip + n <= Len(view)
      /\ \A i \in 1 .. n : page[i] = view[Old + skip + i] /\ page[i] \in TxSet
      /\ seen' = seen \o new
      /\ UNCHANGED <<clock, unindexed, view, lastFetch>>
  BY <1>1 DEF chainVars, subgraph, fetch
<1>3. Old' = Old
  BY <1>2, SameQuery
<1>4. /\ Old \in Nat /\ Len(view) \in Nat /\ DOMAIN view = 1 .. Len(view) /\ skip \in Nat
  BY RecentIs DEF SyncTypes
<1> HIDE DEF n
<1>5. TimeInv'
  BY <1>2, <1>3 DEF TimeInv
<1>6. new \in Seq(Nat) /\ Len(new) = n /\ \A i \in 1 .. n : new[i] = page[i].id
  <2>1. \A r \in TxSet : r.id \in Nat
    BY DEF TxSet
  <2>2. new \in Seq(Nat)
    BY <1>2, <2>1
  <2>3. DOMAIN new = 1 .. Len(new) /\ Len(new) \in Nat
    BY <2>2, LenProperties
  <2>4. Len(new) = n
    BY <1>2, <2>3
  <2>5. QED
    BY <2>2, <2>4
<1>7. seen \in Seq(Nat) /\ Len(seen) = skip /\ \A i \in 1 .. skip : seen[i] = view[Old + i].id
  <2>1. seen \in Seq(Nat) /\ seen = [i \in 1 .. skip |-> view[Old + i].id]
    BY DEF SyncTypes, PullInv
  <2>2. DOMAIN seen = 1 .. Len(seen) /\ Len(seen) \in Nat
    BY <2>1, LenProperties
  <2>3. Len(seen) = skip
    BY <1>4, <2>1, <2>2
  <2>4. QED
    BY <2>1, <2>3
<1> HIDE DEF new
<1>8. /\ seen' \in Seq(Nat) /\ Len(seen') = skip + n
      /\ \A i \in 1 .. skip + n : seen'[i] = IF i <= skip THEN seen[i] ELSE new[i - skip]
  <2>1. /\ seen \o new \in Seq(Nat) /\ Len(seen \o new) = Len(seen) + Len(new)
        /\ \A i \in 1 .. Len(seen) + Len(new) :
             (seen \o new)[i] = IF i <= Len(seen) THEN seen[i] ELSE new[i - Len(seen)]
    BY <1>6, <1>7, ConcatProperties
  <2>2. QED
    BY <1>2, <1>6, <1>7, <2>1
<1>9. DOMAIN seen' = 1 .. skip + n /\ seen' = [i \in 1 .. skip + n |-> seen'[i]]
  BY <1>8, LenProperties
<1>10. ASSUME NEW i \in 1 .. skip + n
       PROVE  seen'[i] = view[Old + i].id
  <2>1. CASE i <= skip
    <3>1. i \in 1 .. skip
      BY <1>4, <2>1
    <3>2. QED
      BY <1>7, <1>8, <2>1, <3>1
  <2>2. CASE ~(i <= skip)
    <3>1. i - skip \in 1 .. n /\ Old + skip + (i - skip) = Old + i
      BY <1>2, <1>4, <2>2
    <3>2. seen'[i] = page[i - skip].id
      BY <1>6, <1>8, <2>2, <3>1
    <3>3. page[i - skip] = view[Old + skip + (i - skip)]
      BY <1>2, <3>1
    <3>4. QED
      BY <3>1, <3>2, <3>3
  <2>3. QED
    BY <2>1, <2>2
<1>11. seen' = [i \in 1 .. skip + n |-> view[Old + i].id]
  BY <1>9, <1>10
<1>12. skip + n <= Len(view) - Old
  BY <1>2, <1>4
<1>13. PullInv'
  BY <1>2, <1>3, <1>11, <1>12 DEF PullInv
<1>14. QED
  BY <1>5, <1>13

LEMMA PullKept ==
    ASSUME SyncTypes, ListInv, FreshInv, TimeInv, PullInv, [SyncNext]_syncVars
    PROVE  TimeInv' /\ PullInv'
<1>1. ASSUME UNCHANGED <<unindexed, view, lastFetch, skip, seen>>, clock' \in Nat, clock <= clock'
      PROVE  TimeInv' /\ PullInv'
  <2>1. Old' = Old
    BY <1>1, SameQuery
  <2>2. clock \in Nat /\ lastFetch \in Nat
    BY DEF SyncTypes
  <2>3. /\ \A i \in DOMAIN unindexed : unindexed[i].time \in Nat
        /\ \A i \in DOMAIN view : view[i].time \in Nat
    <3>1. /\ \A i \in DOMAIN unindexed : unindexed[i] \in TxSet
          /\ \A i \in DOMAIN view : view[i] \in TxSet
      BY LenProperties, ElementOfSeq DEF SyncTypes
    <3>2. \A r \in TxSet : r.time \in Nat
      BY DEF TxSet
    <3>3. QED
      BY <3>1, <3>2
  <2>4. /\ \A i \in DOMAIN unindexed : unindexed[i].time <= clock'
        /\ \A i \in DOMAIN view : view[i].time <= clock'
        /\ lastFetch <= clock'
    BY <1>1, <2>2, <2>3 DEF TimeInv
  <2>5. QED
    BY <1>1, <2>1, <2>4 DEF TimeInv, PullInv
<1>2. clock \in Nat /\ clock <= clock
  BY DEF SyncTypes
<1>3. CASE tick
  <2>1. clock' = clock + 1 /\ UNCHANGED <<unindexed, view, lastFetch, skip, seen>>
    BY <1>3 DEF tick, subgraph, fetch, sync
  <2>2. QED
    BY <1>1, <1>2, <2>1
<1>4. ASSUME NEW o \in Orders, mine(o)
      PROVE  TimeInv' /\ PullInv'
  <2>1. PICK t \in TxSet :
          /\ t.time = clock
          /\ DOMAIN unindexed = 1 .. Len(unindexed)
          /\ DOMAIN unindexed' = 1 .. Len(unindexed) + 1
          /\ unindexed'[Len(unindexed) + 1] = t
          /\ \A i \in 1 .. Len(unindexed) : unindexed'[i] = unindexed[i]
          /\ UNCHANGED <<clock, subgraph, syncPhase, fetch, sync, known>>
    BY <1>4, MineFacts
  <2>2. UNCHANGED <<clock, view, lastFetch, skip, seen>>
    BY <2>1 DEF subgraph, fetch, sync
  <2>3. Old' = Old
    BY <2>2, SameQuery
  <2> DEFINE u == Len(unindexed)
  <2>4. u \in Nat
    BY LenProperties DEF SyncTypes
  <2> HIDE DEF u
  <2>5. \A i \in 1 .. u + 1 : /\ i \in 1 .. u \/ i = u + 1
                              /\ \A j \in 1 .. i - 1 : j \in 1 .. u
    BY <2>4
  <2>6. \A i \in 1 .. u + 1 : /\ unindexed'[i].time <= clock
                              /\ \A j \in 1 .. i - 1 : unindexed'[j].time <= unindexed'[i].time
                              /\ \A j \in DOMAIN view : view[j].time <= unindexed'[i].time
    BY <1>2, <2>1, <2>5 DEF TimeInv, u
  <2>7. TimeInv'
    BY <2>1, <2>2, <2>3, <2>6 DEF TimeInv, u
  <2>8. PullInv'
    BY <2>2, <2>3 DEF PullInv
  <2>9. QED
    BY <2>7, <2>8
<1>5. CASE index
  BY <1>5, PullIndex
<1>6. CASE fetchLastPage
  BY <1>6, PullFetched
<1>7. CASE pullPage
  BY <1>7, PullPulls
<1>8. ASSUME \/ fetchPage \/ fetchFails \/ beginSync \/ pullFails \/ endSync
             \/ applyAddition \/ additionFails \/ additionThrows \/ applyRemoval \/ ignoreEvent
      PROVE  TimeInv' /\ PullInv'
  <2>1. UNCHANGED <<clock, unindexed, view, lastFetch, skip, seen>>
    BY <1>8 DEF fetchPage, fetchFails, beginSync, pullFails, applyAddition, additionFails,
                additionThrows, applyRemoval, ignoreEvent, endSync, chainVars, subgraph, fetch, sync
  <2>2. QED
    BY <1>1, <1>2, <2>1
<1>9. CASE UNCHANGED syncVars
  <2>1. UNCHANGED <<clock, unindexed, view, lastFetch, skip, seen>>
    BY <1>9 DEF syncVars, chainVars, subgraph, fetch, sync
  <2>2. QED
    BY <1>1, <1>2, <2>1
<1>10. QED
  BY <1>3, <1>4, <1>5, <1>6, <1>7, <1>8, <1>9 DEF SyncNext, solverStep

\* What holds of the chain, its lists and the cursor.
SyncInv == SyncTypes /\ FreshInv /\ ListInv /\ TimeInv /\ PullInv

LEMMA ListInitially == SyncInit => ListInv
<1> SUFFICES ASSUME SyncInit
             PROVE  ListInv
  OBVIOUS
<1>1. PICK s \in [1 .. Cardinality(Orders) -> Orders] :
        /\ Elements(s) = Orders
        /\ \E n \in 0 .. Cardinality(Orders) : listing = SubSeq(s, 1, n)
  BY DEF SyncInit
<1>2. PICK n \in 0 .. Cardinality(Orders) : listing = SubSeq(s, 1, n)
  BY <1>1
<1> DEFINE c == Cardinality(Orders)
<1>3. c \in Nat /\ IsFiniteSet(1 .. c) /\ Cardinality(1 .. c) = c
  <2>1. c \in Nat
    BY OrdersAssumption, FS_CardinalityType
  <2>2. QED
    BY <2>1, FS_Interval
<1> HIDE DEF c
<1>4. s \in [1 .. c -> Orders] /\ DOMAIN s = 1 .. c /\ n \in Nat /\ n <= c
  BY <1>1, <1>2, <1>3 DEF c
<1>5. \A i, j \in 1 .. c : s[i] = s[j] => i = j
  <2>1. \A o \in Orders : \E i \in 1 .. c : s[i] = o
    BY <1>1, <1>4 DEF Elements
  <2>2. s \in Surjection(1 .. c, Orders)
    BY <1>4, <2>1 DEF Surjection
  <2>3. s \in Injection(1 .. c, Orders)
    BY <1>3, <2>2, FS_SurjSameCardinalityImpliesInj DEF c
  <2>4. QED
    BY <2>3 DEF Injection, IsInjective
<1>6. Len(listing) = n /\ DOMAIN listing = 1 .. n /\ \A i \in 1 .. n : listing[i] = s[i]
  <2>1. \A i \in 1 .. n : s[i] \in Orders
    <3>1. \A i \in 1 .. n : i \in 1 .. c
      BY <1>3, <1>4
    <3>2. QED
      BY <1>4, <3>1
  <2>2. /\ listing \in Seq(Orders) /\ Len(listing) = IF 1 <= n THEN n - 1 + 1 ELSE 0
        /\ \A i \in 1 .. n - 1 + 1 : listing[i] = s[1 + i - 1]
    BY <1>2, <1>4, <2>1, SubSeqProperties
  <2>3. n - 1 + 1 = n /\ \A i \in 1 .. n : 1 + i - 1 = i
    BY <1>4
  <2>4. Len(listing) = n
    <3>1. 1 <= n \/ n = 0
      BY <1>4
    <3>2. QED
      BY <1>4, <2>2, <3>1
  <2>5. QED
    BY <2>2, <2>3, <2>4, LenProperties
<1>7. IsInjective(listing)
  <2>1. \A i \in 1 .. n : i \in 1 .. c
    BY <1>3, <1>4
  <2>2. QED
    BY <1>5, <1>6, <2>1 DEF IsInjective
<1>8. /\ DOMAIN unindexed = {} /\ DOMAIN view = {}
      /\ \A o : o \in active <=> Listed(o)
  BY DEF SyncInit, Listed
<1>9. QED
  BY <1>7, <1>8 DEF ListInv, InChain

LEMMA PullInitially == SyncInit => TimeInv /\ PullInv
<1> SUFFICES ASSUME SyncInit
             PROVE  TimeInv /\ PullInv
  OBVIOUS
<1>1. /\ DOMAIN unindexed = {} /\ DOMAIN view = {} /\ clock = 1 /\ lastFetch = 0
      /\ skip = 0 /\ seen = <<>> /\ view = <<>>
  BY DEF SyncInit, NoTime
<1>2. Old = 0
  <2>1. {i \in DOMAIN view : view[i].time <= lastFetch} = {}
    BY <1>1
  <2>2. QED
    BY <2>1, FS_EmptySet DEF Old
<1>3. TimeInv
  BY <1>1 DEF TimeInv
<1>4. PullInv
  <2>1. [i \in 1 .. 0 |-> view[Old + i].id] = <<>>
    OBVIOUS
  <2>2. 0 <= Len(<<>>) - 0
    BY EmptySeq
  <2>3. QED
    BY <1>1, <1>2, <2>1, <2>2 DEF PullInv
<1>5. QED
  BY <1>3, <1>4

LEMMA SyncInvHolds == SyncSpec => []SyncInv
<1>1. SyncInit => SyncInv
  BY TypesInitially, ListInitially, PullInitially DEF SyncInv
<1>2. SyncInv /\ [SyncNext]_syncVars => SyncInv'
  <2> SUFFICES ASSUME SyncInv, [SyncNext]_syncVars
               PROVE  SyncInv'
    OBVIOUS
  <2>1. SyncTypes /\ FreshInv /\ ListInv /\ TimeInv /\ PullInv
    BY DEF SyncInv
  <2>2. SyncTypes' /\ FreshInv'
    BY <2>1, TypesKept DEF PullInv
  <2>3. ListInv'
    BY <2>1, ListKept
  <2>4. TimeInv' /\ PullInv'
    BY <2>1, PullKept
  <2>5. QED
    BY <2>2, <2>3, <2>4 DEF SyncInv
<1>3. QED
  BY <1>1, <1>2, PTL DEF SyncSpec

\* Each transaction since the fetch is pulled once and in sequence, whatever
\* pages fail, however long the pages are, and whatever lags (skip and
\* lastFetchTimestamp of syncState).
THEOREM EventsArePulledOnce == SyncSpec => []PulledOnceInOrder
<1>1. SyncInv => PulledOnceInOrder
  <2> SUFFICES ASSUME SyncInv
               PROVE  PulledOnceInOrder
    OBVIOUS
  <2>1. /\ Old \in Nat /\ Len(Recent) = Len(view) - Old
        /\ \A i \in 1 .. Len(Recent) : Recent[i] = view[Old + i]
    BY RecentIs DEF SyncInv
  <2>2. skip \in Nat /\ skip <= Len(Recent) /\ Len(Recent) \in Nat
    <3>1. Recent \in Seq(TxSet)
      BY RecentIs DEF SyncInv
    <3>2. QED
      BY <2>1, <3>1, LenProperties DEF SyncInv, SyncTypes, PullInv
  <2>3. \A i \in 1 .. skip : Recent[i] = view[Old + i]
    <3>1. \A i \in 1 .. skip : i \in 1 .. Len(Recent)
      BY <2>2
    <3>2. QED
      BY <2>1, <3>1
  <2>4. [i \in 1 .. skip |-> Recent[i].id] = [i \in 1 .. skip |-> view[Old + i].id]
    BY <2>3
  <2>5. QED
    BY <2>4 DEF SyncInv, PullInv, PulledOnceInOrder
<1>2. QED
  BY <1>1, SyncInvHolds, PTL

-----------------------------------------------------------------------------
(***************************************************************************)
(* Converged: the last event of an order tells what is listed, and what is *)
(* listed is what is active once nothing of the order is still to come.    *)
(***************************************************************************)
Waits(o) == \E i \in Old + skip + 1 .. Len(view) : view[i].order = o
InEvents(o) == \E i \in DOMAIN events : events[i].order = o

\* The last event that is pulled of an order, when no other waits.
EventInv ==
    /\ skip = 0 => events = <<>>
    /\ \A i \in DOMAIN events : LastOf(events, i) /\ ~Waits(events[i].order) =>
         /\ events[i].active <=> Listed(events[i].order)
         /\ Adds(events[i]) <=> Listed(events[i].order)

\* An order of which nothing is still to come, and that is not excepted.
KnownInv ==
    syncPhase # "fetching" =>
        \A o \in Orders \ overlooked :
            ~Waits(o) /\ ~InEvents(o) /\ ~InChain(o) => (o \in known <=> o \in active)

\* The pages that are read hold what is listed so far.
FetchInv ==
    syncPhase = "fetching" =>
        /\ offset = 0 => got = {}
        /\ got \subseteq Elements(listing) \union overlooked
        /\ \A i \in 1 .. offset : i <= Len(listing) => listing[i] \in got \union overlooked

\* What is indexed waits to be pulled, unless the queries pass over it.
LEMMA WaitsIndexed ==
    ASSUME SyncTypes, TimeInv, PullInv, index, ~(unindexed[1].time <= lastFetch)
    PROVE  \A o : Waits(o)' <=> Waits(o) \/ o = unindexed[1].order
<1> DEFINE n == Len(view)
           b == Old + skip
<1>1. /\ n \in Nat /\ Len(view') = n + 1 /\ view'[n + 1] = unindexed[1]
      /\ \A i \in 1 .. n : view'[i] = view[i]
  BY IndexFacts
<1>2. Old' = Old /\ skip' = skip
  BY PullIndex DEF index
<1>3. b \in Nat /\ b <= n
  BY RecentIs DEF SyncTypes, PullInv
<1>4. Old' + skip' = b
  BY <1>2
<1> HIDE DEF b, n
<1>5. \A i \in b + 1 .. n : i \in 1 .. n /\ i \in b + 1 .. n + 1
  BY <1>1, <1>3
<1>6. \A i \in b + 1 .. n + 1 : i \in b + 1 .. n \/ i = n + 1
  BY <1>1, <1>3
<1>7. n + 1 \in b + 1 .. n + 1
  BY <1>1, <1>3
<1>8. ASSUME NEW o
      PROVE  (\E i \in b + 1 .. n + 1 : view'[i].order = o)
                <=> (\E i \in b + 1 .. n : view[i].order = o) \/ o = unindexed[1].order
  BY <1>1, <1>5, <1>6, <1>7
<1>9. \A o : Waits(o) <=> \E i \in b + 1 .. n : view[i].order = o
  BY DEF Waits, b, n
<1>10. \A o : Waits(o)' <=> \E i \in b + 1 .. n + 1 : view'[i].order = o
  BY <1>1, <1>4 DEF Waits
<1>11. QED
  BY <1>8, <1>9, <1>10

\* What a page holds no longer waits: it is among the events.
LEMMA WaitsPulled ==
    ASSUME SyncTypes, PullInv, pullPage
    PROVE  \A o : Waits(o) => Waits(o)' \/ InEvents(o)'
<1>1. PICK page \in Seq(TxSet) :
        LET n == Len(page)
            e == Len(events)
        IN  /\ n \in Nat /\ e \in Nat /\ skip' = skip + n /\ Old + skip + n <= Len(view)
            /\ \A i \in 1 .. n : page[i] = view[Old + skip + i]
            /\ DOMAIN events' = 1 .. e + n
            /\ \A i \in 1 .. n : events'[e + i] = Pulled(page[i])
            /\ UNCHANGED <<chainVars, subgraph, fetch, entry, dropped, overlooked, known>>
  BY PullFacts DEF PullInv
<1> DEFINE n == Len(page)
           e == Len(events)
           b == Old + skip
<1>2. /\ n \in Nat /\ e \in Nat /\ skip' = skip + n /\ b + n <= Len(view)
      /\ \A i \in 1 .. n : page[i] = view[b + i]
      /\ DOMAIN events' = 1 .. e + n
      /\ \A i \in 1 .. n : events'[e + i] = Pulled(page[i])
      /\ UNCHANGED <<view, lastFetch>>
  BY <1>1 DEF subgraph, fetch
<1>3. Old' = Old
  BY <1>2, SameQuery
<1>4. b \in Nat /\ Len(view) \in Nat /\ Old' + skip' = b + n
  <2>1. Old \in Nat /\ Len(view) \in Nat
    BY RecentIs
  <2>2. skip \in Nat
    BY DEF SyncTypes
  <2>3. n \in Nat /\ skip' = skip + n
    BY <1>2
  <2>4. QED
    BY <1>3, <2>1, <2>2, <2>3
<1> HIDE DEF b, n, e
<1>5. ASSUME NEW o, NEW i \in b + 1 .. Len(view), view[i].order = o
      PROVE  Waits(o)' \/ InEvents(o)'
  <2>1. CASE i <= b + n
    <3>1. i - b \in 1 .. n /\ b + (i - b) = i /\ e + (i - b) \in 1 .. e + n
      BY <1>2, <1>4, <2>1
    <3>2. events'[e + (i - b)] = Pulled(view[i])
      BY <1>2, <3>1
    <3>3. events'[e + (i - b)].order = o
      BY <1>5, <3>2 DEF Pulled
    <3>4. QED
      BY <1>2, <3>1, <3>3 DEF InEvents
  <2>2. CASE ~(i <= b + n)
    <3>1. i \in b + n + 1 .. Len(view)
      BY <1>2, <1>4, <2>2
    <3>2. \E j \in Old' + skip' + 1 .. Len(view') : view'[j].order = o
      BY <1>2, <1>4, <1>5, <3>1
    <3>3. QED
      BY <3>2 DEF Waits
  <2>3. QED
    BY <2>1, <2>2
<1>6. QED
  BY <1>5 DEF Waits, b

LEMMA EventPulled ==
    ASSUME SyncTypes, ListInv, PullInv, EventInv, pullPage
    PROVE  EventInv'
<1>1. PICK page \in Seq(TxSet) :
        LET n == Len(page)
            e == Len(events)
        IN  /\ n \in Nat /\ e \in Nat /\ skip' = skip + n /\ Old + skip + n <= Len(view)
            /\ \A i \in 1 .. n : /\ Old + skip + i \in 1 .. Len(view)
                                 /\ page[i] = view[Old + skip + i] /\ page[i] \in TxSet
            /\ events' \in Seq(Event) /\ Len(events') = e + n
            /\ DOMAIN events = 1 .. e /\ DOMAIN events' = 1 .. e + n
            /\ \A i \in 1 .. e : events'[i] = events[i]
            /\ \A i \in 1 .. n : events'[e + i] = Pulled(page[i])
            /\ UNCHANGED <<chainVars, subgraph, fetch, entry, dropped, overlooked, known>>
  BY PullFacts DEF PullInv
<1> DEFINE n == Len(page)
           e == Len(events)
           b == Old + skip
           Left(o) == \E i \in b + n + 1 .. Len(view) : view[i].order = o
<1>2. /\ n \in Nat /\ e \in Nat /\ skip' = skip + n /\ b + n <= Len(view)
      /\ \A i \in 1 .. n : b + i \in 1 .. Len(view) /\ page[i] = view[b + i]
      /\ events' \in Seq(Event) /\ Len(events') = e + n
      /\ DOMAIN events = 1 .. e /\ DOMAIN events' = 1 .. e + n
      /\ \A i \in 1 .. e : events'[i] = events[i]
      /\ \A i \in 1 .. n : events'[e + i] = Pulled(page[i])
      /\ UNCHANGED <<view, listing, lastFetch>>
  BY <1>1 DEF subgraph, fetch
<1>3. Old' = Old
  BY <1>2, SameQuery
<1>4. /\ b \in Nat /\ Len(view) \in Nat /\ DOMAIN view = 1 .. Len(view) /\ Old' + skip' = b + n
      /\ skip \in Nat
  <2>1. Old \in Nat /\ Len(view) \in Nat /\ DOMAIN view = 1 .. Len(view)
    BY RecentIs
  <2>2. skip \in Nat
    BY DEF SyncTypes
  <2>3. n \in Nat /\ skip' = skip + n
    BY <1>2
  <2>4. QED
    BY <1>3, <2>1, <2>2, <2>3
<1>5. \A o : Waits(o) => \E i \in b + 1 .. Len(view) : view[i].order = o
  BY DEF Waits
<1>6. Old' + skip' + 1 .. Len(view') = b + n + 1 .. Len(view)
  BY <1>2, <1>4
<1>7. Elements(listing)' = Elements(listing)
  BY <1>2 DEF Elements
<1> HIDE DEF b, n, e
<1>8. \A i \in 1 .. n : e + i \in 1 .. e + n
  BY <1>2
\* An event that was pulled before.
<1>9. ASSUME NEW i \in 1 .. e, LastOf(events', i), ~Left(events'[i].order)
      PROVE  /\ events'[i].active <=> Listed(events'[i].order)
             /\ Adds(events'[i]) <=> Listed(events'[i].order)
  <2>1. /\ i \in DOMAIN events /\ events'[i] = events[i]
        /\ \A j \in i + 1 .. e : j \in i + 1 .. e + n /\ j \in 1 .. e
        /\ \A j \in 1 .. n : e + j \in i + 1 .. e + n
    BY <1>2
  <2>2. LastOf(events, i)
    BY <1>2, <1>9, <2>1 DEF LastOf, e
  <2>3. ~Waits(events[i].order)
    <3>1. SUFFICES ASSUME NEW k \in b + 1 .. Len(view), view[k].order = events[i].order
                   PROVE  FALSE
      BY <1>5
    <3>2. CASE k <= b + n
      <4>1. k - b \in 1 .. n /\ b + (k - b) = k
        <5>1. b \in Nat /\ n \in Nat /\ Len(view) \in Nat
          BY <1>2, <1>4
        <5>2. QED
          BY <3>2, <5>1
      <4>2. events'[e + (k - b)] = Pulled(view[k])
        <5>1. page[k - b] = view[k] /\ events'[e + (k - b)] = Pulled(page[k - b])
          BY <1>2, <4>1
        <5>2. QED
          BY <5>1
      <4>3. events'[e + (k - b)].order = events'[i].order
        BY <2>1, <3>1, <4>2 DEF Pulled
      <4>4. QED
        BY <1>2, <1>9, <2>1, <4>1, <4>3 DEF LastOf
    <3>3. CASE ~(k <= b + n)
      <4>1. k \in b + n + 1 .. Len(view)
        BY <1>2, <1>4, <3>3
      <4>2. QED
        BY <1>9, <2>1, <3>1, <4>1
    <3>4. QED
      BY <3>2, <3>3
  <2>4. QED
    BY <2>1, <2>2, <2>3 DEF EventInv
\* A new one.
<1>10. ASSUME NEW k \in 1 .. n, LastOf(events', e + k), ~Left(events'[e + k].order)
       PROVE  /\ events'[e + k].active <=> Listed(events'[e + k].order)
              /\ Adds(events'[e + k]) <=> Listed(events'[e + k].order)
  <2> DEFINE t == view[b + k]
  <2>1. events'[e + k] = Pulled(t) /\ b + k \in DOMAIN view
    BY <1>2, <1>4
  <2>2. /\ Pulled(t).order = t.order /\ Pulled(t).kind = t.kind
        /\ Pulled(t).active = (t.order \in Elements(listing))
    BY DEF Pulled
  <2> HIDE DEF t
  <2>3. ASSUME NEW j \in b + k + 1 .. Len(view)
        PROVE  view[j].order # t.order
    <3>1. CASE j <= b + n
      <4>1. j - b \in 1 .. n /\ b + (j - b) = j /\ e + (j - b) \in e + k + 1 .. e + n
        <5>1. b \in Nat /\ n \in Nat /\ e \in Nat /\ Len(view) \in Nat
          BY <1>2, <1>4
        <5>2. QED
          BY <3>1, <5>1
      <4>2. events'[e + (j - b)] = Pulled(view[j])
        <5>1. page[j - b] = view[j] /\ events'[e + (j - b)] = Pulled(page[j - b])
          BY <1>2, <4>1
        <5>2. QED
          BY <5>1
      <4>3. events'[e + (j - b)].order # events'[e + k].order
        BY <1>2, <1>10, <4>1 DEF LastOf
      <4>4. QED
        BY <2>1, <2>2, <4>2, <4>3 DEF Pulled
    <3>2. CASE ~(j <= b + n)
      <4>1. j \in b + n + 1 .. Len(view)
        BY <1>2, <1>4, <3>2
      <4>2. QED
        BY <1>10, <2>1, <2>2, <4>1
    <3>3. QED
      BY <3>1, <3>2
  <2>4. LastOf(view, b + k)
    BY <2>3 DEF LastOf, t
  <2>5. Adds(t) <=> Listed(t.order)
    BY <2>1, <2>4 DEF ListInv, t
  <2>6. QED
    BY <2>1, <2>2, <2>5 DEF Adds, Listed
<1>11. ASSUME NEW i \in 1 .. e + n, LastOf(events', i), ~Left(events'[i].order)
       PROVE  /\ events'[i].active <=> Listed(events'[i].order)
              /\ Adds(events'[i]) <=> Listed(events'[i].order)
  <2>1. CASE i \in 1 .. e
    BY <1>9, <1>11, <2>1
  <2>2. CASE i \notin 1 .. e
    <3>1. i - e \in 1 .. n /\ e + (i - e) = i
      BY <1>2, <2>2
    <3>2. QED
      BY <1>10, <1>11, <3>1
  <2>3. QED
    BY <2>1, <2>2
<1>12. skip' = 0 => events' = <<>>
  <2>1. SUFFICES ASSUME skip' = 0
                 PROVE  events' = <<>>
    OBVIOUS
  <2>2. skip = 0 /\ n = 0
    BY <1>2, <1>4, <2>1
  <2>3. e = 0
    BY <2>2, EmptySeq DEF EventInv, e
  <2>4. QED
    BY <1>2, <2>2, <2>3, EmptySeq
<1>13. QED
  BY <1>2, <1>6, <1>7, <1>11, <1>12 DEF EventInv, Adds, LastOf, Waits, Listed

\* The first event is dealt with.
LEMMA EventTaken ==
    ASSUME SyncTypes, EventInv, events # <<>>, events' = Tail(events),
           UNCHANGED <<view, listing, lastFetch, skip>>
    PROVE  /\ EventInv'
           /\ \A o : o # events[1].order /\ ~InEvents(o)' => ~InEvents(o)
           /\ \A o : o = events[1].order /\ ~InEvents(o)' => LastOf(events, 1)
<1> DEFINE n == Len(events)
<1>1. /\ n \in Nat \ {0} /\ DOMAIN events = 1 .. n
      /\ Len(events') = n - 1 /\ DOMAIN events' = 1 .. n - 1
      /\ \A i \in 1 .. n - 1 : events'[i] = events[i + 1]
  BY HeadEvent
<1>2. Old' = Old /\ Len(view') = Len(view) /\ Elements(listing)' = Elements(listing)
  BY SameQuery DEF Elements
<1> HIDE DEF n
<1>3. ASSUME NEW i \in 1 .. n - 1, LastOf(events', i)
      PROVE  i + 1 \in 1 .. n /\ LastOf(events, i + 1)
  <2>1. ASSUME NEW k \in (i + 1) + 1 .. n
        PROVE  events[k].order # events[i + 1].order
    <3>1. k - 1 \in i + 1 .. n - 1 /\ k - 1 \in 1 .. n - 1 /\ (k - 1) + 1 = k
      BY <1>1
    <3>2. events'[k - 1].order # events'[i].order
      BY <1>1, <1>3, <3>1 DEF LastOf
    <3>3. QED
      BY <1>1, <3>1, <3>2
  <2>2. i + 1 \in 1 .. n
    BY <1>1
  <2>3. QED
    BY <2>1, <2>2 DEF LastOf, n
<1>4. EventInv'
  <2>1. skip' # 0
    BY DEF EventInv
  <2>2. ASSUME NEW i \in 1 .. n - 1, LastOf(events', i), ~Waits(events[i + 1].order)
        PROVE  /\ events'[i].active <=> Listed(events'[i].order)
               /\ Adds(events'[i]) <=> Listed(events'[i].order)
    <3>1. i + 1 \in DOMAIN events /\ LastOf(events, i + 1) /\ events'[i] = events[i + 1]
      BY <1>1, <1>3, <2>2
    <3>2. QED
      BY <2>2, <3>1 DEF EventInv
  <2>3. Old' + skip' + 1 .. Len(view') = Old + skip + 1 .. Len(view) /\ view' = view
    BY <1>2
  <2>4. ASSUME NEW i \in DOMAIN events', LastOf(events', i),
               ~ \E k \in Old' + skip' + 1 .. Len(view') : view'[k].order = events'[i].order
        PROVE  /\ events'[i].active <=> events'[i].order \in Elements(listing)'
               /\ Adds(events'[i]) <=> events'[i].order \in Elements(listing)'
    <3>1. i \in 1 .. n - 1 /\ events'[i] = events[i + 1]
      BY <1>1
    <3>2. ~Waits(events[i + 1].order)
      BY <2>3, <2>4, <3>1 DEF Waits
    <3>3. QED
      BY <1>2, <2>2, <2>4, <3>1, <3>2 DEF Listed
  <2>5. QED
    BY <2>1, <2>4 DEF EventInv, Waits, Listed
<1>5. ASSUME NEW o, ~InEvents(o)'
      PROVE  \A k \in 1 + 1 .. n : events[k].order # o
  <2>1. SUFFICES ASSUME NEW k \in 1 + 1 .. n
                 PROVE  events[k].order # o
    OBVIOUS
  <2>2. k - 1 \in 1 .. n - 1 /\ (k - 1) + 1 = k
    BY <1>1
  <2>3. events'[k - 1].order # o
    BY <1>1, <1>5, <2>2 DEF InEvents
  <2>4. QED
    BY <1>1, <2>2, <2>3
<1>6. ASSUME NEW o, o # events[1].order, ~InEvents(o)'
      PROVE  ~InEvents(o)
  <2>1. \A k \in 1 .. n : k = 1 \/ k \in 1 + 1 .. n
    BY <1>1
  <2>2. QED
    BY <1>1, <1>5, <1>6, <2>1 DEF InEvents
<1>7. \A o : o = events[1].order /\ ~InEvents(o)' => LastOf(events, 1)
  BY <1>1, <1>5 DEF LastOf, n
<1>8. QED
  BY <1>4, <1>6, <1>7

LEMMA EventKept ==
    ASSUME SyncInv, EventInv, [SyncNext]_syncVars
    PROVE  EventInv'
<1>1. SyncTypes /\ FreshInv /\ ListInv /\ TimeInv /\ PullInv
  BY DEF SyncInv
<1>2. ASSUME UNCHANGED <<view, listing, lastFetch, skip, events>>
      PROVE  EventInv'
  <2>1. Old' = Old
    BY <1>2, SameQuery
  <2>2. QED
    BY <1>2, <2>1 DEF EventInv, Waits, Listed, Elements, LastOf, Adds
<1>3. ASSUME events' = <<>>
      PROVE  EventInv'
  <2>1. DOMAIN events' = {}
    BY <1>3
  <2>2. QED
    BY <1>3, <2>1 DEF EventInv
<1>4. CASE tick \/ (\E o \in Orders : mine(o))
  BY <1>2, <1>4 DEF tick, mine, subgraph, fetch, sync
<1>5. CASE index
  <2> DEFINE t == unindexed[1]
  <2>1. UNCHANGED <<skip, events>>
    BY <1>5 DEF index
  <2>2. CASE t.time <= lastFetch
    <3>1. skip = 0
      BY <1>1, <1>5, <2>2, PullIndex
    <3>2. QED
      BY <1>3, <2>1, <3>1 DEF EventInv
  <2>3. CASE ~(t.time <= lastFetch)
    <3>1. \A o : Waits(o)' <=> Waits(o) \/ o = t.order
      BY <1>1, <1>5, <2>3, WaitsIndexed
    <3>2. \A o : o # t.order => (Listed(o)' <=> Listed(o))
      BY <1>1, <1>5, ListingFollows DEF Listed
    <3> HIDE DEF t
    <3>3. ASSUME NEW e, e.order # t.order,
                 /\ e.active <=> Listed(e.order)
                 /\ Adds(e) <=> Listed(e.order)
          PROVE  /\ e.active <=> e.order \in Elements(listing)'
                 /\ Adds(e) <=> e.order \in Elements(listing)'
      BY <3>2, <3>3 DEF Listed
    <3>4. ASSUME NEW i \in DOMAIN events, LastOf(events, i),
                 ~\E k \in Old' + skip' + 1 .. Len(view') : view'[k].order = events[i].order
          PROVE  /\ events[i].active <=> events[i].order \in Elements(listing)'
                 /\ Adds(events[i]) <=> events[i].order \in Elements(listing)'
      <4>1. \A o : ~(\E k \in Old' + skip' + 1 .. Len(view') : view'[k].order = o)
                      => ~Waits(o) /\ o # t.order
        BY <3>1 DEF Waits
      <4>2. ~Waits(events[i].order) /\ events[i].order # t.order
        BY <3>4, <4>1
      <4>3. QED
        BY <3>3, <3>4, <4>2 DEF EventInv
    <3>5. skip' = 0 => events' = <<>>
      BY <2>1 DEF EventInv
    <3>6. QED
      BY <2>1, <3>4, <3>5 DEF EventInv, Waits, Listed, LastOf, Adds
  <2>4. QED
    BY <2>2, <2>3
<1>6. CASE fetchLastPage
  <2>1. events' = <<>>
    BY <1>1, <1>6 DEF fetchLastPage, FreshInv
  <2>2. QED
    BY <1>3, <2>1
<1>7. CASE pullPage
  BY <1>1, <1>7, EventPulled
<1>8. CASE fetchPage \/ fetchFails \/ beginSync \/ pullFails \/ endSync
  BY <1>2, <1>8 DEF fetchPage, fetchFails, beginSync, pullFails, endSync, subgraph, fetch, sync
<1>9. CASE applyAddition \/ additionFails \/ applyRemoval \/ ignoreEvent
  <2>1. events # <<>> /\ events' = Tail(events) /\ UNCHANGED <<view, listing, lastFetch, skip>>
    BY <1>9 DEF applyAddition, additionFails, applyRemoval, ignoreEvent, subgraph, fetch
  <2>2. QED
    BY <1>1, <2>1, EventTaken
<1>10. CASE additionThrows
  BY <1>3, <1>10 DEF additionThrows
<1>11. CASE UNCHANGED syncVars
  BY <1>2, <1>11 DEF syncVars, subgraph, fetch, sync
<1>12. QED
  BY <1>4, <1>5, <1>6, <1>7, <1>8, <1>9, <1>10, <1>11 DEF SyncNext, solverStep

\* A page is read.
LEMMA FetchRead ==
    ASSUME SyncTypes, FetchInv, syncPhase = "fetching",
           got' = got \union Elements(Page(listing, offset))
    PROVE  /\ got' \subseteq Elements(listing) \union overlooked
           /\ \A i \in 1 .. offset + Len(Page(listing, offset)) :
                i <= Len(listing) => listing[i] \in got' \union overlooked
<1> DEFINE page == Page(listing, offset)
           m == Len(page)
           n == Len(listing)
<1>1. /\ m \in Nat /\ DOMAIN page = 1 .. m
      /\ \A i \in 1 .. m : offset + i \in 1 .. n /\ page[i] = listing[offset + i]
  BY PageOf DEF SyncTypes
<1>2. n \in Nat /\ DOMAIN listing = 1 .. n /\ offset \in Nat
  BY LenProperties DEF SyncTypes
<1> HIDE DEF page, m
<1>3. got' = got \union Elements(page)
  BY DEF page
<1> HIDE DEF n
<1>4. Elements(page) \subseteq Elements(listing)
  BY <1>1, <1>2 DEF Elements
<1>5. ASSUME NEW i \in 1 .. offset + m, i <= n
      PROVE  listing[i] \in got' \union overlooked
  <2>1. CASE i <= offset
    <3>1. i \in 1 .. offset
      BY <1>1, <1>2, <2>1
    <3>2. listing[i] \in got \union overlooked
      BY <1>5, <3>1 DEF FetchInv, n
    <3>3. QED
      BY <1>3, <3>2
  <2>2. CASE ~(i <= offset)
    <3>1. i - offset \in 1 .. m /\ offset + (i - offset) = i
      BY <1>1, <1>2, <2>2
    <3>2. page[i - offset] = listing[i]
      BY <1>1, <3>1
    <3>3. QED
      BY <1>1, <1>3, <3>1, <3>2 DEF Elements
  <2>3. QED
    BY <2>1, <2>2
<1>6. QED
  BY <1>3, <1>4, <1>5 DEF FetchInv, page, m, n

LEMMA FetchIndex ==
    ASSUME SyncTypes, ListInv, FetchInv, index
    PROVE  FetchInv'
<1> DEFINE t == unindexed[1]
           p == PlaceOf(t.order)
           n == Len(listing)
<1>1. SUFFICES ASSUME syncPhase = "fetching"
               PROVE  /\ offset = 0 => got = {}
                      /\ got \subseteq Elements(listing') \union overlooked'
                      /\ \A i \in 1 .. offset : i <= Len(listing') =>
                           listing'[i] \in got \union overlooked'
  BY DEF index, fetch, FetchInv, Elements
<1>2. /\ offset = 0 => got = {}
      /\ got \subseteq Elements(listing) \union overlooked
      /\ \A i \in 1 .. offset : i <= n => listing[i] \in got \union overlooked
  BY <1>1 DEF FetchInv
<1>3. CASE offset = 0
  BY <1>2, <1>3
<1>4. CASE offset # 0
  <2>1. t = Head(unindexed) /\ t \in TxSet
    BY IndexFacts
  <2>2. overlooked \subseteq overlooked' /\ t.order \in overlooked' /\ PassedOver(t) \subseteq overlooked'
    <3>1. overlooked' = overlooked \union PassedOver(t) \union (IF Unseen(t) THEN {t.order} ELSE {})
      BY <2>1 DEF index
    <3>2. Unseen(t)
      BY <1>1, <1>4 DEF Unseen, SyncTypes
    <3>3. QED
      BY <3>1, <3>2
  <2>3. /\ listing' \in Seq(Orders) /\ n \in Nat /\ DOMAIN listing = 1 .. n /\ offset \in Nat
        /\ DOMAIN listing' = 1 .. Len(listing') /\ Len(listing') \in Nat
        /\ Elements(listing') = Elements(listing)'
    BY ListingFollows, LenProperties DEF SyncTypes, Elements
  <2>4. /\ Adds(t) => /\ DOMAIN listing' = 1 .. n + 1 /\ Len(listing') = n + 1
                      /\ listing'[1] = t.order
                      /\ \A i \in 1 .. n : listing'[i + 1] = listing[i]
                      /\ Elements(listing') = Elements(listing) \union {t.order}
        /\ ~Adds(t) => /\ p \in 1 .. n /\ listing[p] = t.order
                       /\ DOMAIN listing' = 1 .. n - 1
                       /\ \A i \in 1 .. n - 1 :
                            listing'[i] = IF i < p THEN listing[i] ELSE listing[i + 1]
                       /\ Elements(listing') = Elements(listing) \ {t.order}
    BY <2>3, ListingFollows
  <2>5. t.kind # "AddOrder" => t.kind = "RemoveOrder"
    BY <2>1 DEF TxSet, Kinds
  <2>6. p = PlaceOf(t.order)
    OBVIOUS
  <2> HIDE DEF t, n, p
  <2>7. got \subseteq Elements(listing') \union overlooked'
    BY <1>2, <2>2, <2>4
  <2>8. ASSUME NEW i \in 1 .. offset, i <= Len(listing')
        PROVE  listing'[i] \in got \union overlooked'
    <3>1. CASE Adds(t)
      <4>1. CASE i = 1
        BY <2>2, <2>4, <3>1, <4>1
      <4>2. CASE i # 1
        <5>1. i - 1 \in 1 .. n /\ i - 1 \in 1 .. offset /\ i - 1 <= n /\ (i - 1) + 1 = i
          <6>1. i <= n + 1
            BY <2>4, <2>8, <3>1
          <6>2. QED
            BY <2>3, <4>2, <6>1
        <5>2. listing'[i] = listing[i - 1]
          BY <2>4, <3>1, <5>1
        <5>3. QED
          BY <1>2, <2>2, <5>1, <5>2
      <4>3. QED
        BY <4>1, <4>2
    <3>2. CASE ~Adds(t)
      <4>1. p \in 1 .. n /\ i \in 1 .. n - 1
        <5>1. p \in 1 .. n /\ DOMAIN listing' = 1 .. n - 1
          BY <2>4, <3>2
        <5>2. i \in DOMAIN listing'
          BY <2>3, <2>8
        <5>3. QED
          BY <5>1, <5>2
      <4>2. listing'[i] = IF i < p THEN listing[i] ELSE listing[i + 1]
        BY <2>4, <3>2, <4>1
      <4>3. CASE i < p
        <5>1. i <= n
          BY <2>3, <4>1
        <5>2. QED
          BY <1>2, <2>2, <4>2, <4>3, <5>1
      <4>4. CASE ~(i < p) /\ i + 1 <= offset
        <5>1. i + 1 \in 1 .. offset /\ i + 1 <= n
          BY <2>3, <4>1, <4>4
        <5>2. QED
          BY <1>2, <2>2, <4>2, <4>4, <5>1
      <4>5. CASE ~(i < p) /\ ~(i + 1 <= offset)
        <5>1. i + 1 = offset + 1 /\ i + 1 \in 1 .. n /\ p <= offset
          BY <2>3, <2>8, <4>1, <4>5
        <5>2. listing[i + 1] \in PassedOver(t)
          BY <1>1, <2>3, <2>5, <2>6, <3>2, <5>1 DEF PassedOver, Adds
        <5>3. QED
          BY <2>2, <4>2, <4>5, <5>2
      <4>6. QED
        BY <4>3, <4>4, <4>5
    <3>3. QED
      BY <3>1, <3>2
  <2>9. QED
    BY <1>4, <2>7, <2>8
<1>5. QED
  BY <1>3, <1>4

LEMMA FetchKept ==
    ASSUME SyncInv, FetchInv, [SyncNext]_syncVars
    PROVE  FetchInv'
<1>1. SyncTypes /\ FreshInv /\ ListInv
  BY DEF SyncInv
<1>2. CASE index
  BY <1>1, <1>2, FetchIndex
<1>3. CASE fetchPage
  <2>1. /\ syncPhase = "fetching" /\ got' = got \union Elements(Page(listing, offset))
        /\ Len(Page(listing, offset)) = PageSize /\ offset' = offset + PageSize
        /\ UNCHANGED <<listing, overlooked>>
    BY <1>3 DEF fetchPage, subgraph, sync
  <2>2. /\ got' \subseteq Elements(listing) \union overlooked
        /\ \A i \in 1 .. offset' : i <= Len(listing) => listing[i] \in got' \union overlooked
    BY <1>1, <2>1, FetchRead
  <2>3. offset' # 0
    BY <1>1, <2>1, PageSizeAssumption DEF SyncTypes
  <2>4. QED
    BY <2>1, <2>2, <2>3 DEF FetchInv, Elements
<1>4. ASSUME UNCHANGED <<syncPhase, offset, got, listing, overlooked>>
      PROVE  FetchInv'
  BY <1>4 DEF FetchInv, Elements
<1>5. CASE tick \/ (\E o \in Orders : mine(o)) \/ UNCHANGED syncVars
  BY <1>4, <1>5 DEF tick, mine, syncVars, subgraph, fetch, sync
<1>6. ASSUME \/ fetchLastPage \/ fetchFails \/ beginSync \/ pullPage \/ pullFails \/ endSync
             \/ applyAddition \/ additionFails \/ additionThrows \/ applyRemoval \/ ignoreEvent
      PROVE  FetchInv'
  <2>1. syncPhase' # "fetching"
    BY <1>6 DEF fetchLastPage, fetchFails, beginSync, pullPage, pullFails, endSync,
                applyAddition, additionFails, additionThrows, applyRemoval, ignoreEvent
  <2>2. QED
    BY <2>1 DEF FetchInv
<1>7. QED
  BY <1>2, <1>3, <1>5, <1>6 DEF SyncNext, solverStep

\* With the fetch, what is known is what is listed.
LEMMA KnownFetched ==
    ASSUME SyncInv, FetchInv, fetchLastPage
    PROVE  KnownInv'
<1>1. SyncTypes /\ ListInv
  BY DEF SyncInv
<1>2. /\ syncPhase = "fetching" /\ got' = got \union Elements(Page(listing, offset))
      /\ Len(Page(listing, offset)) < PageSize
      /\ known' \subseteq got' /\ overlooked' = overlooked \union (got' \ known')
      /\ UNCHANGED <<active, unindexed>>
  BY DEF fetchLastPage, Added, chainVars
<1> DEFINE m == Len(Page(listing, offset))
<1>3. /\ got' \subseteq Elements(listing) \union overlooked
      /\ \A i \in 1 .. offset + m : i <= Len(listing) => listing[i] \in got' \union overlooked
  BY <1>1, <1>2, FetchRead
<1>4. Elements(listing) \subseteq got' \union overlooked
  <2>1. Len(listing) <= offset + m /\ m \in Nat /\ offset \in Nat
    BY <1>1, <1>2, PageOf DEF SyncTypes
  <2>2. Len(listing) \in Nat /\ DOMAIN listing = 1 .. Len(listing)
    BY <1>1, LenProperties DEF SyncTypes
  <2> HIDE DEF m
  <2>3. \A i \in 1 .. Len(listing) : i \in 1 .. offset + m /\ i <= Len(listing)
    BY <2>1, <2>2
  <2>4. QED
    BY <1>3, <2>2, <2>3 DEF Elements
<1>5. ASSUME NEW o \in Orders \ overlooked', ~InChain(o)
      PROVE  o \in known' <=> o \in active
  <2>1. o \in active <=> o \in Elements(listing)
    BY <1>1, <1>5 DEF ListInv, Listed
  <2>2. o \notin overlooked /\ (o \in known' <=> o \in got')
    BY <1>2, <1>5
  <2>3. QED
    BY <1>3, <1>4, <2>1, <2>2
<1>6. QED
  BY <1>2, <1>5 DEF KnownInv, InChain

\* Without the fetch, all that is active has an event to come.
LEMMA KnownUnfetched ==
    ASSUME SyncInv, fetchFails
    PROVE  KnownInv'
<1>1. SyncTypes /\ FreshInv /\ TimeInv
  BY DEF SyncInv
<1>2. /\ syncPhase = "fetching" /\ known = {}
      /\ \A o \in active : \E t \in Elements(view) \union Elements(unindexed) : t.order = o
      /\ UNCHANGED <<active, unindexed, view, lastFetch, skip, known>>
      /\ lastFetch = 0 /\ skip = 0
  BY <1>1 DEF fetchFails, FreshInv, NoTime, chainVars, subgraph
<1>3. Old' = 0
  <2>1. \A i \in DOMAIN view : ~(view[i].time <= lastFetch)
    <3>1. \A i \in DOMAIN view : view[i] \in TxSet
      BY <1>1, LenProperties, ElementOfSeq DEF SyncTypes
    <3>2. \A r \in TxSet : r.time \in Nat \ {0}
      BY DEF TxSet
    <3>3. QED
      BY <1>2, <3>1, <3>2
  <2>2. {i \in DOMAIN view : view[i].time <= lastFetch} = {}
    BY <2>1
  <2>3. Old = 0
    BY <2>2, FS_EmptySet DEF Old
  <2>4. QED
    BY <1>2, <2>3, SameQuery
<1>4. DOMAIN view = Old' + skip' + 1 .. Len(view')
  <2>1. DOMAIN view = 1 .. Len(view) /\ 0 + 0 + 1 = 1
    BY <1>1, RecentIs
  <2>2. QED
    BY <1>2, <1>3, <2>1
<1>5. ASSUME NEW o \in active
      PROVE  (\E i \in DOMAIN view : view[i].order = o) \/ InChain(o)
  BY <1>2, <1>5 DEF Elements, InChain
<1>6. QED
  BY <1>2, <1>4, <1>5 DEF KnownInv, Waits, InChain

LEMMA KnownIndex ==
    ASSUME SyncInv, EventInv, KnownInv, index
    PROVE  KnownInv'
<1> DEFINE t == unindexed[1]
           u == Len(unindexed)
<1>1. SyncTypes /\ FreshInv /\ ListInv /\ TimeInv /\ PullInv
  BY DEF SyncInv
<1>2. /\ t = Head(unindexed) /\ u \in Nat \ {0}
      /\ DOMAIN unindexed = 1 .. u /\ DOMAIN unindexed' = 1 .. u - 1
      /\ \A i \in 1 .. u - 1 : unindexed'[i] = unindexed[i + 1]
  BY <1>1, IndexFacts
<1>3. UNCHANGED <<syncPhase, known, active, events, skip, lastFetch>>
  BY DEF index, fetch
<1>4. overlooked' = overlooked \union PassedOver(t) \union (IF Unseen(t) THEN {t.order} ELSE {})
  BY <1>2 DEF index
<1>5. SUFFICES ASSUME syncPhase # "fetching", NEW o \in Orders \ overlooked',
                      ~Waits(o)', ~InEvents(o)', ~InChain(o)'
               PROVE  o \in known <=> o \in active
  BY <1>3 DEF KnownInv
<1>6. o \in Orders \ overlooked
  BY <1>4
<1>7. ~InEvents(o)
  BY <1>3, <1>5 DEF InEvents
<1>8. o # t.order /\ ~Waits(o)
  <2>1. CASE t.time <= lastFetch
    <3>1. Unseen(t)
      BY <1>5, <2>1 DEF Unseen
    <3>2. skip = 0 /\ Old = Len(view)
      BY <1>1, <2>1, PullIndex
    <3>3. ~Waits(o)
      <4>1. Len(view) \in Nat /\ Old + skip + 1 = Len(view) + 1
        BY <1>1, <3>2, IndexFacts
      <4>2. QED
        BY <4>1 DEF Waits
    <3>4. QED
      BY <1>4, <3>1, <3>3
  <2>2. CASE ~(t.time <= lastFetch)
    <3>1. Waits(o)' <=> Waits(o) \/ o = t.order
      BY <1>1, <2>2, WaitsIndexed
    <3>2. QED
      BY <1>5, <3>1
  <2>3. QED
    BY <2>1, <2>2
<1> HIDE DEF t, u
<1>9. ~InChain(o)
  <2>1. ASSUME NEW k \in 1 .. u
        PROVE  unindexed[k].order # o
    <3>1. CASE k = 1
      BY <1>8, <3>1 DEF t
    <3>2. CASE k # 1
      <4>1. k - 1 \in 1 .. u - 1 /\ (k - 1) + 1 = k
        BY <1>2, <3>2
      <4>2. unindexed'[k - 1].order # o
        BY <1>2, <1>5, <4>1 DEF InChain
      <4>3. QED
        BY <1>2, <4>1, <4>2
    <3>3. QED
      BY <3>1, <3>2
  <2>2. QED
    BY <1>2, <2>1 DEF InChain
<1>10. QED
  BY <1>5, <1>6, <1>7, <1>8, <1>9 DEF KnownInv

\* An event is applied: its order is known if it is active, once it was the
\* last one.
LEMMA KnownApplied ==
    ASSUME SyncInv, EventInv, KnownInv,
           applyAddition \/ additionFails \/ applyRemoval \/ ignoreEvent
    PROVE  KnownInv'
<1> DEFINE e == events[1]
<1>1. SyncTypes /\ ListInv
  BY DEF SyncInv
<1>2. /\ events # <<>> /\ events' = Tail(events) /\ syncPhase = "applying"
      /\ UNCHANGED <<view, listing, lastFetch, skip, active, unindexed>>
  BY DEF applyAddition, additionFails, applyRemoval, ignoreEvent, chainVars, subgraph, fetch
<1>3. /\ e = Head(events) /\ e \in Event /\ e.order \in Orders /\ 1 \in DOMAIN events
      /\ e.kind \in {"AddOrder", "RemoveOrder"} /\ e.active \in BOOLEAN
  <2>1. e = Head(events) /\ e \in Event /\ 1 \in DOMAIN events
    BY <1>1, <1>2, HeadEvent
  <2>2. QED
    BY <2>1 DEF Event
<1>4. /\ \A o : o # e.order /\ ~InEvents(o)' => ~InEvents(o)
      /\ \A o : o = e.order /\ ~InEvents(o)' => LastOf(events, 1)
  BY <1>1, <1>2, EventTaken
<1>5. \A o : /\ Waits(o)' <=> Waits(o)
             /\ InChain(o)' <=> InChain(o)
  BY <1>2, SameQuery DEF Waits, InChain
<1> HIDE DEF e
\* What it is for other orders.
<1>6. ASSUME NEW o \in Orders \ overlooked', o # e.order,
             ~Waits(o)', ~InEvents(o)', ~InChain(o)'
      PROVE  o \in known' <=> o \in active'
  <2>1. (o \in known' <=> o \in known) /\ (o \notin overlooked' => o \notin overlooked)
    BY <1>3, <1>6 DEF applyAddition, additionFails, applyRemoval, ignoreEvent
  <2>2. o \in Orders \ overlooked /\ ~Waits(o) /\ ~InEvents(o) /\ ~InChain(o)
    BY <1>4, <1>5, <1>6, <2>1
  <2>3. o \in known <=> o \in active
    BY <1>2, <2>2 DEF KnownInv
  <2>4. QED
    BY <1>2, <2>1, <2>3
\* What it is for its own.
<1>7. ASSUME NEW o \in Orders \ overlooked', o = e.order,
             ~Waits(o)', ~InEvents(o)', ~InChain(o)'
      PROVE  o \in known' <=> o \in active'
  <2>1. /\ e.active <=> Listed(e.order)
        /\ Adds(e) <=> Listed(e.order)
    <3>1. ~Waits(e.order)
      BY <1>5, <1>7
    <3>2. QED
      BY <1>3, <1>4, <1>7, <3>1 DEF EventInv, e
  <2>2. o \in active' <=> Listed(e.order)
    <3>1. ~InChain(e.order)
      BY <1>5, <1>7
    <3>2. QED
      BY <1>1, <1>2, <1>3, <1>7, <3>1 DEF ListInv
  <2>3. CASE applyAddition
    BY <1>3, <1>7, <2>1, <2>2, <2>3 DEF applyAddition, IsAddition
  <2>4. CASE additionFails
    BY <1>3, <1>7, <2>4 DEF additionFails
  <2>5. CASE applyRemoval
    BY <1>3, <1>7, <2>1, <2>2, <2>5 DEF applyRemoval, IsRemoval
  <2>6. CASE ignoreEvent
    BY <1>3, <2>1, <2>6 DEF ignoreEvent, IsAddition, IsRemoval, Adds
  <2>7. QED
    BY <2>3, <2>4, <2>5, <2>6
<1>8. QED
  <2>1. \A o \in Orders \ overlooked' :
          ~Waits(o)' /\ ~InEvents(o)' /\ ~InChain(o)' => (o \in known' <=> o \in active')
    <3>1. SUFFICES ASSUME NEW o \in Orders \ overlooked', ~Waits(o)', ~InEvents(o)', ~InChain(o)'
                   PROVE  o \in known' <=> o \in active'
      OBVIOUS
    <3>2. CASE o = e.order
      BY <1>7, <3>1, <3>2
    <3>3. CASE o # e.order
      BY <1>6, <3>1, <3>3
    <3>4. QED
      BY <3>2, <3>3
  <2>2. QED
    BY <2>1 DEF KnownInv

LEMMA KnownKept ==
    ASSUME SyncInv, EventInv, KnownInv, FetchInv, [SyncNext]_syncVars
    PROVE  KnownInv'
<1>1. SyncTypes /\ PullInv
  BY DEF SyncInv
<1>2. ASSUME UNCHANGED <<overlooked, known, active, unindexed, view, lastFetch, skip, events>>,
             syncPhase' # "fetching" => syncPhase # "fetching"
      PROVE  KnownInv'
  <2>1. Old' = Old
    BY <1>2, SameQuery
  <2>2. QED
    BY <1>2, <2>1 DEF KnownInv, Waits, InEvents, InChain
<1>3. CASE tick \/ UNCHANGED syncVars
  BY <1>2, <1>3 DEF tick, syncVars, chainVars, subgraph, fetch, sync
<1>4. ASSUME NEW o \in Orders, mine(o)
      PROVE  KnownInv'
  <2>1. PICK t \in TxSet :
          /\ t.order = o
          /\ DOMAIN unindexed = 1 .. Len(unindexed)
          /\ DOMAIN unindexed' = 1 .. Len(unindexed) + 1
          /\ unindexed'[Len(unindexed) + 1] = t
          /\ \A i \in 1 .. Len(unindexed) : unindexed'[i] = unindexed[i]
          /\ active' = IF o \in active THEN active \ {o} ELSE active \union {o}
          /\ UNCHANGED <<clock, subgraph, syncPhase, fetch, sync, known>>
    BY <1>1, <1>4, MineFacts
  <2>2. UNCHANGED <<syncPhase, overlooked, known, view, lastFetch, skip, events>>
    BY <2>1 DEF subgraph, fetch, sync
  <2>3. Old' = Old
    BY <2>2, SameQuery
  <2>4. Len(unindexed) \in Nat
    BY <1>1, LenProperties DEF SyncTypes
  <2>5. ASSUME NEW x, ~InChain(x)'
        PROVE  x # o /\ ~InChain(x)
    <3>1. /\ Len(unindexed) + 1 \in DOMAIN unindexed'
          /\ \A i \in 1 .. Len(unindexed) : i \in DOMAIN unindexed'
      BY <2>1, <2>4
    <3>2. QED
      BY <2>1, <2>5, <3>1 DEF InChain
  <2>6. ASSUME NEW x \in Orders \ overlooked, syncPhase # "fetching",
               ~Waits(x), ~InEvents(x), ~InChain(x)'
        PROVE  x \in known <=> x \in active'
    BY <2>1, <2>5, <2>6 DEF KnownInv
  <2>7. \A x : (Waits(x)' <=> Waits(x)) /\ (InEvents(x)' <=> InEvents(x))
    BY <2>2, <2>3 DEF Waits, InEvents
  <2>8. QED
    BY <2>2, <2>6, <2>7 DEF KnownInv
<1>5. CASE index
  BY <1>5, KnownIndex
<1>6. CASE fetchPage
  BY <1>6 DEF fetchPage, KnownInv
<1>7. CASE fetchLastPage
  BY <1>7, KnownFetched
<1>8. CASE fetchFails
  BY <1>8, KnownUnfetched
<1>9. CASE beginSync \/ pullFails \/ endSync
  BY <1>2, <1>9 DEF beginSync, pullFails, endSync, chainVars, subgraph, fetch, sync
<1>10. CASE pullPage
  <2>1. \A o : Waits(o) => Waits(o)' \/ InEvents(o)'
    BY <1>1, <1>10, WaitsPulled
  <2>2. /\ UNCHANGED <<known, active, overlooked, unindexed>>
        /\ syncPhase # "fetching"
    BY <1>10 DEF pullPage, chainVars
  <2>3. \A o : InEvents(o) => InEvents(o)'
    <3>1. PICK page \in Seq(TxSet) :
            LET n == Len(page)
                e == Len(events)
            IN  /\ n \in Nat /\ e \in Nat
                /\ DOMAIN events = 1 .. e /\ DOMAIN events' = 1 .. e + n
                /\ \A i \in 1 .. e : events'[i] = events[i]
      BY <1>1, <1>10, PullFacts DEF PullInv
    <3>2. \A i \in DOMAIN events : i \in DOMAIN events' /\ events'[i] = events[i]
      BY <3>1
    <3>3. QED
      BY <3>2 DEF InEvents
  <2>4. \A o : InChain(o)' <=> InChain(o)
    BY <2>2 DEF InChain
  <2>5. QED
    BY <2>1, <2>2, <2>3, <2>4 DEF KnownInv
<1>11. CASE applyAddition \/ additionFails \/ applyRemoval \/ ignoreEvent
  BY <1>11, KnownApplied
<1>12. CASE additionThrows
  <2>1. /\ overlooked' = overlooked \union {e.order : e \in Elements(events)}
        /\ UNCHANGED <<known, active, view, lastFetch, skip, unindexed>>
        /\ syncPhase = "applying"
    BY <1>12 DEF additionThrows, chainVars, subgraph, fetch
  <2>2. \A o : o \notin overlooked' => ~InEvents(o) /\ o \notin overlooked
    BY <2>1 DEF InEvents, Elements
  <2>3. \A o : (Waits(o)' <=> Waits(o)) /\ (InChain(o)' <=> InChain(o))
    BY <2>1, SameQuery DEF Waits, InChain
  <2>4. QED
    BY <2>1, <2>2, <2>3 DEF KnownInv
<1>13. QED
  BY <1>3, <1>4, <1>5, <1>6, <1>7, <1>8, <1>9, <1>10, <1>11, <1>12 DEF SyncNext, solverStep

\* The known orders are the active ones, but for those the property names, when
\* the solver has caught up: for any number of orders, transactions and seconds
\* and any length of a page.
THEOREM CaughtUpAgrees == SyncSpec => []Converged
<1> DEFINE Inv == SyncInv /\ EventInv /\ KnownInv /\ FetchInv
<1>1. SyncInit => Inv
  <2> SUFFICES ASSUME SyncInit
               PROVE  Inv
    OBVIOUS
  <2>1. SyncInv
    BY TypesInitially, ListInitially, PullInitially DEF SyncInv
  <2>2. EventInv /\ KnownInv /\ FetchInv
    BY DEF SyncInit, EventInv, KnownInv, FetchInv
  <2>3. QED
    BY <2>1, <2>2
<1>2. Inv /\ SyncInv' /\ [SyncNext]_syncVars => Inv'
  BY EventKept, KnownKept, FetchKept
<1>3. Inv => Converged
  <2> SUFFICES ASSUME Inv, CaughtUp, NEW o \in Orders \ overlooked
               PROVE  o \in known <=> o \in active
    BY DEF Converged, Agrees
  <2>1. SyncTypes /\ FreshInv
    BY DEF SyncInv
  <2>2. syncPhase = "ready" /\ events = <<>> /\ unindexed = <<>> /\ skip = Len(Recent)
    BY <2>1 DEF CaughtUp, FreshInv
  <2>3. ~InEvents(o) /\ ~InChain(o)
    BY <2>2 DEF InEvents, InChain
  <2>4. ~Waits(o)
    <3>1. Old \in Nat /\ Len(view) \in Nat /\ Len(Recent) = Len(view) - Old
      BY <2>1, RecentIs
    <3>2. Old + skip + 1 = Len(view) + 1
      BY <2>2, <3>1
    <3>3. QED
      BY <3>1, <3>2 DEF Waits
  <2>5. QED
    BY <2>2, <2>3, <2>4 DEF KnownInv
<1>4. QED
  BY <1>1, <1>2, <1>3, SyncInvHolds, PTL DEF SyncSpec
-----------------------------------------------------------------------------
(***************************************************************************)
(* Without the four faults nothing is overlooked, and the claim of the     *)
(* code that a run refutes for each of them holds as it stands.            *)
(***************************************************************************)

\* While the first fetch goes on all that is mined is indexed, and later all
\* that is to be indexed is newer than the fetch.
CalmInv ==
    /\ overlooked = {}
    /\ syncPhase = "fetching" /\ offset > 0 => unindexed = <<>>
    /\ syncPhase # "fetching" => \A i \in DOMAIN unindexed : unindexed[i].time > lastFetch

\* What is indexed is neither too late for the fetch nor too early for the
\* sync, and an order is removed from the place where it is listed.
LEMMA NoneOverlooked ==
    ASSUME SyncInv, CalmInv, index
    PROVE  overlooked' = {}
<1> DEFINE t == unindexed[1]
<1>1. SyncTypes /\ ListInv
  BY DEF SyncInv
<1>2. /\ t \in TxSet /\ t = Head(unindexed) /\ unindexed # <<>> /\ 1 \in DOMAIN unindexed
  BY <1>1, IndexFacts DEF index
<1>3. ~Unseen(t)
  BY <1>1, <1>2 DEF CalmInv, Unseen, SyncTypes, TxSet
<1>4. ASSUME syncPhase = "fetching", t.kind = "RemoveOrder", PlaceOf(t.order) <= offset
      PROVE  FALSE
  <2>1. offset = 0
    BY <1>1, <1>2, <1>4 DEF CalmInv, SyncTypes
  <2>2. FirstOf(unindexed, 1)
    BY DEF FirstOf
  <2>3. \E i \in DOMAIN listing : listing[i] = t.order
    BY <1>1, <1>2, <1>4, <2>2 DEF ListInv, Adds, Listed, Elements
  <2>4. PlaceOf(t.order) \in DOMAIN listing
    BY <2>3 DEF PlaceOf
  <2>5. DOMAIN listing = 1 .. Len(listing) /\ Len(listing) \in Nat
    BY <1>1, LenProperties DEF SyncTypes
  <2>6. QED
    BY <1>4, <2>1, <2>4, <2>5
<1>5. PassedOver(t) = {}
  BY <1>4 DEF PassedOver
<1>6. overlooked' = overlooked \union PassedOver(t) \union (IF Unseen(t) THEN {t.order} ELSE {})
  BY <1>2 DEF index
<1>7. QED
  BY <1>3, <1>5, <1>6 DEF CalmInv

LEMMA CalmKept ==
    ASSUME Faults = {}, SyncInv, CalmInv, [SyncNext]_syncVars
    PROVE  CalmInv'
<1>1. SyncTypes /\ FreshInv
  BY DEF SyncInv
<1>2. CASE tick
  BY <1>2 DEF tick, fetch, sync, CalmInv
<1>3. ASSUME NEW o \in Orders, mine(o)
      PROVE  CalmInv'
  <2>1. /\ ~(syncPhase = "fetching" /\ offset > 0)
        /\ clock > lastFetch
        /\ UNCHANGED <<syncPhase, lastFetch, offset, overlooked>>
    BY <1>3 DEF mine, fetch, sync
  <2>2. PICK t \in TxSet :
          /\ t.time = clock
          /\ DOMAIN unindexed = 1 .. Len(unindexed)
          /\ DOMAIN unindexed' = 1 .. Len(unindexed) + 1
          /\ unindexed'[Len(unindexed) + 1] = t
          /\ \A i \in 1 .. Len(unindexed) : unindexed'[i] = unindexed[i]
    BY <1>1, <1>3, MineFacts
  <2>3. Len(unindexed) \in Nat
    BY <1>1, LenProperties DEF SyncTypes
  <2>4. ASSUME syncPhase # "fetching", NEW i \in 1 .. Len(unindexed) + 1
        PROVE  unindexed'[i].time > lastFetch
    <3>1. CASE i = Len(unindexed) + 1
      BY <2>1, <2>2, <3>1
    <3>2. CASE i \in 1 .. Len(unindexed)
      BY <2>2, <2>4, <3>2 DEF CalmInv
    <3>3. QED
      BY <2>3, <3>1, <3>2
  <2>5. QED
    BY <2>1, <2>2, <2>4 DEF CalmInv
<1>4. CASE index
  <2>1. /\ unindexed # <<>> /\ Len(unindexed) \in Nat
        /\ DOMAIN unindexed = 1 .. Len(unindexed)
        /\ DOMAIN unindexed' = 1 .. Len(unindexed) - 1
        /\ \A i \in 1 .. Len(unindexed) - 1 : unindexed'[i] = unindexed[i + 1]
    BY <1>1, <1>4, IndexFacts DEF index
  <2>2. UNCHANGED <<syncPhase, lastFetch, offset>>
    BY <1>4 DEF index, fetch
  <2>3. \A i \in 1 .. Len(unindexed) - 1 : i + 1 \in 1 .. Len(unindexed)
    BY <2>1
  <2>4. overlooked' = {}
    BY <1>4, NoneOverlooked
  <2>5. QED
    BY <2>1, <2>2, <2>3, <2>4 DEF CalmInv
<1>5. CASE fetchPage
  BY <1>5 DEF fetchPage, Indexed, chainVars, sync, CalmInv
<1>6. CASE fetchLastPage
  <2>1. unindexed = <<>> /\ unindexed' = <<>> /\ syncPhase' = "ready"
    BY <1>6 DEF fetchLastPage, Indexed, chainVars
  <2>2. known' = got'
    BY <1>6 DEF fetchLastPage, Added
  <2>3. overlooked' = {}
    BY <1>6, <2>2 DEF fetchLastPage, CalmInv
  <2>4. QED
    BY <2>1, <2>3 DEF CalmInv
<1>7. CASE fetchFails
  <2>1. lastFetch' = 0 /\ unindexed' = unindexed /\ overlooked' = {} /\ syncPhase' = "ready"
    BY <1>1, <1>7 DEF fetchFails, chainVars, FreshInv, NoTime
  <2>2. \A i \in DOMAIN unindexed : unindexed[i].time > 0
    <3>1. \A i \in DOMAIN unindexed : unindexed[i] \in TxSet
      BY <1>1, LenProperties, ElementOfSeq DEF SyncTypes
    <3>2. QED
      BY <3>1 DEF TxSet
  <2>3. QED
    BY <2>1, <2>2 DEF CalmInv
<1>8. CASE beginSync \/ pullPage \/ pullFails \/ ignoreEvent \/ endSync
  BY <1>8 DEF beginSync, pullPage, pullFails, ignoreEvent, endSync, chainVars, fetch, sync, CalmInv
<1>9. CASE applyAddition \/ applyRemoval
  BY <1>9 DEF applyAddition, applyRemoval, chainVars, fetch, CalmInv
<1>10. CASE additionFails \/ additionThrows
  BY <1>10 DEF additionFails, additionThrows
<1>11. CASE UNCHANGED syncVars
  BY <1>11 DEF syncVars, chainVars, fetch, sync, CalmInv
<1>12. QED
  BY <1>2, <1>3, <1>4, <1>5, <1>6, <1>7, <1>8, <1>9, <1>10, <1>11 DEF SyncNext, solverStep

\* "Syncs orders and vaults to upstream changes since the last fetch": when the
\* subgraph answers with all that is mined, no two changes share a second, none
\* falls into the first fetch and every order can be added, a solver that has
\* caught up knows the active orders, all of them and no others.
THEOREM NothingIsMissed ==
    ASSUME Faults = {}
    PROVE  SyncSpec => []NothingMissed
<1>1. SyncInit => CalmInv
  BY DEF SyncInit, CalmInv
<1>2. SyncInv /\ CalmInv /\ [SyncNext]_syncVars => CalmInv'
  BY CalmKept
<1>3. SyncInv /\ CalmInv /\ Converged => NothingMissed
  <2> SUFFICES ASSUME SyncInv, CalmInv, Converged, CaughtUp
               PROVE  known = active
    BY DEF NothingMissed
  <2>1. known \subseteq Orders /\ active \subseteq Orders
    BY DEF SyncInv, SyncTypes
  <2>2. \A o \in Orders : o \in known <=> o \in active
    BY DEF CalmInv, Converged, Agrees
  <2>3. QED
    BY <2>1, <2>2
<1>4. QED
  BY <1>1, <1>2, <1>3, SyncInvHolds, CaughtUpAgrees, PTL DEF SyncSpec
-----------------------------------------------------------------------------
(***************************************************************************)
(* The bounds: transactions are indexed one by one as they were mined.     *)
(***************************************************************************)
ChainInv ==
    /\ clock <= MaxTime /\ mined <= MaxTx
    /\ mined = Len(view) + Len(unindexed)
    /\ \A i \in DOMAIN view : view[i].id = i
    /\ \A i \in DOMAIN unindexed : unindexed[i].id = Len(view) + i
    /\ entry \in {"none", "AddOrder", "RemoveOrder"} /\ dropped \in Nat

LEMMA ChainInitially == SyncInit => ChainInv
<1> SUFFICES ASSUME SyncInit PROVE ChainInv
  OBVIOUS
<1>1. /\ DOMAIN unindexed = {} /\ DOMAIN view = {} /\ clock = 1 /\ mined = 0
      /\ unindexed = <<>> /\ view = <<>> /\ entry = "none" /\ dropped = 0
  BY DEF SyncInit
<1>2. Len(<<>>) = 0
  BY EmptySeq
<1>3. QED
  BY <1>1, <1>2, BoundsAssumption DEF ChainInv

LEMMA ChainKept ==
    ASSUME SyncTypes, ChainInv, [SyncNext]_syncVars
    PROVE  ChainInv'
<1> USE BoundsAssumption
<1>1. CASE tick
  BY <1>1 DEF tick, SyncTypes, ChainInv, subgraph, sync
<1>2. ASSUME NEW o \in Orders, mine(o)
      PROVE  ChainInv'
  <2>1. /\ mined' = mined + 1 /\ mined < MaxTx
        /\ UNCHANGED <<clock, view, entry, dropped>>
    BY <1>2 DEF mine, subgraph, sync
  <2>2. PICK t \in TxSet :
          /\ t.id = mined + 1 /\ Len(unindexed') = Len(unindexed) + 1
          /\ DOMAIN unindexed = 1 .. Len(unindexed)
          /\ DOMAIN unindexed' = 1 .. Len(unindexed) + 1
          /\ unindexed'[Len(unindexed) + 1] = t
          /\ \A i \in 1 .. Len(unindexed) : unindexed'[i] = unindexed[i]
    BY <1>2, MineFacts
  <2>3. Len(unindexed) \in Nat /\ Len(view) \in Nat /\ mined \in Nat
    BY LenProperties DEF SyncTypes
  <2>4. \A i \in DOMAIN unindexed' : unindexed'[i].id = Len(view) + i
    <3> SUFFICES ASSUME NEW i \in 1 .. Len(unindexed) + 1
                 PROVE  unindexed'[i].id = Len(view) + i
      BY <2>2
    <3>1. CASE i = Len(unindexed) + 1
      BY <2>2, <2>3, <3>1 DEF ChainInv
    <3>2. CASE i \in 1 .. Len(unindexed)
      BY <2>2, <3>2 DEF ChainInv
    <3>3. QED
      BY <2>3, <3>1, <3>2
  <2>5. QED
    BY <2>1, <2>2, <2>3, <2>4 DEF ChainInv
<1>3. CASE index
  <2>1. LET t == unindexed[1]
            n == Len(view)
            u == Len(unindexed)
        IN  /\ n \in Nat /\ u \in Nat \ {0}
            /\ DOMAIN view = 1 .. n /\ DOMAIN unindexed = 1 .. u
            /\ Len(view') = n + 1 /\ DOMAIN view' = 1 .. n + 1
            /\ view'[n + 1] = t /\ \A i \in 1 .. n : view'[i] = view[i]
            /\ Len(unindexed') = u - 1 /\ DOMAIN unindexed' = 1 .. u - 1
            /\ \A i \in 1 .. u - 1 : unindexed'[i] = unindexed[i + 1]
    BY <1>3, IndexFacts
  <2>2. UNCHANGED <<clock, mined, entry, dropped>>
    BY <1>3 DEF index
  <2>3. \A i \in DOMAIN view' : view'[i].id = i
    <3> SUFFICES ASSUME NEW i \in 1 .. Len(view) + 1 PROVE view'[i].id = i
      BY <2>1
    <3>1. CASE i = Len(view) + 1
      <4>1. 1 \in DOMAIN unindexed /\ view'[i] = unindexed[1]
        BY <2>1, <3>1
      <4>2. unindexed[1].id = Len(view) + 1
        BY <4>1 DEF ChainInv
      <4>3. QED
        BY <3>1, <4>1, <4>2
    <3>2. CASE i \in 1 .. Len(view)
      BY <2>1, <3>2 DEF ChainInv
    <3>3. QED
      BY <2>1, <3>1, <3>2
  <2>4. \A i \in DOMAIN unindexed' : unindexed'[i].id = Len(view') + i
    <3> SUFFICES ASSUME NEW i \in 1 .. Len(unindexed) - 1
                 PROVE  unindexed'[i].id = Len(view) + 1 + i
      BY <2>1
    <3>1. i + 1 \in DOMAIN unindexed /\ unindexed'[i] = unindexed[i + 1]
      BY <2>1
    <3>2. unindexed[i + 1].id = Len(view) + (i + 1)
      BY <3>1 DEF ChainInv
    <3>3. QED
      BY <2>1, <3>1, <3>2
  <2>5. QED
    BY <2>1, <2>2, <2>3, <2>4 DEF ChainInv
<1>4. CASE solverStep
  <2>1. UNCHANGED <<clock, mined, view, unindexed>>
    BY <1>4 DEF solverStep, fetchPage, fetchLastPage, fetchFails, beginSync, pullPage, pullFails,
                applyAddition, additionFails, additionThrows, applyRemoval, ignoreEvent, endSync,
                chainVars, subgraph
  <2>2. entry' \in {"none", "AddOrder", "RemoveOrder"}
    BY <1>4 DEF solverStep, fetchPage, fetchLastPage, fetchFails, beginSync, pullPage, pullFails,
                applyAddition, additionFails, additionThrows, applyRemoval, ignoreEvent, endSync,
                sync, ChainInv
  <2>3. dropped' \in Nat
    <3>1. CASE additionThrows
      <4>1. Len(events) \in Nat \ {0}
        BY <3>1, HeadEvent DEF additionThrows
      <4>2. QED
        BY <3>1, <4>1 DEF additionThrows, ChainInv
    <3>2. CASE ~additionThrows
      BY <1>4, <3>2 DEF solverStep, fetchPage, fetchLastPage, fetchFails, beginSync, pullPage,
                pullFails, applyAddition, additionFails, applyRemoval, ignoreEvent, endSync,
                sync, ChainInv
    <3>3. QED
      BY <3>1, <3>2
  <2>4. QED
    BY <2>1, <2>2, <2>3 DEF ChainInv
<1>5. CASE UNCHANGED syncVars
  BY <1>5 DEF syncVars, chainVars, subgraph, sync, ChainInv
<1>6. QED
  BY <1>1, <1>2, <1>3, <1>4, <1>5 DEF SyncNext

\* The types of SubgraphSync.
LEMMA SyncBounds == SyncSpec => []SyncTypeOK
<1>1. SyncInv /\ ChainInv => SyncTypeOK
  <2> SUFFICES ASSUME SyncInv, ChainInv PROVE SyncTypeOK
    OBVIOUS
  <2> USE BoundsAssumption
  <2>1. SyncTypes /\ TimeInv /\ PullInv
    BY DEF SyncInv
  <2>2. /\ DOMAIN view = 1 .. Len(view) /\ Len(view) \in Nat
        /\ DOMAIN unindexed = 1 .. Len(unindexed) /\ Len(unindexed) \in Nat
        /\ Old \in Nat /\ Old <= Len(view)
    BY <2>1, LenProperties, RecentIs DEF SyncTypes
  <2>3. Len(view) + Len(unindexed) <= MaxTx /\ clock <= MaxTime /\ clock \in Nat
    BY <2>1 DEF ChainInv, SyncTypes
  <2>4. \A i \in 1 .. Len(view) : view[i] \in Tx
    <3> SUFFICES ASSUME NEW i \in 1 .. Len(view) PROVE view[i] \in Tx
      OBVIOUS
    <3>1. view[i] \in TxSet /\ view[i].id = i /\ view[i].time <= clock
      BY <2>1, <2>2, ElementOfSeq DEF SyncTypes, ChainInv, TimeInv
    <3>2. QED
      BY <2>2, <2>3, <3>1 DEF TxSet, Tx, Kinds
  <2>5. \A i \in 1 .. Len(unindexed) : unindexed[i] \in Tx
    <3> SUFFICES ASSUME NEW i \in 1 .. Len(unindexed) PROVE unindexed[i] \in Tx
      OBVIOUS
    <3>1. /\ unindexed[i] \in TxSet /\ unindexed[i].id = Len(view) + i
          /\ unindexed[i].time <= clock
      BY <2>1, <2>2, ElementOfSeq DEF SyncTypes, ChainInv, TimeInv
    <3>2. QED
      BY <2>2, <2>3, <3>1 DEF TxSet, Tx, Kinds
  <2>6. Elements(view) \subseteq Tx /\ Elements(unindexed) \subseteq Tx
    BY <2>2, <2>4, <2>5 DEF Elements
  <2>7. Elements(listing) \subseteq Orders /\ Elements(events) \subseteq Event
    BY <2>1, ElementOfSeq, LenProperties DEF SyncTypes, Elements
  <2>8. skip \in 0 .. MaxTx /\ \A i \in 1 .. skip : Old + i \in 1 .. Len(view)
    BY <2>1, <2>2, <2>3 DEF SyncTypes, PullInv
  <2>9. Elements(seen) \subseteq 1 .. MaxTx
    <3>1. \A i \in 1 .. skip : view[Old + i].id \in 1 .. MaxTx
      BY <2>2, <2>3, <2>8 DEF ChainInv
    <3>2. QED
      BY <2>1, <3>1 DEF PullInv, Elements
  <2>10. lastFetch \in 0 .. MaxTime
    BY <2>1, <2>3 DEF SyncTypes, TimeInv
  <2>11. mined \in 0 .. MaxTx /\ clock \in 1 .. MaxTime
    BY <2>1 DEF SyncTypes, ChainInv
  <2>12. QED
    BY <2>1, <2>6, <2>7, <2>8, <2>9, <2>10, <2>11 DEF SyncTypeOK, SyncTypes, ChainInv
<1>2. SyncInv => SyncTypes
  BY DEF SyncInv
<1>3. QED
  BY <1>1, <1>2, ChainInitially, ChainKept, SyncInvHolds, PTL DEF SyncSpec
-----------------------------------------------------------------------------
(***************************************************************************)
(* The sync implements EventLog: every step writes to the log, takes the   *)
(* place in it, reads what comes next, or is none of the log's.            *)
(***************************************************************************)
Ids == [i \in DOMAIN view |-> view[i].id]
LogStep == [Log!LogNext]_(Log!logVars)

LEMMA LogStays ==
    ASSUME UNCHANGED <<view, lastFetch, seen>>, syncPhase = "fetching" <=> syncPhase' = "fetching"
    PROVE  LogStep
<1>1. Old' = Old
  BY SameQuery
<1>2. (syncPhase # "fetching")' = (syncPhase # "fetching")
  OBVIOUS
<1>3. QED
  BY <1>1, <1>2 DEF LogStep, Log!logVars

\* A transaction that is indexed is a new entry, of the place after the last
\* one; it is a late one if its time is not after the fetch.
LEMMA IndexWrites ==
    ASSUME SyncInv, ChainInv, index
    PROVE  LogStep
<1> DEFINE t == unindexed[1]
           n == Len(view)
<1>1. SyncTypes /\ FreshInv /\ TimeInv /\ PullInv
  BY DEF SyncInv
<1>2. /\ t \in TxSet /\ n \in Nat /\ Len(unindexed) \in Nat \ {0}
      /\ DOMAIN view = 1 .. n /\ DOMAIN unindexed = 1 .. Len(unindexed)
      /\ Len(view') = n + 1 /\ DOMAIN view' = 1 .. n + 1
      /\ view'[n + 1] = t /\ \A i \in 1 .. n : view'[i] = view[i]
  BY <1>1, IndexFacts
<1>3. t.id = n + 1 /\ t.id \in 1 .. MaxTx
  <2>1. 1 \in DOMAIN unindexed /\ mined = n + Len(unindexed) /\ mined <= MaxTx
    BY <1>2 DEF ChainInv
  <2>2. t.id = n + 1
    BY <2>1 DEF ChainInv
  <2>3. QED
    BY <1>2, <2>1, <2>2, BoundsAssumption
<1>4. PICK e \in 1 .. MaxTx : e = t.id /\ e = n + 1
  BY <1>3
<1>5. \A i \in DOMAIN Ids : Ids[i] = i
  BY DEF Ids, ChainInv
<1>6. /\ Ids \in Seq(Nat) /\ Len(Ids) = n /\ DOMAIN Ids = 1 .. n
  <2>1. DOMAIN Ids = 1 .. n /\ \A i \in 1 .. n : Ids[i] \in Nat
    BY <1>2, <1>5 DEF Ids
  <2>2. Ids = [i \in 1 .. n |-> Ids[i]]
    BY <1>2 DEF Ids
  <2>3. QED
    BY <1>2, <2>1, <2>2
<1>7. Ids' = Append(Ids, e)
  <2>1. /\ Append(Ids, e) \in Seq(Nat) /\ Len(Append(Ids, e)) = n + 1
        /\ Append(Ids, e)[n + 1] = e
        /\ \A i \in 1 .. n : Append(Ids, e)[i] = Ids[i]
    BY <1>2, <1>4, <1>6, AppendProperties
  <2>2. Append(Ids, e) \in [1 .. n + 1 -> Nat]
    BY <2>1, LenProperties
  <2>3. \A i \in 1 .. n + 1 : Append(Ids, e)[i] = view'[i].id
    <3> SUFFICES ASSUME NEW i \in 1 .. n + 1
                 PROVE  Append(Ids, e)[i] = view'[i].id
      OBVIOUS
    <3>1. CASE i = n + 1
      BY <1>2, <1>4, <2>1, <3>1
    <3>2. CASE i \in 1 .. n
      <4>1. Append(Ids, e)[i] = Ids[i]
        BY <2>1, <3>2
      <4>2. Ids[i] = view[i].id
        BY <1>2, <3>2 DEF Ids
      <4>3. QED
        BY <1>2, <3>2, <4>1, <4>2
    <3>3. i = n + 1 \/ i \in 1 .. n
      BY <1>2
    <3>4. QED
      BY <3>1, <3>2, <3>3
  <2>4. Append(Ids, e) = [i \in 1 .. n + 1 |-> Append(Ids, e)[i]]
    BY <2>2
  <2>5. QED
    BY <1>2, <2>3, <2>4 DEF Ids
<1>8. UNCHANGED <<syncPhase, lastFetch, seen, syncPhase # "fetching">>
  BY DEF index, fetch
<1>9. \A i \in DOMAIN Ids : Ids[i] # e
  BY <1>2, <1>4, <1>5, <1>6
<1> HIDE DEF n, t
<1>10. CASE t.time <= lastFetch
  <2>1. skip = 0 /\ Old = n /\ Old' = n + 1
    BY <1>1, <1>2, <1>10, PullIndex DEF t, n
  <2>2. seen = <<>>
    <3>1. [i \in 1 .. 0 |-> view[Old + i].id] = <<>>
      OBVIOUS
    <3>2. QED
      BY <1>1, <2>1, <3>1 DEF PullInv
  <2>3. syncPhase # "fetching"
    <3>1. t.time \in Nat \ {0}
      BY <1>2 DEF TxSet
    <3>2. QED
      BY <1>1, <1>10, <3>1 DEF FreshInv, NoTime
  <2>4. Len(Append(Ids, e)) = n + 1
    BY <1>4, <1>6, AppendProperties
  <2>5. Log!WriteLate(e)
    <3>1. Old = Len(Ids) /\ Old' = Len(Ids')
      BY <1>6, <1>7, <2>1, <2>4
    <3>2. QED
      BY <1>7, <1>8, <1>9, <2>2, <2>3, <3>1 DEF Log!WriteLate, Ids
  <2>6. QED
    BY <2>5 DEF LogStep, Log!LogNext
<1>11. CASE ~(t.time <= lastFetch)
  <2>1. Old' = Old
    BY <1>1, <1>11, PullIndex DEF t
  <2>2. Log!Write(e)
    BY <1>7, <1>8, <1>9, <2>1 DEF Log!Write, Ids
  <2>3. QED
    BY <2>2 DEF LogStep, Log!LogNext
<1>12. QED
  BY <1>10, <1>11

\* The end of the fetch takes the place: behind all that is indexed, or, when
\* the fetch failed, before all of it.
LEMMA FetchFollows ==
    ASSUME SyncInv, fetchLastPage \/ fetchFails
    PROVE  LogStep
<1>1. SyncTypes /\ FreshInv /\ TimeInv /\ PullInv
  BY DEF SyncInv
<1>2. /\ UNCHANGED <<view, seen>>
      /\ syncPhase = "fetching" /\ syncPhase' = "ready"
  BY DEF fetchLastPage, fetchFails, chainVars, subgraph
<1>3. Len(view) \in Nat /\ DOMAIN view = 1 .. Len(view) /\ Old \in Nat /\ Old <= Len(view)
  BY <1>1, RecentIs
<1>4. Len(Ids) = Len(view)
  BY <1>3 DEF Ids
<1>5. Old' \in {0, Len(view)}
  <2>1. CASE fetchLastPage
    BY <1>1, <2>1, PullFetched
  <2>2. CASE fetchFails
    <3>1. lastFetch = 0 /\ UNCHANGED lastFetch
      BY <1>1, <1>2, <2>2 DEF FreshInv, NoTime, fetchFails
    <3>2. Old' = Old
      BY <1>2, <3>1, SameQuery
    <3>3. ASSUME Old # 0 PROVE FALSE
      <4>1. 1 \in DOMAIN view /\ 1 <= Old
        BY <1>3, <3>3
      <4>2. view[1].time <= 0
        BY <1>1, <3>1, <4>1 DEF TimeInv
      <4>3. view[1] \in TxSet
        BY <1>1, <4>1, ElementOfSeq DEF SyncTypes
      <4>4. view[1].time \in Nat \ {0}
        BY <4>3 DEF TxSet
      <4>5. QED
        BY <4>2, <4>4
    <3>4. QED
      BY <3>2, <3>3
  <2>3. QED
    BY <2>1, <2>2
<1>6. Log!Follow
  BY <1>2, <1>4, <1>5 DEF Log!Follow, Ids
<1>7. QED
  BY <1>6 DEF LogStep, Log!LogNext

\* A page is what comes next in the log.
LEMMA PageReads ==
    ASSUME SyncInv, pullPage
    PROVE  LogStep
<1>1. SyncTypes /\ FreshInv /\ PullInv
  BY DEF SyncInv
<1>2. PICK page \in Seq(TxSet) :
        LET n == Len(page)
        IN  /\ n \in Nat /\ Old + skip + n <= Len(view)
            /\ \A i \in 1 .. n : /\ Old + skip + i \in 1 .. Len(view)
                                 /\ page[i] = view[Old + skip + i]
            /\ seen' = seen \o [i \in 1 .. n |-> page[i].id]
            /\ UNCHANGED <<chainVars, subgraph, fetch, entry, dropped, overlooked, known>>
            /\ syncPhase = "pulling" /\ syncPhase' \in {"pulling", "applying"}
  BY <1>1, PullFacts DEF PullInv
<1> DEFINE n == Len(page)
<1>3. UNCHANGED <<view, lastFetch>>
  BY <1>2 DEF subgraph, fetch
<1>4. Old' = Old
  BY <1>3, SameQuery
<1>5. Len(view) \in Nat /\ DOMAIN view = 1 .. Len(view) /\ Old \in Nat
  BY <1>1, RecentIs
<1>6. skip \in Nat /\ Len(seen) = skip /\ seen \in Seq(Nat)
  <2>1. skip \in Nat /\ seen \in Seq(Nat) /\ DOMAIN seen = 1 .. skip
    BY <1>1 DEF SyncTypes, PullInv
  <2>2. QED
    BY <2>1
<1>7. Len(Ids) = Len(view) /\ DOMAIN Ids = 1 .. Len(view)
  BY <1>5 DEF Ids
<1>8. [i \in 1 .. n |-> page[i].id] = [i \in 1 .. n |-> Ids[Old + Len(seen) + i]]
  <2>1. \A i \in 1 .. n : page[i].id = Ids[Old + Len(seen) + i]
    BY <1>2, <1>5, <1>6 DEF Ids
  <2>2. QED
    BY <2>1
<1>9. CASE n = 0
  <2>1. [i \in 1 .. n |-> page[i].id] = <<>>
    BY <1>9
  <2>2. seen' = seen
    BY <1>2, <1>6, <2>1, ConcatEmptySeq
  <2>3. QED
    BY <1>2, <1>3, <2>2, LogStays
<1>10. CASE n # 0
  <2>1. n \in 1 .. Len(Ids) /\ Old + Len(seen) + n <= Len(Ids)
    BY <1>2, <1>5, <1>6, <1>7, <1>10
  <2>2. seen' = seen \o [i \in 1 .. n |-> Ids[Old + Len(seen) + i]]
    BY <1>2, <1>8
  <2>3. Ids' = Ids
    BY <1>3 DEF Ids
  <2>4. syncPhase # "fetching" /\ syncPhase' # "fetching"
    BY <1>2
  <2> HIDE DEF n
  <2>5. Log!Read(n)
    BY <1>4, <2>1, <2>2, <2>3, <2>4 DEF Log!Read, Ids
  <2>6. QED
    BY <2>1, <2>5 DEF LogStep, Log!LogNext, Ids
<1>11. QED
  BY <1>9, <1>10

\* The solver reads the log from its place on, entry after entry, whatever fails
\* or comes late between the pages and the rounds (fetchAll, getUpstreamEvents).
THEOREM SyncFollowsLog == SyncSpec => ImplementsEventLog
<1>1. SyncInit => Log!LogInit
  <2> SUFFICES ASSUME SyncInit PROVE Log!LogInit
    OBVIOUS
  <2>1. view = <<>> /\ seen = <<>> /\ syncPhase = "fetching"
    BY DEF SyncInit
  <2>2. Old = 0
    <3>1. SyncTypes
      BY TypesInitially
    <3>2. Len(view) = 0
      BY <2>1, EmptySeq
    <3>3. QED
      BY <3>1, <3>2, RecentIs
  <2>3. [i \in DOMAIN view |-> view[i].id] = <<>>
    BY <2>1
  <2>4. QED
    BY <2>1, <2>2, <2>3 DEF Log!LogInit
<1>2. ASSUME SyncInv, ChainInv, [SyncNext]_syncVars
      PROVE  LogStep
  <2>1. CASE tick \/ \E o \in Orders : mine(o)
    BY <2>1, LogStays DEF tick, mine, subgraph, fetch, sync
  <2>2. CASE index
    BY <1>2, <2>2, IndexWrites
  <2>3. CASE fetchPage \/ beginSync \/ pullFails \/ endSync
    BY <2>3, LogStays DEF fetchPage, beginSync, pullFails, endSync, subgraph, fetch, sync
  <2>4. CASE fetchLastPage \/ fetchFails
    BY <1>2, <2>4, FetchFollows
  <2>5. CASE pullPage
    BY <1>2, <2>5, PageReads
  <2>6. CASE applyAddition \/ additionFails \/ additionThrows \/ applyRemoval \/ ignoreEvent
    BY <2>6, LogStays DEF applyAddition, additionFails, additionThrows, applyRemoval, ignoreEvent,
                          subgraph, fetch
  <2>7. CASE UNCHANGED syncVars
    BY <2>7, LogStays DEF syncVars, subgraph, fetch, sync
  <2>8. QED
    BY <1>2, <2>1, <2>2, <2>3, <2>4, <2>5, <2>6, <2>7 DEF SyncNext, solverStep
<1>3. SyncInv => SyncTypes
  BY DEF SyncInv
<1>4. QED
  BY <1>1, <1>2, <1>3, ChainInitially, ChainKept, SyncInvHolds, PTL
  DEF SyncSpec, LogStep, ImplementsEventLog, Log!LogSpec
=============================================================================
