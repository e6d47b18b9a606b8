--------------------------- MODULE OrderBookProofs ---------------------------
(***************************************************************************)
(* Theorems about OrderBook, for any orders, pairs and tokens, and any     *)
(* number of times that an order is decoded, and about CounterpartyPick,   *)
(* for any candidates, quotes and prices.                                  *)
(***************************************************************************)
EXTENDS MCOrderBook, FiniteSetTheorems, WellFoundedInduction, TLAPS

\* The objects that a round works on.
Active == waiting \union quoting \union trading

\* A round works on listed orders only, and between the rounds there is none;
\* what a round has given up may have been removed since.
RoundInv ==
    /\ phase = "sync" => Active = {}
    /\ \A x \in Active : listed[OrderOf[x.pair]] > 0

\* What is not decoded yet was never quoted.
DecodedInv ==
    /\ \A x \in Active \union background : x.copy <= copies[OrderOf[x.pair]]
    /\ \A x \in Objects : x.copy > copies[OrderOf[x.pair]] => quote[x] = "none"

BookInv ==
    TypeOK /\ RoundInv /\ DecodedInv /\ NoRemovedUnlessRevived /\ MapsFollowQuotes

\* A finite set of numbers has a greatest one.
LEMMA HasGreatest ==
    ASSUME NEW S, S \subseteq Nat, IsFiniteSet(S), S # {}
    PROVE  \E m \in S : \A n \in S : n <= m
<1> DEFINE Without == {T \in SUBSET S : T # {} /\ ~ \E m \in T : \A n \in T : n <= m}
           Sizes == {Cardinality(T) : T \in Without}
<1>1. SUFFICES ASSUME S \in Without
               PROVE  FALSE
  OBVIOUS
<1>2. \A T \in Without : IsFiniteSet(T) /\ Cardinality(T) \in Nat
  BY FS_Subset, FS_CardinalityType
<1>3. Sizes \subseteq Nat /\ Sizes # {}
  BY <1>1, <1>2
<1>4. PICK c \in Sizes : \A d \in Sizes : ~(<<d, c>> \in OpToRel(<, Nat))
  <2> HIDE DEF Sizes
  <2>1. QED
    BY <1>3, NatLessThanWellFounded, WFMin
<1>5. \A d \in Sizes : ~(d < c)
  BY <1>3, <1>4 DEF OpToRel
<1>6. PICK T \in Without : c = Cardinality(T)
  OBVIOUS
<1>7. PICK x \in T : TRUE
  BY <1>6
<1>8. Cardinality(T \ {x}) < Cardinality(T)
  BY <1>2, <1>7, FS_RemoveElement
<1>9. T \ {x} \notin Without
  BY <1>5, <1>6, <1>8
<1>10. CASE T \ {x} = {}
  BY <1>7, <1>10
<1>11. CASE T \ {x} # {}
  <2>1. PICK y \in T \ {x} : \A n \in T \ {x} : n <= y
    BY <1>9, <1>11
  <2>2. x \in Nat /\ y \in Nat /\ T \subseteq Nat
    BY <1>7, <2>1
  <2>3. CASE x <= y
    <3>1. \A n \in T : n <= y
      BY <2>1, <2>3
    <3>2. QED
      BY <2>1, <3>1
  <2>4. CASE y <= x
    <3>1. \A n \in T : n <= x
      <4>1. TAKE n \in T
      <4>2. n \in Nat /\ (n = x \/ n <= y)
        BY <2>1, <2>2
      <4>3. QED
        BY <2>2, <2>4, <4>2
    <3>2. QED
      BY <1>7, <3>1
  <2>5. QED
    BY <2>2, <2>3, <2>4
<1>12. QED
  BY <1>10, <1>11

\* An order's entries: the pair that stays has the key that it is put under.
LEMMA LaterHasTheKey ==
    ASSUME NEW o \in Orders, NEW k \in KeysOf(o)
    PROVE  /\ Later(o, k) \in Pairs /\ OrderOf[Later(o, k)] = o
           /\ Key(Later(o, k)) = k
           /\ k \in Keys /\ k[2] = o
<1> DEFINE S == {p \in PairsOf(o) : Key(p) = k}
<1>1. S \subseteq Nat /\ IsFiniteSet(S) /\ S # {}
  BY PairsAssumption, FS_Subset DEF KeysOf, PairsOf
<1>2. PICK m \in S : \A n \in S : n <= m
  <2> HIDE DEF S
  <2>1. QED
    BY <1>1, HasGreatest
<1>3. Later(o, k) \in PairsOf(o) /\ Key(Later(o, k)) = k
  BY <1>2 DEF Later
<1>4. QED
  BY <1>3 DEF PairsOf, Keys, Key

\* The keys of other orders are other keys.
LEMMA KeysAreOfTheirOrder ==
    /\ \A p \in Pairs : Key(p) \in Keys /\ Key(p)[2] = OrderOf[p]
    /\ \A p \in Pairs, o \in Orders : Key(p) \in KeysOf(o) <=> OrderOf[p] = o
    /\ \A k \in Keys, o \in Orders : k \in KeysOf(o) <=> k[2] = o
BY DEF Key, Keys, KeysOf, PairsOf

\* An object has a pair of an order, and counts are numbers.
LEMMA ObjectTypes ==
    ASSUME TypeOK, NEW x \in Objects
    PROVE  /\ x.pair \in Pairs /\ OrderOf[x.pair] \in Orders /\ x.copy \in 1 .. MaxCopies
           /\ copies[OrderOf[x.pair]] \in 0 .. MaxCopies
           /\ listed[OrderOf[x.pair]] \in 0 .. MaxCopies
<1>1. x.pair \in Pairs /\ x.copy \in 1 .. MaxCopies
  BY DEF Objects
<1>2. OrderOf[x.pair] \in Orders
  BY <1>1, PairsAssumption
<1>3. copies \in [Orders -> 0 .. MaxCopies] /\ listed \in [Orders -> 0 .. MaxCopies]
  BY DEF TypeOK
<1>4. QED
  BY <1>1, <1>2, <1>3

LEMMA ObjectFields ==
    ASSUME NEW p \in Pairs, NEW n \in 1 .. MaxCopies
    PROVE  /\ Object(p, n) \in Objects
           /\ Object(p, n).pair = p /\ Object(p, n).copy = n
BY DEF Object, Objects

\* A good quote puts its pair where the maps had nothing or a pair of the same
\* key, and makes nothing of it a counterparty that has no output.
LEMMA GoodQuoteKeeps ==
    ASSUME TypeOK, DecodedInv, MapsFollowQuotes, UNCHANGED copies,
           NEW x \in Objects, goodQuote(x),
           x.copy <= copies[OrderOf[x.pair]]
    PROVE  /\ quote' \in [Objects -> {"none", "ok", "zero"}]
           /\ outcome' \in [Pairs -> {"none", "ok", "zero", "failed", "empty"}]
           /\ DOMAIN pairMap' \subseteq Keys
           /\ \A k \in DOMAIN pairMap' : pairMap'[k] \in Objects /\ Key(pairMap'[k].pair) = k
           /\ DOMAIN pairMap' = DOMAIN pairMap \union {Key(x.pair)}
           /\ \A y \in Objects : y.copy > copies'[OrderOf[y.pair]] => quote'[y] = "none"
           /\ MapsFollowQuotes'
<1>1. x.pair \in Pairs /\ Key(x.pair) \in Keys
  BY KeysAreOfTheirOrder DEF Objects
<1>2. quote' \in [Objects -> {"none", "ok", "zero"}] /\ quote'[x] = "ok"
      /\ \A y \in Objects \ {x} : quote'[y] = quote[y]
  BY DEF goodQuote, TypeOK
<1>3. outcome' \in [Pairs -> {"none", "ok", "zero", "failed", "empty"}]
      /\ \A p \in Pairs \ {x.pair} : outcome'[p] = outcome[p]
  BY <1>1 DEF goodQuote, TypeOK
<1>4. /\ DOMAIN pairMap' = DOMAIN pairMap \union {Key(x.pair)}
      /\ \A k \in DOMAIN pairMap' :
           pairMap'[k] = IF k = Key(x.pair) THEN x ELSE pairMap[k]
  BY DEF goodQuote
<1>5. /\ DOMAIN pairMap' \subseteq Keys
      /\ \A k \in DOMAIN pairMap' : pairMap'[k] \in Objects /\ Key(pairMap'[k].pair) = k
  BY <1>1, <1>4 DEF TypeOK
<1>6. \A y \in Objects : y.copy > copies'[OrderOf[y.pair]] => quote'[y] = "none"
  <2>1. TAKE y \in Objects
  <2>2. CASE y = x
    <3>1. copies[OrderOf[x.pair]] \in Int /\ x.copy \in Int
      BY ObjectTypes
    <3>2. QED
      BY <2>2, <3>1
  <2>3. CASE y # x
    BY <1>2, <2>3 DEF DecodedInv
  <2>4. QED
    BY <2>2, <2>3
<1>7. \A k \in DOMAIN pairMap' : quote'[pairMap'[k]] # "zero"
  <2>1. TAKE k \in DOMAIN pairMap'
  <2>2. CASE pairMap'[k] = x
    BY <1>2, <2>2
  <2>3. CASE pairMap'[k] # x
    BY <1>2, <1>4, <1>5, <2>3 DEF MapsFollowQuotes
  <2>4. QED
    BY <2>2, <2>3
<1>8. ASSUME NEW k \in Keys, \A p \in Pairs : Key(p) = k => outcome'[p] = "ok"
      PROVE  k \in DOMAIN pairMap'
  <2>1. CASE k = Key(x.pair)
    BY <1>4, <2>1
  <2>2. CASE k # Key(x.pair)
    BY <1>3, <1>4, <1>8, <2>2 DEF MapsFollowQuotes
  <2>3. QED
    BY <2>1, <2>2
<1>9. MapsFollowQuotes'
  BY <1>7, <1>8 DEF MapsFollowQuotes, Keys, Key
<1>10. QED
  BY <1>2, <1>3, <1>4, <1>5, <1>6, <1>9

\* Any other quote takes the entry of its pair away.
LEMMA BadQuoteKeeps ==
    ASSUME TypeOK, DecodedInv, MapsFollowQuotes, UNCHANGED copies,
           NEW x \in Objects, badQuote(x),
           x.copy <= copies[OrderOf[x.pair]]
    PROVE  /\ quote' \in [Objects -> {"none", "ok", "zero"}]
           /\ outcome' \in [Pairs -> {"none", "ok", "zero", "failed", "empty"}]
           /\ DOMAIN pairMap' = DOMAIN pairMap \ {Key(x.pair)}
           /\ \A k \in DOMAIN pairMap' : pairMap'[k] = pairMap[k]
           /\ \A y \in Objects : y.copy > copies'[OrderOf[y.pair]] => quote'[y] = "none"
           /\ MapsFollowQuotes'
<1>1. x.pair \in Pairs
  BY DEF Objects
<1>2. /\ quote' \in [Objects -> {"none", "ok", "zero"}]
      /\ \A y \in Objects \ {x} : quote'[y] = quote[y]
  BY DEF badQuote, TypeOK
<1>3. /\ outcome' \in [Pairs -> {"none", "ok", "zero", "failed", "empty"}]
      /\ outcome'[x.pair] # "ok"
      /\ \A p \in Pairs \ {x.pair} : outcome'[p] = outcome[p]
  BY <1>1 DEF badQuote, TypeOK
<1>4. /\ DOMAIN pairMap' = DOMAIN pairMap \ {Key(x.pair)}
      /\ \A k \in DOMAIN pairMap' : pairMap'[k] = pairMap[k]
  BY DEF badQuote, without, removedFor
<1>5. \A y \in Objects : y.copy > copies'[OrderOf[y.pair]] => quote'[y] = "none"
  <2>1. TAKE y \in Objects
  <2>2. CASE y = x
    <3>1. copies[OrderOf[x.pair]] \in Int /\ x.copy \in Int
      BY ObjectTypes
    <3>2. QED
      BY <2>2, <3>1
  <2>3. CASE y # x
    BY <1>2, <2>3 DEF DecodedInv
  <2>4. QED
    BY <2>2, <2>3
<1>6. \A k \in DOMAIN pairMap' : quote'[pairMap'[k]] # "zero"
  <2>1. TAKE k \in DOMAIN pairMap'
  <2>2. pairMap'[k] \in Objects \ {x} /\ pairMap'[k] = pairMap[k]
    BY <1>4 DEF TypeOK
  <2>3. QED
    BY <1>2, <1>4, <2>2 DEF MapsFollowQuotes
<1>7. ASSUME NEW k \in Keys, \A p \in Pairs : Key(p) = k => outcome'[p] = "ok"
      PROVE  k \in DOMAIN pairMap'
  <2>1. k # Key(x.pair)
    BY <1>1, <1>3, <1>7
  <2>2. \A p \in Pairs : Key(p) = k => outcome[p] = "ok"
    BY <1>3, <1>7, <2>1
  <2>3. QED
    BY <1>4, <2>1, <2>2 DEF MapsFollowQuotes
<1>8. MapsFollowQuotes'
  BY <1>6, <1>7 DEF MapsFollowQuotes, Keys, Key
<1>9. QED
  BY <1>2, <1>3, <1>4, <1>5, <1>8

\* addOrder puts objects into the maps that were never quoted.
LEMMA AddingKeeps ==
    ASSUME BookInv, NEW o \in Orders, addOrder(o)
    PROVE  BookInv'
<1> DEFINE n == copies[o] + 1
<1>1. /\ phase = "sync" /\ copies[o] \in 0 .. MaxCopies /\ copies[o] < MaxCopies
      /\ n \in 1 .. MaxCopies
      /\ copies' = [copies EXCEPT ![o] = n]
      /\ listed' = [listed EXCEPT ![o] = IF @ = 0 THEN n ELSE @]
      /\ pairMap' = withOrder(pairMap, o, n)
      /\ UNCHANGED <<quote, phase, waiting, slots, quoting, trading, background,
                     outcome, revived>>
  BY CopiesAssumption DEF addOrder, BookInv, TypeOK
<1>2. copies \in [Orders -> 0 .. MaxCopies] /\ listed \in [Orders -> 0 .. MaxCopies]
      /\ \A q \in Orders : listed[q] <= copies[q]
  BY DEF BookInv, TypeOK
<1>3. /\ copies' \in [Orders -> 0 .. MaxCopies] /\ listed' \in [Orders -> 0 .. MaxCopies]
      /\ \A q \in Orders : /\ listed'[q] <= copies'[q] /\ copies[q] <= copies'[q]
                           /\ listed[q] > 0 => listed'[q] > 0
      /\ listed'[o] > 0 /\ copies'[o] = n
  BY <1>1, <1>2, CopiesAssumption
<1>4. /\ DOMAIN pairMap' = DOMAIN pairMap \union KeysOf(o)
      /\ \A k \in KeysOf(o) : pairMap'[k] = Object(Later(o, k), n)
      /\ \A k \in DOMAIN pairMap \ KeysOf(o) : pairMap'[k] = pairMap[k]
  BY <1>1 DEF withOrder
<1>5. \A k \in KeysOf(o) :
        /\ k \in Keys /\ k[2] = o /\ pairMap'[k] \in Objects
        /\ Key(pairMap'[k].pair) = k
        /\ pairMap'[k].copy = n /\ OrderOf[pairMap'[k].pair] = o
  BY <1>1, <1>4, LaterHasTheKey, ObjectFields
<1>6. empty' \subseteq Pairs
  BY DEF addOrder, BookInv, TypeOK, PairsOf
<1>7. TypeOK'
  <2>1. DOMAIN pairMap' \subseteq Keys
    BY <1>4, <1>5 DEF BookInv, TypeOK
  <2>2. \A k \in DOMAIN pairMap' : pairMap'[k] \in Objects /\ Key(pairMap'[k].pair) = k
    BY <1>4, <1>5 DEF BookInv, TypeOK
  <2>3. QED
    BY <1>1, <1>3, <1>6, <2>1, <2>2 DEF BookInv, TypeOK, Keys, Key
<1>8. RoundInv'
  BY <1>1 DEF BookInv, RoundInv, Active
<1>9. DecodedInv'
  <2>1. ASSUME NEW x \in Active \union background
        PROVE  x.copy <= copies'[OrderOf[x.pair]]
    <3>1. x \in Objects /\ x.copy <= copies[OrderOf[x.pair]]
      BY DEF BookInv, TypeOK, DecodedInv, Active
    <3>2. /\ OrderOf[x.pair] \in Orders /\ x.copy \in Int
          /\ copies[OrderOf[x.pair]] \in Int /\ copies'[OrderOf[x.pair]] \in Int
      BY <1>3, <3>1, ObjectTypes DEF BookInv
    <3>3. QED
      BY <1>3, <3>1, <3>2
  <2>2. ASSUME NEW x \in Objects, x.copy > copies'[OrderOf[x.pair]]
        PROVE  quote[x] = "none"
    <3>1. /\ OrderOf[x.pair] \in Orders /\ x.copy \in Int
          /\ copies[OrderOf[x.pair]] \in Int /\ copies'[OrderOf[x.pair]] \in Int
      BY <1>3, ObjectTypes DEF BookInv
    <3>2. x.copy > copies[OrderOf[x.pair]]
      BY <1>3, <2>2, <3>1
    <3>3. QED
      BY <3>2 DEF BookInv, DecodedInv
  <2>3. QED
    BY <1>1, <2>1, <2>2 DEF DecodedInv, Active
<1>10. NoRemovedUnlessRevived'
  <2>1. ASSUME NEW k \in DOMAIN pairMap' \ revived
        PROVE  listed'[k[2]] > 0
    <3>1. CASE k \in KeysOf(o)
      BY <1>3, <1>5, <3>1
    <3>2. CASE k \notin KeysOf(o)
      <4>1. k \in Keys /\ listed[k[2]] > 0
        BY <1>4, <3>2 DEF BookInv, TypeOK, NoRemovedUnlessRevived
      <4>2. k[2] \in Orders
        BY <4>1, PairsAssumption DEF Keys, Key
      <4>3. QED
        BY <1>3, <4>1, <4>2
    <3>3. QED
      BY <3>1, <3>2
  <2>2. QED
    BY <1>1, <2>1 DEF NoRemovedUnlessRevived
<1>11. MapsFollowQuotes'
  <2>1. ASSUME NEW k \in DOMAIN pairMap'
        PROVE  quote[pairMap'[k]] # "zero"
    <3>1. CASE k \in KeysOf(o)
      <4>1. pairMap'[k].copy > copies[OrderOf[pairMap'[k].pair]]
        BY <1>1, <1>5, <3>1
      <4>2. quote[pairMap'[k]] = "none"
        BY <1>5, <3>1, <4>1 DEF BookInv, DecodedInv
      <4>3. QED
        BY <4>2
    <3>2. CASE k \notin KeysOf(o)
      BY <1>4, <3>2 DEF BookInv, MapsFollowQuotes
    <3>3. QED
      BY <3>1, <3>2
  <2>2. QED
    BY <1>1, <1>4, <2>1 DEF BookInv, MapsFollowQuotes, Keys, Key
<1>12. QED
  BY <1>7, <1>8, <1>9, <1>10, <1>11 DEF BookInv

\* removeOrders takes the order out of both maps.
LEMMA RemovingKeeps ==
    ASSUME BookInv, NEW o \in Orders, removeOrders(o)
    PROVE  BookInv'
<1>1. /\ phase = "sync" /\ listed' = [listed EXCEPT ![o] = 0]
      /\ outcome' = [p \in Pairs |-> IF OrderOf[p] = o THEN "none" ELSE outcome[p]]
      /\ revived' = revived \ KeysOf(o)
      /\ UNCHANGED <<copies, empty, quote, phase, waiting, slots, quoting, trading,
                     background>>
  BY DEF removeOrders
<1>2. /\ DOMAIN pairMap' = DOMAIN pairMap \ KeysOf(o)
      /\ \A k \in DOMAIN pairMap' : pairMap'[k] = pairMap[k]
  BY DEF removeOrders, without
<1>3. /\ listed' \in [Orders -> 0 .. MaxCopies]
      /\ \A q \in Orders : listed'[q] <= copies[q]
      /\ \A q \in Orders \ {o} : listed'[q] = listed[q]
  BY <1>1, CopiesAssumption DEF BookInv, TypeOK
<1>4. outcome' \in [Pairs -> {"none", "ok", "zero", "failed", "empty"}]
      /\ \A p \in Pairs : outcome'[p] = "ok" => OrderOf[p] # o /\ outcome[p] = "ok"
  BY <1>1 DEF BookInv, TypeOK
<1>5. TypeOK'
  BY <1>1, <1>2, <1>3, <1>4 DEF BookInv, TypeOK, Keys, Key
<1>6. RoundInv'
  BY <1>1 DEF BookInv, RoundInv, Active
<1>7. DecodedInv'
  BY <1>1 DEF BookInv, DecodedInv, Active
<1>8. NoRemovedUnlessRevived'
  <2>1. ASSUME NEW k \in DOMAIN pairMap' \ revived'
        PROVE  listed'[k[2]] > 0
    <3>1. k \in Keys /\ k \notin KeysOf(o) /\ k \in DOMAIN pairMap \ revived
      BY <1>1, <1>2 DEF BookInv, TypeOK
    <3>2. k[2] \in Orders \ {o}
      BY <3>1, PairsAssumption, KeysAreOfTheirOrder DEF Keys, Key
    <3>3. QED
      BY <1>3, <3>1, <3>2 DEF BookInv, NoRemovedUnlessRevived
  <2>2. QED
    BY <2>1 DEF NoRemovedUnlessRevived
<1>9. MapsFollowQuotes'
  <2>1. \A k \in DOMAIN pairMap' : quote'[pairMap'[k]] # "zero"
    BY <1>1, <1>2 DEF BookInv, MapsFollowQuotes
  <2>2. ASSUME NEW k \in Keys, \A p \in Pairs : Key(p) = k => outcome'[p] = "ok"
        PROVE  k \in DOMAIN pairMap'
    <3>1. k \notin KeysOf(o)
      BY <1>4, <2>2 DEF KeysOf, PairsOf
    <3>2. k \in DOMAIN pairMap
      BY <1>4, <2>2 DEF BookInv, MapsFollowQuotes
    <3>3. QED
      BY <1>2, <3>1, <3>2
  <2>3. QED
    BY <2>1, <2>2 DEF MapsFollowQuotes, Keys, Key
<1>10. QED
  BY <1>5, <1>6, <1>7, <1>8, <1>9 DEF BookInv

\* A quote of the running round: what it is for is listed.
LEMMA QuotedKeeps ==
    ASSUME BookInv, NEW x \in Objects, quoted(x)
    PROVE  BookInv'
<1>1. /\ x \in quoting /\ quoting' = quoting \ {x}
      /\ trading' \in {trading, trading \union {x}}
      /\ goodQuote(x) \/ badQuote(x)
      /\ UNCHANGED <<copies, listed, empty, phase, waiting, slots, background, revived>>
  BY DEF quoted
<1>2. x \in Active /\ listed[OrderOf[x.pair]] > 0 /\ x.copy <= copies[OrderOf[x.pair]]
  BY <1>1 DEF BookInv, RoundInv, DecodedInv, Active
<1>3. Active' \subseteq Active /\ phase' = phase /\ background' = background
  BY <1>1 DEF Active
<1>4. RoundInv'
  BY <1>1, <1>3 DEF BookInv, RoundInv
<1>5. CASE goodQuote(x)
  <2>1. TypeOK' /\ MapsFollowQuotes' /\ DecodedInv'
    <3> USE <1>1, <1>2, <1>3, <1>5, GoodQuoteKeeps DEF BookInv
    <3>1. TypeOK'
      BY DEF TypeOK, Keys, Key
    <3>2. DecodedInv'
      BY DEF DecodedInv
    <3>3. QED
      BY <3>1, <3>2
  <2>2. DOMAIN pairMap' = DOMAIN pairMap \union {Key(x.pair)}
    BY <1>5 DEF goodQuote
  <2>3. Key(x.pair)[2] = OrderOf[x.pair]
    BY ObjectTypes, KeysAreOfTheirOrder DEF BookInv
  <2>4. NoRemovedUnlessRevived'
    BY <1>1, <1>2, <2>2, <2>3 DEF BookInv, NoRemovedUnlessRevived
  <2>5. QED
    BY <1>4, <2>1, <2>4 DEF BookInv
<1>6. CASE badQuote(x)
  <2>1. TypeOK' /\ MapsFollowQuotes' /\ DecodedInv'
    <3> USE <1>1, <1>2, <1>3, <1>6, BadQuoteKeeps DEF BookInv
    <3>1. TypeOK'
      BY DEF TypeOK, Keys, Key
    <3>2. DecodedInv'
      BY DEF DecodedInv
    <3>3. QED
      BY <3>1, <3>2
  <2>2. DOMAIN pairMap' \subseteq DOMAIN pairMap
    BY <1>6 DEF badQuote, without
  <2>3. NoRemovedUnlessRevived'
    BY <1>1, <2>2 DEF BookInv, NoRemovedUnlessRevived
  <2>4. QED
    BY <1>4, <2>1, <2>3 DEF BookInv
<1>7. QED
  BY <1>1, <1>5, <1>6

\* The late quote of a round that was given up: what it puts back is noted.
LEMMA QuotedLateKeeps ==
    ASSUME BookInv, NEW x \in Objects, quotedLate(x)
    PROVE  BookInv'
<1>1. /\ x \in background /\ background' = background \ {x}
      /\ UNCHANGED <<copies, listed, empty, phase, waiting, slots, quoting, trading>>
  BY DEF quotedLate
<1>2. x.copy <= copies[OrderOf[x.pair]]
  BY <1>1 DEF BookInv, DecodedInv
<1>3. RoundInv' /\ Active' = Active
  BY <1>1 DEF BookInv, RoundInv, Active
<1>4. Key(x.pair) \in Keys /\ Key(x.pair)[2] = OrderOf[x.pair]
  BY ObjectTypes, KeysAreOfTheirOrder DEF BookInv
<1>5. CASE /\ goodQuote(x)
           /\ revived' = IF listed[OrderOf[x.pair]] = 0 THEN revived \union {Key(x.pair)}
                                                        ELSE revived
  <2>1. TypeOK' /\ MapsFollowQuotes' /\ DecodedInv'
    <3> USE <1>1, <1>2, <1>3, <1>4, <1>5, GoodQuoteKeeps DEF BookInv
    <3>1. TypeOK'
      BY DEF TypeOK, Keys, Key
    <3>2. DecodedInv'
      BY DEF DecodedInv
    <3>3. QED
      BY <3>1, <3>2
  <2>2. DOMAIN pairMap' = DOMAIN pairMap \union {Key(x.pair)}
    BY <1>5 DEF goodQuote
  <2>3. listed[OrderOf[x.pair]] \in Nat
    BY ObjectTypes DEF BookInv
  <2>4. NoRemovedUnlessRevived'
    BY <1>1, <1>4, <1>5, <2>2, <2>3 DEF BookInv, NoRemovedUnlessRevived
  <2>5. QED
    BY <1>3, <2>1, <2>4 DEF BookInv
<1>6. CASE badQuote(x) /\ UNCHANGED revived
  <2>1. TypeOK' /\ MapsFollowQuotes' /\ DecodedInv'
    <3> USE <1>1, <1>2, <1>3, <1>6, BadQuoteKeeps DEF BookInv
    <3>1. TypeOK'
      BY DEF TypeOK, Keys, Key
    <3>2. DecodedInv'
      BY DEF DecodedInv
    <3>3. QED
      BY <3>1, <3>2
  <2>2. DOMAIN pairMap' \subseteq DOMAIN pairMap
    BY <1>6 DEF badQuote, without
  <2>3. NoRemovedUnlessRevived'
    BY <1>1, <1>6, <2>2 DEF BookInv, NoRemovedUnlessRevived
  <2>4. QED
    BY <1>3, <2>1, <2>3 DEF BookInv
<1>7. QED
  BY <1>5, <1>6 DEF quotedLate

\* Every step keeps what the pair maps promise.
LEMMA BookInvInductive ==
    /\ Init => BookInv
    /\ BookInv /\ [Next]_vars => BookInv'
<1>1. ASSUME Init
      PROVE  BookInv
  <2> DEFINE known == {o \in Orders : listed[o] = 1}
  <2>1. copies \in [Orders -> {0, 1}] /\ listed = copies
        /\ (MaxCopies = 0 => copies \in [Orders -> {0}])
    BY <1>1, CopiesAssumption DEF Init
  <2>2. copies \in [Orders -> 0 .. MaxCopies]
    BY <2>1, CopiesAssumption
  <2>3. /\ DOMAIN pairMap = UNION {KeysOf(o) : o \in known}
        /\ \A k \in DOMAIN pairMap : pairMap[k] = Object(Later(k[2], k), 1)
    BY <1>1 DEF Init
  <2>4. ASSUME NEW k \in DOMAIN pairMap
        PROVE  /\ k \in Keys /\ pairMap[k] \in Objects /\ Key(pairMap[k].pair) = k
               /\ k[2] \in known
    <3>1. PICK o \in known : k \in KeysOf(o)
      BY <2>3
    <3>2. k \in Keys /\ k[2] = o /\ Later(o, k) \in Pairs /\ Key(Later(o, k)) = k
      BY <3>1, LaterHasTheKey
    <3>3. 1 \in 1 .. MaxCopies
      BY <2>1, <3>1, CopiesAssumption
    <3>4. QED
      BY <2>3, <3>1, <3>2, <3>3, ObjectFields
  <2>5. TypeOK
    <3>1. \A o \in Orders : listed[o] <= copies[o]
      BY <2>1, <2>2
    <3>2. DOMAIN pairMap \subseteq Keys
          /\ \A k \in DOMAIN pairMap : pairMap[k] \in Objects /\ Key(pairMap[k].pair) = k
      BY <2>4
    <3>3. slots \in 0 .. MaxConcurrency
      BY <1>1, ConcurrencyAssumption DEF Init
    <3>4. QED
      BY <1>1, <2>1, <2>2, <3>1, <3>2, <3>3 DEF Init, TypeOK
  <2>6. RoundInv /\ DecodedInv
    BY <1>1 DEF Init, RoundInv, DecodedInv, Active
  <2>7. NoRemovedUnlessRevived
    BY <2>4 DEF NoRemovedUnlessRevived
  <2>8. MapsFollowQuotes
    BY <1>1, <2>4 DEF Init, MapsFollowQuotes, Keys
  <2>9. QED
    BY <2>5, <2>6, <2>7, <2>8 DEF BookInv
<1>2. ASSUME BookInv, [Next]_vars
      PROVE  BookInv'
  <2>1. ASSUME NEW o \in Orders, addOrder(o) \/ removeOrders(o)
        PROVE  BookInv'
    BY <1>2, <2>1, AddingKeeps, RemovingKeeps
  <2>2. ASSUME NEW p \in Pairs, updateVault(p)
        PROVE  BookInv'
    BY <1>2, <2>2 DEF updateVault, BookInv, TypeOK, RoundInv, DecodedInv, Active,
       NoRemovedUnlessRevived, MapsFollowQuotes, Keys, Key
  <2>3. CASE initializeRound
    <3>1. PICK taken \in SUBSET Listed :
            /\ waiting' = {x \in taken : x.pair \notin empty}
            /\ outcome' = [p \in Pairs |->
                 IF p \in empty /\ (\E x \in taken : x.pair = p) THEN "empty"
                                                                 ELSE outcome[p]]
      BY <2>3 DEF initializeRound
    <3>2. phase = "sync" /\ phase' = "round"
          /\ UNCHANGED <<copies, listed, pairMap, empty, quote, slots, quoting, trading,
                         background, revived>>
      BY <2>3 DEF initializeRound
    <3>3. \A x \in waiting' : /\ x \in Objects /\ listed[OrderOf[x.pair]] > 0
                              /\ x.copy <= copies[OrderOf[x.pair]]
      <4>1. TAKE x \in waiting'
      <4>2. PICK p \in Pairs : listed[OrderOf[p]] > 0 /\ x = Object(p, listed[OrderOf[p]])
        BY <3>1 DEF Listed
      <4>3. OrderOf[p] \in Orders /\ listed[OrderOf[p]] \in 1 .. MaxCopies
            /\ listed[OrderOf[p]] <= copies[OrderOf[p]]
        BY <1>2, <4>2, PairsAssumption, CopiesAssumption DEF BookInv, TypeOK
      <4>4. QED
        BY <4>2, <4>3 DEF Object, Objects
    <3>4. outcome' \in [Pairs -> {"none", "ok", "zero", "failed", "empty"}]
          /\ \A p \in Pairs : outcome'[p] = "ok" => outcome[p] = "ok"
      BY <1>2, <3>1 DEF BookInv, TypeOK
    <3>5. TypeOK'
      BY <1>2, <3>2, <3>3, <3>4 DEF BookInv, TypeOK, Keys, Key
    <3>6. RoundInv' /\ DecodedInv'
      BY <1>2, <3>2, <3>3 DEF BookInv, RoundInv, DecodedInv, Active
    <3>7. NoRemovedUnlessRevived' /\ MapsFollowQuotes'
      BY <1>2, <3>2, <3>4 DEF BookInv, NoRemovedUnlessRevived, MapsFollowQuotes, Keys, Key
    <3>8. QED
      BY <3>5, <3>6, <3>7 DEF BookInv
  <2>4. ASSUME NEW x \in Objects, processOrderInit(x)
        PROVE  BookInv'
    <3>1. /\ phase = "round" /\ x \in waiting /\ slots > 0
          /\ waiting' = waiting \ {x} /\ quoting' = quoting \union {x}
          /\ slots' = slots - 1 /\ Active' = Active
          /\ UNCHANGED <<copies, listed, pairMap, empty, quote, phase, trading,
                         background, outcome, revived>>
      BY <2>4 DEF processOrderInit, Active
    <3>2. TypeOK'
      BY <1>2, <3>1, ConcurrencyAssumption DEF BookInv, TypeOK, Keys, Key
    <3>3. QED
      BY <1>2, <3>1, <3>2 DEF BookInv, RoundInv, DecodedInv, NoRemovedUnlessRevived,
         MapsFollowQuotes, Keys, Key
  <2>5. ASSUME NEW x \in Objects, quoted(x) \/ quotedLate(x)
        PROVE  BookInv'
    BY <1>2, <2>5, QuotedKeeps, QuotedLateKeeps
  <2>6. ASSUME NEW x \in Objects, processed(x)
        PROVE  BookInv'
    <3>1. Active' \subseteq Active
      BY <2>6 DEF processed, Active
    <3>2. QED
      BY <1>2, <2>6, <3>1 DEF processed, BookInv, TypeOK, RoundInv, DecodedInv,
         NoRemovedUnlessRevived, MapsFollowQuotes, Keys, Key
  <2>7. ASSUME NEW x \in Objects, roundThrows(x)
        PROVE  BookInv'
    <3>1. /\ Active' = {} /\ background' = background \union quoting
          /\ background' \subseteq Active \union background
      BY <2>7 DEF roundThrows, Active
    <3>2. QED
      BY <1>2, <2>7, <3>1, ConcurrencyAssumption DEF roundThrows, BookInv, TypeOK, RoundInv,
         DecodedInv, NoRemovedUnlessRevived, MapsFollowQuotes, Keys, Key
  <2>8. CASE nextBatch \/ endRound
    <3>1. Active' = Active /\ (endRound => Active = {})
      BY <2>8 DEF nextBatch, endRound, Active
    <3>2. QED
      BY <1>2, <2>8, <3>1, ConcurrencyAssumption DEF nextBatch, endRound, BookInv, TypeOK,
         RoundInv, DecodedInv, NoRemovedUnlessRevived, MapsFollowQuotes, Keys, Key
  <2>9. CASE UNCHANGED vars
    BY <1>2, <2>9 DEF vars, BookInv, TypeOK, RoundInv, DecodedInv, Active,
       NoRemovedUnlessRevived, MapsFollowQuotes, Keys, Key
  <2>10. QED
    BY <1>2, <2>1, <2>2, <2>3, <2>4, <2>5, <2>6, <2>7, <2>8, <2>9 DEF Next
<1>3. QED
  BY <1>1, <1>2

\* Whatever is added, removed and quoted at the same time, the pair maps offer
\* orders of the owners map only, but for what the late quote of a round that
\* was given up put back (removeOrders, addToPairMaps).
THEOREM RemovedIsNoCounterparty == Spec => []NoRemovedUnlessRevived
<1>1. BookInv => NoRemovedUnlessRevived
  BY DEF BookInv
<1>2. QED
  BY <1>1, BookInvInductive, PTL DEF Spec

\* The pair maps follow the last quotes, in whatever order the quotes of a
\* batch arrive and whatever pairs share an entry (processOrder).
THEOREM PairMapsFollowQuotes == Spec => []MapsFollowQuotes
<1>1. BookInv => MapsFollowQuotes
  BY DEF BookInv
<1>2. QED
  BY <1>1, BookInvInductive, PTL DEF Spec
-----------------------------------------------------------------------------
(***************************************************************************)
(* CounterpartyPick.                                                       *)
(***************************************************************************)

PickInv == PickTypeOK /\ EverySizeServed

\* The places of the options that getOptimalSortedList keeps, and the place of
\* each of them in its result.
Kept(options) ==
    {i \in DOMAIN options :
        /\ out(options[i]) > 0
        /\ \A j \in 1 .. i - 1 : out(options[j]) < out(options[i])}
Rank(options, i) == Cardinality({j \in Kept(options) : j >= i})

\* A sorted list has every element.
LEMMA SortingIsOnto ==
    ASSUME NEW S, IsFiniteSet(S), NEW q \in [1 .. Cardinality(S) -> S],
           \A i, j \in DOMAIN q : i < j => q[i] # q[j]
    PROVE  \A x \in S : \E i \in DOMAIN q : q[i] = x
<1>1. Cardinality(S) \in Nat
  BY FS_CardinalityType
<1>2. /\ IsFiniteSet(1 .. Cardinality(S))
      /\ Cardinality(1 .. Cardinality(S)) = Cardinality(S)
  BY <1>1, FS_Interval
<1>3. q \in Injection(1 .. Cardinality(S), S)
  <2>1. ASSUME NEW i \in 1 .. Cardinality(S), NEW j \in 1 .. Cardinality(S), q[i] = q[j]
        PROVE  i = j
    BY <1>1, <2>1
  <2>2. QED
    BY <2>1 DEF Injection, IsInjective
<1>4. q \in Surjection(1 .. Cardinality(S), S)
  BY <1>2, <1>3, FS_Injection
<1>5. QED
  BY <1>4 DEF Surjection

\* The ranks number what is kept, the last first.
LEMMA RanksNumberTheKept ==
    ASSUME NEW options, NEW n \in Nat, DOMAIN options = 1 .. n
    PROVE  LET kept == Kept(options)
           IN  /\ Cardinality(kept) \in Nat
               /\ \A i \in kept : Rank(options, i) \in 1 .. Cardinality(kept)
               /\ \A i, j \in kept : i < j => Rank(options, j) < Rank(options, i)
               /\ \A m \in 1 .. Cardinality(kept) : \E i \in kept : Rank(options, i) = m
<1> DEFINE kept == Kept(options)
           From(i) == {j \in kept : j >= i}
           rank == [i \in kept |-> Rank(options, i)]
<1>1. kept \subseteq 1 .. n /\ IsFiniteSet(kept) /\ Cardinality(kept) \in Nat
  <2>1. kept \subseteq 1 .. n /\ IsFiniteSet(1 .. n)
    BY FS_Interval DEF Kept
  <2>2. QED
    BY <2>1, FS_Subset, FS_CardinalityType
<1> HIDE DEF kept
<1>2. \A i : From(i) \subseteq kept
  OBVIOUS
<1>3. \A i : /\ IsFiniteSet(From(i)) /\ Cardinality(From(i)) \in Nat
             /\ Cardinality(From(i)) <= Cardinality(kept)
  BY <1>1, <1>2, FS_Subset, FS_CardinalityType
<1>4. \A i : Rank(options, i) = Cardinality(From(i))
  BY DEF Rank, kept
<1>5. ASSUME NEW i \in kept
      PROVE  Rank(options, i) \in 1 .. Cardinality(kept)
  <2>1. i \in From(i)
    BY <1>1
  <2>2. Cardinality(From(i)) # 0
    BY <1>3, <2>1, FS_EmptySet
  <2>3. QED
    BY <1>1, <1>3, <1>4, <2>2
<1>6. ASSUME NEW i \in kept, NEW j \in kept, i < j
      PROVE  Rank(options, j) < Rank(options, i)
  <2>1. i \in From(i) /\ i \notin From(j) /\ From(j) \subseteq From(i)
    <3>1. \A l \in kept : l \in Int
      BY <1>1
    <3>2. QED
      BY <1>6, <3>1
  <2>2. From(j) # From(i)
    BY <2>1
  <2>3. Cardinality(From(j)) < Cardinality(From(i))
    <3> HIDE DEF From
    <3>1. QED
      BY <1>3, <2>1, <2>2, FS_Subset
  <2>4. QED
    BY <1>4, <2>3
<1>7. rank \in Injection(kept, 1 .. Cardinality(kept))
  <2>1. rank \in [kept -> 1 .. Cardinality(kept)]
    BY <1>5
  <2>2. ASSUME NEW i \in kept, NEW j \in kept, rank[i] = rank[j]
        PROVE  i = j
    <3>1. Rank(options, i) = Rank(options, j) /\ Rank(options, i) \in Int
      BY <1>5, <2>2
    <3>2. ~(i < j) /\ ~(j < i) /\ i \in Int /\ j \in Int
      BY <1>1, <1>6, <3>1
    <3>3. QED
      BY <3>2
  <2>3. QED
    BY <2>1, <2>2 DEF Injection, IsInjective
<1>8. rank \in Surjection(kept, 1 .. Cardinality(kept))
  <2>1. /\ IsFiniteSet(1 .. Cardinality(kept))
        /\ Cardinality(1 .. Cardinality(kept)) = Cardinality(kept)
    BY <1>1, FS_Interval
  <2>2. QED
    BY <1>7, <2>1, FS_Injection
<1>9. \A m \in 1 .. Cardinality(kept) : \E i \in kept : Rank(options, i) = m
  BY <1>8 DEF Surjection
<1>10. QED
  BY <1>1, <1>5, <1>6, <1>9 DEF kept

\* getOptimalSortedList returns exactly what it keeps, the most output first.
LEMMA ParetoIsTheKept ==
    ASSUME NEW options, NEW n \in Nat, DOMAIN options = 1 .. n,
           \A i \in 1 .. n : out(options[i]) \in Nat
    PROVE  LET P == paretoOpts(options)
               kept == Kept(options)
           IN  /\ Cardinality(kept) \in Nat /\ DOMAIN P = 1 .. Cardinality(kept)
               /\ P = [m \in 1 .. Cardinality(kept) |-> P[m]]
               /\ \A m \in DOMAIN P : \E i \in kept : P[m] = options[i]
               /\ \A i \in kept : \E m \in DOMAIN P : P[m] = options[i]
               /\ \A l, m \in DOMAIN P : l < m => out(P[l]) > out(P[m])
<1> DEFINE P == paretoOpts(options)
           kept == Kept(options)
           at(m) == CHOOSE i \in kept : Rank(options, i) = m
<1>1. P = [m \in 1 .. Cardinality(kept) |-> options[at(m)]]
  BY DEF paretoOpts, Kept, Rank
<1>2. /\ Cardinality(kept) \in Nat
      /\ \A i \in kept : Rank(options, i) \in 1 .. Cardinality(kept)
      /\ \A i, j \in kept : i < j => Rank(options, j) < Rank(options, i)
      /\ \A m \in 1 .. Cardinality(kept) : \E i \in kept : Rank(options, i) = m
  BY RanksNumberTheKept
<1>3. \A i \in kept : i \in 1 .. n
  BY DEF Kept
<1> HIDE DEF kept, P
<1>4. \A m \in 1 .. Cardinality(kept) : at(m) \in kept /\ Rank(options, at(m)) = m
  BY <1>2
<1>5. ASSUME NEW i \in kept
      PROVE  at(Rank(options, i)) = i
  <2>1. /\ at(Rank(options, i)) \in kept
        /\ Rank(options, at(Rank(options, i))) = Rank(options, i)
    BY <1>2, <1>4
  <2>2. \A j \in kept : Rank(options, j) = Rank(options, i) => j = i
    <3>1. TAKE j \in kept
    <3>2. Rank(options, i) \in Int /\ i \in Int /\ j \in Int
      BY <1>2, <1>3
    <3>3. QED
      BY <1>2, <3>2
  <2>3. QED
    BY <2>1, <2>2
<1>6. ASSUME NEW l \in DOMAIN P, NEW m \in DOMAIN P, l < m
      PROVE  out(P[l]) > out(P[m])
  <2>1. l \in 1 .. Cardinality(kept) /\ m \in 1 .. Cardinality(kept)
    BY <1>1
  <2>2. /\ at(l) \in kept /\ at(m) \in kept
        /\ Rank(options, at(l)) = l /\ Rank(options, at(m)) = m
    BY <1>4, <2>1
  <2>3. at(m) < at(l)
    <3>1. at(l) \in Int /\ at(m) \in Int
      BY <1>3, <2>2
    <3>2. ~(at(l) < at(m)) /\ at(l) # at(m)
      BY <1>2, <1>6, <2>1, <2>2
    <3>3. QED
      BY <3>1, <3>2
  <2>4. out(options[at(m)]) < out(options[at(l)])
    <3>1. \A j \in 1 .. at(l) - 1 : out(options[j]) < out(options[at(l)])
      BY <2>2 DEF kept, Kept
    <3>2. at(m) \in 1 .. at(l) - 1
      BY <1>3, <2>2, <2>3
    <3>3. QED
      BY <3>1, <3>2
  <2>5. out(options[at(m)]) \in Int /\ out(options[at(l)]) \in Int
    BY <1>3, <2>2
  <2>6. out(options[at(l)]) > out(options[at(m)])
    BY <2>4, <2>5
  <2>7. P[l] = options[at(l)] /\ P[m] = options[at(m)]
    BY <1>1, <2>1
  <2>8. QED
    BY <2>6, <2>7
<1>7. \A m \in DOMAIN P : \E i \in kept : P[m] = options[i]
  BY <1>1, <1>4
<1>8. \A i \in kept : \E m \in DOMAIN P : P[m] = options[i]
  BY <1>1, <1>2, <1>5
<1>9. DOMAIN P = 1 .. Cardinality(kept) /\ P = [m \in 1 .. Cardinality(kept) |-> P[m]]
  BY <1>1
<1>10. QED
  BY <1>2, <1>6, <1>7, <1>8, <1>9 DEF kept, P

\* Of two orders the one that gives no less and asks for no more in all has no
\* worse a ratio.
LEMMA NoWorseRatio ==
    ASSUME NEW a \in Nat, NEW b \in Nat, NEW x \in Nat, NEW y \in Nat,
           0 < y, y <= x, a * x <= b * y
    PROVE  a <= b
<1>1. SUFFICES ASSUME b + 1 <= a
               PROVE  FALSE
  OBVIOUS
<1>2. a * y <= a * x
  OBVIOUS
<1>3. (b + 1) * y <= a * y
  BY <1>1
<1>4. (b + 1) * y = b * y + y
  OBVIOUS
<1>5. a * x \in Int /\ b * y \in Int /\ a * y \in Int
  OBVIOUS
<1>6. QED
  BY <1>2, <1>3, <1>4, <1>5
\* What getOptimalSortedList returns of a sorted list serves every size.
LEMMA ParetoServes ==
    ASSUME NEW S, IsFiniteSet(S), NEW options \in [1 .. Cardinality(S) -> S],
           \A i, j \in DOMAIN options :
              i < j => options[i] # options[j] /\ ~lessInput(options[j], options[i]),
           \A c \in S : out(c) \in Nat /\ ratio(c) \in Nat
    PROVE  LET P == paretoOpts(options)
           IN  /\ \A c \in S : out(c) > 0 =>
                    \E m \in DOMAIN P : out(P[m]) >= out(c) /\ ratio(P[m]) <= ratio(c)
               /\ \A l, m \in DOMAIN P :
                    P[l] # P[m] => (out(P[l]) > out(P[m]) <=> givenAway(P[l]) > givenAway(P[m]))
               /\ \A l, m \in DOMAIN P : l < m => out(P[l]) > out(P[m])
               /\ \A m \in DOMAIN P : P[m] \in S
               /\ DOMAIN P = 1 .. Cardinality(Kept(options))
               /\ Cardinality(Kept(options)) \in Nat
               /\ P = [m \in DOMAIN P |-> P[m]]
<1> DEFINE P == paretoOpts(options)
           kept == Kept(options)
           n == Cardinality(S)
<1>1. n \in Nat /\ DOMAIN options = 1 .. n
      /\ \A i \in 1 .. n : options[i] \in S /\ out(options[i]) \in Nat
  BY FS_CardinalityType
<1>2. /\ Cardinality(kept) \in Nat /\ DOMAIN P = 1 .. Cardinality(kept)
      /\ P = [m \in 1 .. Cardinality(kept) |-> P[m]]
      /\ \A m \in DOMAIN P : \E i \in kept : P[m] = options[i]
      /\ \A i \in kept : \E m \in DOMAIN P : P[m] = options[i]
      /\ \A l, m \in DOMAIN P : l < m => out(P[l]) > out(P[m])
  <2> HIDE DEF P, kept, n
  <2>1. QED
    BY <1>1, ParetoIsTheKept DEF P, kept
<1>3. \A i \in kept : /\ i \in 1 .. n /\ out(options[i]) > 0
                      /\ \A j \in 1 .. i - 1 : out(options[j]) < out(options[i])
  BY <1>1 DEF Kept
<1> HIDE DEF P, kept
<1>4. \A c \in S : givenAway(c) \in Nat /\ givenAway(c) = ratio(c) * out(c)
  BY DEF givenAway
<1>5. ASSUME NEW c \in S, out(c) > 0
      PROVE  \E m \in DOMAIN P : out(P[m]) >= out(c) /\ ratio(P[m]) <= ratio(c)
  <2>1. PICK h \in 1 .. n : options[h] = c
    <3>1. \A j, k \in DOMAIN options : j < k => options[j] # options[k]
      OBVIOUS
    <3>2. \A x \in S : \E j \in DOMAIN options : options[j] = x
      BY <3>1, SortingIsOnto
    <3>3. QED
      BY <1>1, <3>2
  <2> DEFINE Fills == {i \in 1 .. n : out(options[i]) >= out(c)}
  <2>2. Fills \subseteq Nat /\ h \in Fills
    BY <1>1, <2>1
  <2>3. PICK i \in Fills : \A j \in Fills : ~(<<j, i>> \in OpToRel(<, Nat))
    <3> HIDE DEF Fills
    <3>1. QED
      BY <2>2, NatLessThanWellFounded, WFMin
  <2>4. \A j \in Fills : ~(j < i)
    BY <2>2, <2>3 DEF OpToRel
  <2>5. i \in 1 .. n /\ out(options[i]) >= out(c) /\ i <= h
    BY <2>1, <2>2, <2>4
  <2>6. i \in kept
    <3>1. ASSUME NEW j \in 1 .. i - 1
          PROVE  out(options[j]) < out(options[i])
      <4>1. j \in 1 .. n /\ j < i
        BY <1>1, <2>5
      <4>2. ~(out(options[j]) >= out(c))
        BY <2>4, <4>1
      <4>3. QED
        BY <1>1, <2>5, <4>1, <4>2
    <3>2. out(options[i]) > 0
      BY <1>1, <1>5, <2>5
    <3>3. QED
      BY <1>1, <2>5, <3>1, <3>2 DEF kept, Kept
  <2>7. ratio(options[i]) <= ratio(c)
    <3>1. CASE i = h
      BY <2>1, <3>1
    <3>2. CASE i < h
      <4>1. ~lessInput(c, options[i])
        BY <1>1, <2>1, <2>5, <3>2
      <4>2. givenAway(options[i]) <= givenAway(c)
        BY <1>1, <1>4, <4>1, <2>5 DEF lessInput
      <4>3. QED
        <5>1. /\ ratio(options[i]) \in Nat /\ ratio(c) \in Nat
              /\ out(options[i]) \in Nat /\ out(c) \in Nat
              /\ 0 < out(c) /\ out(c) <= out(options[i])
          BY <1>1, <1>5, <2>5
        <5>2. ratio(options[i]) * out(options[i]) <= ratio(c) * out(c)
          BY <1>1, <1>4, <2>5, <4>2
        <5>3. QED
          BY <5>1, <5>2, NoWorseRatio
    <3>3. QED
      BY <2>5, <3>1, <3>2
  <2>8. QED
    BY <1>2, <2>5, <2>6, <2>7
<1>6. ASSUME NEW l \in DOMAIN P, NEW m \in DOMAIN P, P[l] # P[m]
      PROVE  out(P[l]) > out(P[m]) <=> givenAway(P[l]) > givenAway(P[m])
  <2>1. PICK i \in kept : P[l] = options[i]
    BY <1>2
  <2>2. PICK j \in kept : P[m] = options[j]
    BY <1>2
  <2>3. i \in 1 .. n /\ j \in 1 .. n /\ i # j
    BY <1>3, <1>6, <2>1, <2>2
  <2>4. ASSUME NEW a \in kept, NEW b \in kept, a < b
        PROVE  /\ out(options[a]) < out(options[b])
               /\ givenAway(options[a]) < givenAway(options[b])
    <3>1. a \in 1 .. n /\ b \in 1 .. n /\ a \in 1 .. b - 1
      BY <1>1, <1>3, <2>4
    <3>2. out(options[a]) < out(options[b])
      BY <1>3, <3>1
    <3>3. ~lessInput(options[b], options[a])
      BY <1>1, <2>4, <3>1
    <3>4. QED
      BY <1>1, <1>4, <3>1, <3>2, <3>3 DEF lessInput
  <2>5. /\ out(options[i]) \in Nat /\ out(options[j]) \in Nat
        /\ givenAway(options[i]) \in Nat /\ givenAway(options[j]) \in Nat
    BY <1>1, <1>4, <2>3
  <2>6. CASE i < j
    BY <2>1, <2>2, <2>4, <2>5, <2>6
  <2>7. CASE j < i
    BY <2>1, <2>2, <2>4, <2>5, <2>7
  <2>8. QED
    BY <1>1, <2>3, <2>6, <2>7
<1>7. \A m \in DOMAIN P : P[m] \in S
  BY <1>1, <1>2, <1>3
<1>8. QED
  BY <1>2, <1>5, <1>6, <1>7 DEF P, kept

\* The optimal counterparties serve every size, and what is simulated is among
\* them.
LEMMA EstimatingServes ==
    ASSUME PickInv, estimateOptimals
    PROVE  PickInv'
<1> DEFINE S == {c \in Candidates \ Own : HasQuote(c)}
<1>1. IsFiniteSet(S) /\ S \subseteq Candidates
  BY PickAssumption, FS_Subset
<1>2. \A c \in S : out(c) \in Nat /\ ratio(c) \in Nat
  BY PickAssumption DEF PickInv, PickTypeOK, HasQuote, Quotes, out, ratio
<1>3. /\ pickStage' = "done" /\ UNCHANGED <<pickInputs, quoteOf, list>>
  BY DEF estimateOptimals
<1>4. PICK options \in [1 .. Cardinality(S) -> S] :
        /\ \A i, j \in DOMAIN options :
              i < j => options[i] # options[j] /\ ~lessInput(options[j], options[i])
        /\ optimals' = paretoOpts(options)
  BY DEF estimateOptimals, sortings
<1>5. /\ \A c \in S : out(c) > 0 =>
           \E m \in DOMAIN optimals' :
             out(optimals'[m]) >= out(c) /\ ratio(optimals'[m]) <= ratio(c)
      /\ \A l, m \in DOMAIN optimals' :
           optimals'[l] # optimals'[m] =>
             (out(optimals'[l]) > out(optimals'[m])
                <=> givenAway(optimals'[l]) > givenAway(optimals'[m]))
      /\ \A l, m \in DOMAIN optimals' : l < m => out(optimals'[l]) > out(optimals'[m])
      /\ \A m \in DOMAIN optimals' : optimals'[m] \in S
      /\ DOMAIN optimals' = 1 .. Cardinality(Kept(options))
      /\ Cardinality(Kept(options)) \in Nat
      /\ optimals' = [m \in DOMAIN optimals' |-> optimals'[m]]
  <2> HIDE DEF S
  <2>1. QED
    BY <1>1, <1>2, <1>4, ParetoServes
<1>6. optimals' \in Seq(Candidates)
  <2>1. optimals' \in [1 .. Cardinality(Kept(options)) -> Candidates]
    BY <1>1, <1>5
  <2>2. QED
    BY <1>5, <2>1
<1>7. simulated' \subseteq Picked'
  <2> DEFINE profitable == {c \in {optimals'[i] : i \in DOMAIN optimals'} : estimateProfit(c) > 0}
  <2>1. IsFiniteSet(profitable)
    BY <1>1, <1>5, PickAssumption, FS_Subset
  <2>2. PICK sorted \in [1 .. Cardinality(profitable) -> profitable] :
          simulated' = {sorted[i] : i \in 1 .. atMost(Simulated, Len(sorted))}
    BY DEF estimateOptimals, sortings
  <2>3. Len(sorted) = Cardinality(profitable) /\ Cardinality(profitable) \in Nat
    BY <2>1, <2>2, FS_CardinalityType
  <2>4. atMost(Simulated, Len(sorted)) <= Cardinality(profitable)
        /\ atMost(Simulated, Len(sorted)) \in Nat
    BY <2>3, PickAssumption DEF atMost
  <2>5. simulated' \subseteq profitable
    <3> HIDE DEF profitable
    <3>1. QED
      BY <2>2, <2>3, <2>4
  <2>6. QED
    BY <2>5 DEF Picked
<1>8. PickTypeOK'
  BY <1>3, <1>6, <1>7 DEF PickInv, PickTypeOK, pickInputs
<1>9. EverySizeServed'
  BY <1>3, <1>5 DEF EverySizeServed, Picked, HasQuote, out, ratio, givenAway
<1>10. QED
  BY <1>8, <1>9 DEF PickInv

\* The invariant holds initially and in every step.
LEMMA PickInvInductive ==
    /\ PickInit => PickInv
    /\ PickInv /\ [PickNext]_pickVars => PickInv'
<1>1. ASSUME PickInit
      PROVE  PickInv
  BY <1>1 DEF PickInit, PickInv, PickTypeOK, EverySizeServed, Picked
<1>2. ASSUME PickInv, [PickNext]_pickVars
      PROVE  PickInv'
  <2>1. CASE listCounterparties
    <3>1. PICK q \in [1 .. Cardinality(Candidates) -> Candidates] : list' = q
      BY <2>1 DEF listCounterparties, sortings
    <3>2. list' \in Seq(Candidates)
      BY <3>1, PickAssumption, FS_CardinalityType
    <3>3. QED
      BY <1>2, <2>1, <3>2 DEF listCounterparties, pickInputs, PickInv, PickTypeOK,
         EverySizeServed, Picked
  <2>2. CASE routeFound
    BY <1>2, <2>2 DEF routeFound, pickInputs, PickInv, PickTypeOK, EverySizeServed, Picked
  <2>3. CASE estimateOptimals
    BY <1>2, <2>3, EstimatingServes
  <2>4. ASSUME NEW c \in Candidates, requote(c)
        PROVE  PickInv'
    BY <1>2, <2>4 DEF requote, pickInputs, PickInv, PickTypeOK, EverySizeServed, Picked
  <2>5. CASE UNCHANGED pickVars
    BY <1>2, <2>5 DEF pickVars, PickInv, PickTypeOK, EverySizeServed, Picked, HasQuote,
       out, ratio, givenAway
  <2>6. QED
    BY <1>2, <2>1, <2>2, <2>3, <2>4, <2>5 DEF PickNext
<1>3. QED
  BY <1>1, <1>2

\* Whatever the quotes are, the list of optimal counterparties has one for
\* every size of a trade at no worse a ratio than any that can fill it, and is
\* sorted (getOptimalSortedList).
THEOREM OptimalsServeEverySize == PickSpec => []EverySizeServed
<1>1. PickInv => EverySizeServed
  BY DEF PickInv
<1>2. QED
  BY <1>1, PickInvInductive, PTL DEF PickSpec
-----------------------------------------------------------------------------
(***************************************************************************)
(* The two side by side.                                                   *)
(***************************************************************************)

\* A behaviour of the two is one of each.
LEMMA SideBySide == MCSpec => Spec /\ PickSpec
<1>1. MCInit => Init /\ PickInit
  BY DEF MCInit
<1>2. [MCNext]_mcVars => [Next]_vars /\ [PickNext]_pickVars
  BY DEF MCNext, mcVars, runBook, runPick
<1>3. QED
  BY <1>1, <1>2, PTL DEF MCSpec, Spec, PickSpec

\* Each variable keeps to its type, whatever the parameters are.
THEOREM BookTypesCorrect == MCSpec => []TypesOK
<1>1. BookInv => TypeOK
  BY DEF BookInv
<1>2. Spec => []TypeOK
  BY <1>1, BookInvInductive, PTL DEF Spec
<1>3. PickInv => PickTypeOK
  BY DEF PickInv
<1>4. PickSpec => []PickTypeOK
  BY <1>3, PickInvInductive, PTL DEF PickSpec
<1>5. TypeOK /\ PickTypeOK => TypesOK
  BY DEF TypesOK
<1>6. QED
  BY <1>2, <1>4, <1>5, SideBySide, PTL
=============================================================================
