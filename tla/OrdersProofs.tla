----------------------------- MODULE OrdersProofs -----------------------------
(***************************************************************************)
(* Theorems about the OrderManager: about OwnerLimits, for any owners,     *)
(* tokens, vaults and balances, about OwnerCursor, for any number of pairs *)
(* and any limit, and about the two and SubgraphSync side by side.         *)
(***************************************************************************)
EXTENDS MCOrders, SyncProofs, WellFoundedInduction
-----------------------------------------------------------------------------
(***************************************************************************)
(* OwnerLimits.                                                            *)
(***************************************************************************)

\* What holds of 0 and is handed on holds of every number.
LEMMA CountsUp ==
    ASSUME NEW S, 0 \in S, \A n \in Nat : n \in S => n + 1 \in S
    PROVE  Nat \subseteq S
<1> SUFFICES ASSUME Nat \ S # {} PROVE FALSE
  OBVIOUS
<1>1. PICK n \in Nat \ S : \A m \in Nat \ S : ~ (<<m, n>> \in OpToRel(<, Nat))
  BY NatLessThanWellFounded, WFMin
<1>2. n # 0 /\ n - 1 \in Nat /\ n - 1 + 1 = n
  OBVIOUS
<1>3. n - 1 \notin S
  BY <1>2
<1>4. <<n - 1, n>> \in OpToRel(<, Nat)
  BY <1>2 DEF OpToRel
<1>5. QED
  BY <1>1, <1>2, <1>3, <1>4

\* The sum over a set, one element taken away; g is the sum over its subsets.
OneOf(s) == CHOOSE x \in s : TRUE
SumOf(f, g, s) == IF s = {} THEN 0 ELSE f[OneOf(s)] + g[s \ {OneOf(s)}]
Sums(f, g, D) == g = [s \in D |-> SumOf(f, g, s)]

\* The subsets with n elements at most.
Small(D, n) == {s \in SUBSET D : Cardinality(s) <= n}

LEMMA OneLess ==
    ASSUME NEW D, IsFiniteSet(D), NEW s \in SUBSET D, s # {}
    PROVE  /\ OneOf(s) \in s /\ s \ {OneOf(s)} \in SUBSET D
           /\ Cardinality(s) \in Nat
           /\ Cardinality(s \ {OneOf(s)}) = Cardinality(s) - 1
<1>1. OneOf(s) \in s
  BY DEF OneOf
<1>2. IsFiniteSet(s)
  BY FS_Subset
<1>3. QED
  BY <1>1, <1>2, FS_CardinalityType, FS_RemoveElement

LEMMA OnlyEmptyHasNone ==
    ASSUME NEW D, IsFiniteSet(D), NEW s \in SUBSET D
    PROVE  Cardinality(s) = 0 <=> s = {}
BY FS_Subset, FS_EmptySet

LEMMA SumsExist ==
    ASSUME NEW D, IsFiniteSet(D), NEW f
    PROVE  \E g : Sums(f, g, SUBSET D)
<1> DEFINE Good == {n \in Nat : \E g : Sums(f, g, Small(D, n))}
<1>1. 0 \in Good
  <2> DEFINE g == [s \in Small(D, 0) |-> 0]
  <2>1. \A s \in Small(D, 0) : s = {}
    BY FS_Subset, FS_EmptySet, FS_CardinalityType DEF Small
  <2>2. Sums(f, g, Small(D, 0))
    BY <2>1 DEF Sums, SumOf
  <2>3. QED
    BY <2>2
<1>2. ASSUME NEW n \in Nat, n \in Good PROVE n + 1 \in Good
  <2>1. PICK g : Sums(f, g, Small(D, n))
    BY <1>2
  <2> DEFINE h == [s \in Small(D, n + 1) |-> SumOf(f, g, s)]
  <2>2. \A s \in Small(D, n + 1) : SumOf(f, g, s) = SumOf(f, h, s)
    <3> SUFFICES ASSUME NEW s \in Small(D, n + 1), s # {}
                 PROVE  SumOf(f, g, s) = SumOf(f, h, s)
      BY DEF SumOf
    <3> DEFINE r == s \ {OneOf(s)}
    <3>1. r \in Small(D, n) /\ r \in Small(D, n + 1)
      BY OneLess DEF Small
    <3>2. g[r] = SumOf(f, g, r)
      BY <2>1, <3>1 DEF Sums
    <3>3. h[r] = SumOf(f, g, r)
      BY <3>1
    <3>4. QED
      BY <3>2, <3>3 DEF SumOf
  <2>3. Sums(f, h, Small(D, n + 1))
    BY <2>2 DEF Sums
  <2>4. QED
    BY <2>3
<1>3. Cardinality(D) \in Good
  <2> HIDE DEF Good
  <2>1. Nat \subseteq Good
    BY <1>1, <1>2, CountsUp
  <2>2. QED
    BY <2>1, FS_CardinalityType
<1>4. Small(D, Cardinality(D)) = SUBSET D
  BY FS_Subset DEF Small
<1>5. QED
  BY <1>3, <1>4

\* Total takes one element after the other.
LEMMA TotalIsSum ==
    ASSUME NEW f, IsFiniteSet(DOMAIN f)
    PROVE  \E g : Sums(f, g, SUBSET DOMAIN f) /\ Total(f) = g[DOMAIN f]
<1> DEFINE D == DOMAIN f
           Iterates(g) == g = [s \in SUBSET D |->
             IF s = {} THEN 0 ELSE LET x == CHOOSE x \in s : TRUE IN f[x] + g[s \ {x}]]
           iter == CHOOSE g : Iterates(g)
<1>1. Total(f) = iter[D]
  BY DEF Total, MapThenSumSet, MapThenFoldSet
<1>2. \A g : Sums(f, g, SUBSET D) <=> Iterates(g)
  BY DEF Sums, SumOf, OneOf
<1> HIDE DEF Iterates
<1>3. \E g : Iterates(g)
  BY <1>2, SumsExist
<1>4. Iterates(iter)
  BY <1>3
<1>5. QED
  BY <1>1, <1>2, <1>4

\* The sum of natural numbers is one; that of n numbers from 1 to 4 is not
\* less than n and not more than 4 n.
LEMMA SumBounds ==
    ASSUME NEW D, IsFiniteSet(D), NEW f, \A x \in D : f[x] \in Nat,
           NEW g, Sums(f, g, SUBSET D)
    PROVE  /\ g[D] \in Nat
           /\ (\A x \in D : 1 <= f[x]) => Cardinality(D) <= g[D]
           /\ (\A x \in D : f[x] <= 4) => g[D] <= 4 * Cardinality(D)
<1> DEFINE Bounded(s) ==
             /\ g[s] \in Nat
             /\ (\A x \in D : 1 <= f[x]) => Cardinality(s) <= g[s]
             /\ (\A x \in D : f[x] <= 4) => g[s] <= 4 * Cardinality(s)
           Good == {n \in Nat : \A s \in SUBSET D : Cardinality(s) = n => Bounded(s)}
<1>1. \A s \in SUBSET D : g[s] = SumOf(f, g, s)
  BY DEF Sums
<1>2. 0 \in Good
  <2> SUFFICES ASSUME NEW s \in SUBSET D, Cardinality(s) = 0 PROVE Bounded(s)
    OBVIOUS
  <2>1. g[s] = 0
    BY <1>1, OnlyEmptyHasNone DEF SumOf
  <2>2. QED
    BY <2>1
<1>3. ASSUME NEW n \in Nat, n \in Good PROVE n + 1 \in Good
  <2> SUFFICES ASSUME NEW s \in SUBSET D, Cardinality(s) = n + 1 PROVE Bounded(s)
    OBVIOUS
  <2> DEFINE r == s \ {OneOf(s)}
  <2>1. s # {}
    BY OnlyEmptyHasNone
  <2>2. OneOf(s) \in D /\ r \in SUBSET D /\ Cardinality(r) = n
    BY <2>1, OneLess
  <2>3. Bounded(r)
    BY <1>3, <2>2
  <2>4. g[s] = f[OneOf(s)] + g[r]
    BY <1>1, <2>1 DEF SumOf
  <2> HIDE DEF r
  <2>5. QED
    BY <2>2, <2>3, <2>4
<1>4. Nat \subseteq Good
  <2> HIDE DEF Good
  <2>1. QED
    BY <1>2, <1>3, CountsUp
<1>5. QED
  BY <1>4, FS_CardinalityType

LEMMA TotalBounds ==
    ASSUME NEW f, IsFiniteSet(DOMAIN f), \A x \in DOMAIN f : f[x] \in Nat
    PROVE  /\ Total(f) \in Nat
           /\ (\A x \in DOMAIN f : 1 <= f[x]) => Cardinality(DOMAIN f) <= Total(f)
           /\ (\A x \in DOMAIN f : f[x] <= 4) => Total(f) <= 4 * Cardinality(DOMAIN f)
BY TotalIsSum, SumBounds
-----------------------------------------------------------------------------
LEMMA QuotientSign ==
    ASSUME NEW a \in Int, NEW b \in Int, b # 0
    PROVE  Quotient(a, b) \in Int /\ (a >= 0 /\ b > 0 => Quotient(a, b) \in Nat)
<1>1. \A x \in Nat, y \in Nat \ {0} : x \div y \in Nat
  OBVIOUS
<1>2. Absolute(a) \in Nat /\ Absolute(b) \in Nat \ {0}
  BY DEF Absolute
<1>3. QED
  BY <1>1, <1>2 DEF Quotient

\* A share that is not negative costs a factor of 4 at most, any share one of
\* 1 at least.
LEMMA FactorRange ==
    ASSUME NEW ratio \in Int
    PROVE  /\ ownerLimitDivideFactor(ratio) \in Nat \ {0}
           /\ ratio >= 0 => ownerLimitDivideFactor(ratio) <= 4
<1> DEFINE q == Quotient(ratio, 25)
           least == Min({q, 3})
<1>1. q \in Int /\ (ratio >= 0 => q >= 0)
  BY QuotientSign
<1> HIDE DEF q
<1>2. least = IF q <= 3 THEN q ELSE 3
  BY <1>1 DEF Min
<1> HIDE DEF least
<1>3. ownerLimitDivideFactor(ratio) = Absolute(least - 4)
  BY DEF ownerLimitDivideFactor, least, q
<1>4. QED
  BY <1>1, <1>2, <1>3 DEF Absolute

\* The limit divided by the mean of n factors.
LEMMA DownscaledRange ==
    ASSUME NEW l \in Nat \ {0}, NEW n \in Nat \ {0}, NEW sum \in Nat, n <= sum
    PROVE  /\ Downscaled(l, sum, n) \in 1 .. l
           /\ sum <= 4 * n => 4 * Downscaled(l, sum, n) + 2 >= l
<1> DEFINE a == 2 * l * n + sum
           b == 2 * sum
           q == a \div b
<1>1. a \in Nat /\ b \in Nat \ {0}
  OBVIOUS
<1>2. q \in Nat /\ b * q <= a /\ a < b * (q + 1)
  <2> HIDE DEF a, b
  <2>1. QED
    BY <1>1
<1>3. Downscaled(l, sum, n) = IF q >= 1 THEN q ELSE 1
  <2>1. \A x \in Nat : Max({x, 1}) = IF x >= 1 THEN x ELSE 1
    BY DEF Max
  <2>2. Downscaled(l, sum, n) = Max({q, 1})
    BY DEF Downscaled
  <2> HIDE DEF q
  <2>3. QED
    BY <1>2, <2>1, <2>2
<1>4. q <= l
  <2> HIDE DEF q
  <2> SUFFICES ASSUME q >= l + 1 PROVE FALSE
    BY <1>2
  <2>1. b * q >= b * (l + 1)
    BY <1>2
  <2>2. l * n <= l * sum
    OBVIOUS
  <2>3. b * (l + 1) = 2 * (l * sum) + 2 * sum /\ a = 2 * (l * n) + sum
    OBVIOUS
  <2>4. QED
    BY <1>1, <1>2, <2>1, <2>2, <2>3
<1>5. sum <= 4 * n => 4 * q + 2 >= l
  <2> HIDE DEF q
  <2> SUFFICES ASSUME sum <= 4 * n, 4 * q + 2 < l PROVE FALSE
    BY <1>2
  <2>1. l * sum <= 4 * (l * n)
    OBVIOUS
  <2>2. (4 * q + 2) * sum <= l * sum
    BY <1>2
  <2>3. (4 * q + 2) * sum = 4 * (sum * q) + 2 * sum
    BY <1>2
  <2>4. 2 * (l * n) + sum < 2 * (sum * q) + 2 * sum
    BY <1>2
  <2>5. l * sum \in Nat /\ l * n \in Nat /\ sum * q \in Nat
    BY <1>2
  <2>6. 4 * (sum * q) + 2 * sum <= 4 * (l * n)
    BY <2>1, <2>2, <2>3, <2>5
  <2>7. QED
    BY <2>4, <2>5, <2>6
<1>6. QED
  BY <1>2, <1>3, <1>4, <1>5
-----------------------------------------------------------------------------
\* What an owner holds.
LEMMA BalanceTypes ==
    ASSUME LimitsTypeOK, NEW o \in Owners, NEW t \in Tokens
    PROVE  ownerTotalBalance(o, t) \in Nat /\ avgBalance(o, t) \in Nat
<1>1. /\ vaults[o][t] \in [Vaults -> Balances]
      /\ IsFiniteSet(DOMAIN vaults[o][t])
      /\ \A v \in DOMAIN vaults[o][t] : vaults[o][t][v] \in Nat
  BY OwnerLimitsAssumption DEF LimitsTypeOK, Balances
<1>2. ownerTotalBalance(o, t) \in Nat
  BY <1>1, TotalBounds DEF ownerTotalBalance
<1>3. Cardinality(Vaults) \in Nat \ {0}
  BY OwnerLimitsAssumption, FS_CardinalityType, FS_EmptySet
<1>4. \A a \in Nat, b \in Nat \ {0} : a \div b \in Nat
  OBVIOUS
<1>5. QED
  BY <1>2, <1>3, <1>4 DEF avgBalance

\* The factors of an owner; none is above 4 if the balances fit.
LEMMA CutsRange ==
    ASSUME LimitsTypeOK, NEW o \in Owners,
           NEW balance \in [Tokens -> OrderbookBalances \union {Unread}],
           NEW t \in DOMAIN cuts(o, balance)
    PROVE  /\ cuts(o, balance)[t] \in Nat \ {0}
           /\ balance[t] >= ownerTotalBalance(o, t) => cuts(o, balance)[t] <= 4
<1> DEFINE others == balance[t] - ownerTotalBalance(o, t)
           avg == avgBalance(o, t)
           ratio == balanceRatioPercent(avg, others)
<1>1. t \in Tokens /\ balance[t] \in OrderbookBalances
  BY DEF cuts
<1>2. balance[t] \in Int
  BY <1>1 DEF OrderbookBalances
<1>3. ownerTotalBalance(o, t) \in Nat /\ avg \in Nat
  BY <1>1, BalanceTypes
<1>4. others \in Int /\ (balance[t] >= ownerTotalBalance(o, t) => others >= 0)
  BY <1>2, <1>3
<1>5. ratio \in Int /\ (others >= 0 => ratio >= 0)
  <2> HIDE DEF others, avg
  <2>1. avg * 100 \in Int /\ avg * 100 >= 0
    BY <1>3
  <2>2. others # 0 => /\ Quotient(avg * 100, others) \in Int
                      /\ others > 0 => Quotient(avg * 100, others) \in Nat
    BY <1>4, <2>1, QuotientSign
  <2>3. QED
    BY <1>4, <2>2 DEF balanceRatioPercent
<1>6. cuts(o, balance)[t] = ownerLimitDivideFactor(ratio)
  BY <1>1 DEF cuts
<1> HIDE DEF ratio
<1>7. QED
  BY <1>4, <1>5, <1>6, FactorRange

\* The limit that an evaluation leaves.
LEMMA NewLimitRange ==
    ASSUME LimitsTypeOK, NEW o \in Owners,
           NEW balance \in [Tokens -> OrderbookBalances \union {Unread}]
    PROVE  /\ newLimit(o, balance) \in 1 .. DEFAULT_OWNER_LIMIT
           /\ (\A t \in Tokens : balance[t] # Unread => balance[t] >= ownerTotalBalance(o, t))
                => 4 * newLimit(o, balance) + 2 >= DEFAULT_OWNER_LIMIT
<1> DEFINE cut == cuts(o, balance)
           D == DOMAIN cut
<1>1. D \subseteq Tokens /\ IsFiniteSet(D) /\ \A t \in D : balance[t] # Unread
  <2>1. D \subseteq Tokens /\ \A t \in D : balance[t] # Unread
    BY DEF cuts
  <2>2. QED
    BY <2>1, OwnerLimitsAssumption, FS_Subset
<1>2. \A t \in D : /\ cut[t] \in Nat \ {0}
                   /\ balance[t] >= ownerTotalBalance(o, t) => cut[t] <= 4
  BY CutsRange
<1> HIDE DEF cut
<1>3. CASE D = {}
  BY <1>3, OwnerLimitsAssumption DEF newLimit, resetLimit, cut
<1>4. CASE D # {}
  <2>1. Cardinality(D) \in Nat \ {0}
    BY <1>1, <1>4, FS_CardinalityType, FS_EmptySet
  <2>2. Total(cut) \in Nat /\ Cardinality(D) <= Total(cut)
    BY <1>1, <1>2, TotalBounds
  <2>3. (\A t \in D : cut[t] <= 4) => Total(cut) <= 4 * Cardinality(D)
    BY <1>1, <1>2, TotalBounds
  <2>4. newLimit(o, balance) = Downscaled(DEFAULT_OWNER_LIMIT, Total(cut), Cardinality(D))
    BY <1>4 DEF newLimit, resetLimit, cut
  <2>5. /\ newLimit(o, balance) \in 1 .. DEFAULT_OWNER_LIMIT
        /\ Total(cut) <= 4 * Cardinality(D) => 4 * newLimit(o, balance) + 2 >= DEFAULT_OWNER_LIMIT
    BY <2>1, <2>2, <2>4, DownscaledRange, OwnerLimitsAssumption
  <2>6. (\A t \in Tokens : balance[t] # Unread => balance[t] >= ownerTotalBalance(o, t))
          => \A t \in D : cut[t] <= 4
    BY <1>1, <1>2
  <2>7. QED
    BY <2>3, <2>5, <2>6
<1>5. QED
  BY <1>3, <1>4

LimitsInv == LimitsTypeOK /\ QuarterKept

LEMMA LimitsInvInductive ==
    /\ LimitsInit => LimitsInv
    /\ LimitsInv /\ [LimitsNext]_limitVars => LimitsInv'
<1>1. LimitsInit => LimitsInv
  BY OwnerLimitsAssumption
  DEF LimitsInit, LimitsInv, LimitsTypeOK, QuarterKept, Balances
<1>2. ASSUME LimitsInv, [LimitsNext]_limitVars PROVE LimitsInv'
  <2>1. ASSUME NEW balance \in [Tokens -> OrderbookBalances \union {Unread}],
               downscaleProtection(balance)
        PROVE  LimitsInv'
    <3> DEFINE fits(o) == \A t \in Tokens :
                 balance[t] # Unread => balance[t] >= ownerTotalBalance(o, t)
    <3>1. \A o \in Owners : /\ newLimit(o, balance) \in 1 .. DEFAULT_OWNER_LIMIT
                            /\ fits(o) => 4 * newLimit(o, balance) + 2 >= DEFAULT_OWNER_LIMIT
      BY <1>2, NewLimitRange DEF LimitsInv
    <3>2. \A o \in Owners \ behind' : fits(o)
      <4> SUFFICES ASSUME NEW o \in Owners \ behind', NEW t \in Tokens,
                          balance[t] # Unread
                   PROVE  balance[t] >= ownerTotalBalance(o, t)
        OBVIOUS
      <4>1. ~ (balance[t] < ownerTotalBalance(o, t))
        BY <2>1 DEF downscaleProtection
      <4>2. balance[t] \in Int /\ ownerTotalBalance(o, t) \in Int
        BY <1>2, BalanceTypes DEF LimitsInv, OrderbookBalances
      <4>3. QED
        BY <4>1, <4>2
    <3> HIDE DEF fits
    <3>3. LimitsTypeOK'
      BY <1>2, <2>1, <3>1 DEF LimitsInv, LimitsTypeOK, downscaleProtection
    <3>4. QuarterKept'
      BY <2>1, <3>1, <3>2 DEF QuarterKept, downscaleProtection
    <3>5. QED
      BY <3>3, <3>4 DEF LimitsInv
  <2>2. ASSUME NEW o \in Owners, NEW t \in Tokens, NEW v \in Vaults,
               NEW balance \in Balances, updateVault(o, t, v, balance)
        PROVE  LimitsInv'
    BY <1>2, <2>2 DEF LimitsInv, LimitsTypeOK, QuarterKept, updateVault
  <2>3. CASE UNCHANGED limitVars
    BY <1>2, <2>3 DEF LimitsInv, LimitsTypeOK, QuarterKept, limitVars
  <2>4. QED
    BY <1>2, <2>1, <2>2, <2>3 DEF LimitsNext
<1>3. QED
  BY <1>1, <1>2

\* However often the limits are evaluated and whatever the vaults hold, an
\* owner keeps a quarter of the default limit, unless a balance on chain was
\* older than the vaults (downscaleProtection).
THEOREM OwnersKeepAQuarter == LimitsSpec => []QuarterKept
<1>1. LimitsInv => QuarterKept
  BY DEF LimitsInv
<1>2. QED
  BY <1>1, LimitsInvInductive, PTL DEF LimitsSpec
-----------------------------------------------------------------------------
(***************************************************************************)
(* The cursor of an owner's orders (OwnerCursor), for every limit and      *)
(* every number of pairs: the type invariant, that a round uses the        *)
(* owner's limit up and never exceeds it, and that no pair starves.        *)
(***************************************************************************)
USE DEF Positions, Least
USE MaxLimitAssumption, MaxTotalAssumption

\* How many pairs the first splice of a round takes.
LEMMA TakenValue ==
    ASSUME TypeOK
    PROVE  /\ IsFiniteSet(firstSplice(total))
           /\ Taken(total) = IF lastIndex < total
                             THEN Least(limit, total - lastIndex) ELSE 0
<1>1. firstSplice(total) = lastIndex + 1 .. Least(lastIndex + limit, total)
  BY DEF firstSplice, TypeOK
<1>2. /\ IsFiniteSet(lastIndex + 1 .. Least(lastIndex + limit, total))
      /\ Cardinality(lastIndex + 1 .. Least(lastIndex + limit, total))
           = IF lastIndex + 1 > Least(lastIndex + limit, total) THEN 0
             ELSE Least(lastIndex + limit, total) - (lastIndex + 1) + 1
  <2>1. lastIndex + 1 \in Int /\ Least(lastIndex + limit, total) \in Int
    BY DEF TypeOK
  <2> HIDE DEF Least
  <2>2. QED
    BY <2>1, FS_Interval
<1>3. QED
  BY <1>1, <1>2 DEF Taken, TypeOK

\* How many the second splice takes.
LEMMA TailValue ==
    ASSUME TypeOK, NEW r \in Nat
    PROVE  /\ IsFiniteSet(secondSplice(total, r))
           /\ Cardinality(secondSplice(total, r)) = Least(r, Least(lastIndex, total))
<1>1. secondSplice(total, r) = 1 .. Least(r, Least(lastIndex, total))
  BY DEF secondSplice, TypeOK
<1>2. /\ IsFiniteSet(1 .. Least(r, Least(lastIndex, total)))
      /\ Cardinality(1 .. Least(r, Least(lastIndex, total)))
           = IF 1 > Least(r, Least(lastIndex, total)) THEN 0
             ELSE Least(r, Least(lastIndex, total)) - 1 + 1
  <2>1. Least(r, Least(lastIndex, total)) \in Int
    BY DEF TypeOK
  <2> HIDE DEF Least
  <2>2. QED
    BY <2>1, FS_Interval
<1>3. QED
  BY <1>1, <1>2 DEF TypeOK

\* Where the cursor stands after a round.
LEMMA NextIndexValue ==
    ASSUME TypeOK
    PROVE  NextIndex =
             IF lastIndex + limit <= total /\ lastIndex < total
             THEN lastIndex + limit
             ELSE IF lastIndex < total
             THEN Least(limit - (total - lastIndex), lastIndex)
             ELSE Least(limit, total)
<1>1. Remaining(total) \in Nat
  BY TakenValue DEF Remaining, TypeOK
<1>2. Cardinality(secondSplice(total, Remaining(total)))
        = Least(Remaining(total), Least(lastIndex, total))
  BY <1>1, TailValue
<1>3. QED
  BY <1>2, TakenValue DEF NextIndex, Remaining, TypeOK

\* The cursor and the history always have the values their comments say.
THEOREM TypeCorrect == Spec => []TypeOK
<1>1. Init => TypeOK
  BY DEF Init, TypeOK
<1>2. TypeOK /\ [Next]_vars => TypeOK'
  <2> SUFFICES ASSUME TypeOK, [Next]_vars
               PROVE  TypeOK'
    OBVIOUS
  <2>1. CASE getNextRoundOrders
    <3>1. NextIndex \in 0 .. MaxTotal
      BY NextIndexValue DEF TypeOK
    <3>2. Consumed \subseteq Positions(total)
      BY DEF Consumed, firstSplice, secondSplice
    <3>3. QED
      BY <2>1, <3>1, <3>2 DEF getNextRoundOrders, TypeOK
  <2>2. ASSUME NEW pairs \in 1 .. MaxTotal, addOrder(pairs)
        PROVE  TypeOK'
    BY <2>2 DEF addOrder, TypeOK
  <2>3. ASSUME NEW pairs \in 1 .. MaxTotal, removeOrder(pairs)
        PROVE  TypeOK'
    BY <2>3 DEF removeOrder, TypeOK
  <2>4. ASSUME NEW l \in 1 .. MaxLimit, rescaleLimit(l)
        PROVE  TypeOK'
    BY <2>4 DEF rescaleLimit, TypeOK
  <2>5. CASE UNCHANGED vars
    BY <2>5 DEF vars, TypeOK
  <2>6. QED
    BY <2>1, <2>2, <2>3, <2>4, <2>5 DEF Next
<1>3. QED
  BY <1>1, <1>2, PTL DEF Spec

\* A round takes as many of the owner's pairs as the limit allows, or all of
\* them, and none twice.
THEOREM RoundUsesLimit == Spec => LimitUsedUp
<1>1. TypeOK /\ [Next]_vars
        => [getNextRoundOrders => Cardinality(picked') = Least(limit, total)]_vars
  <2> SUFFICES ASSUME TypeOK, getNextRoundOrders
               PROVE  Cardinality(picked') = Least(limit, total)
    OBVIOUS
  <2>1. picked' = Consumed
    BY DEF getNextRoundOrders
  <2>2. CASE Remaining(total) > 0
    <3> DEFINE r == Remaining(total)
    <3>1. r \in Nat /\ total <= lastIndex + limit
      BY <2>2, TakenValue DEF Remaining, TypeOK
    <3>2. /\ IsFiniteSet(secondSplice(total, r))
          /\ Cardinality(secondSplice(total, r)) = Least(r, Least(lastIndex, total))
      BY <3>1, TailValue
    <3>3. firstSplice(total) \intersect secondSplice(total, r) = {}
      BY DEF firstSplice, secondSplice, TypeOK
    <3>4. Cardinality(firstSplice(total) \union secondSplice(total, r))
            = Taken(total) + Cardinality(secondSplice(total, r))
      <4>1. Cardinality(firstSplice(total) \union secondSplice(total, r))
              = Cardinality(firstSplice(total)) + Cardinality(secondSplice(total, r))
                  - Cardinality({})
        BY <3>2, <3>3, TakenValue, FS_Union
      <4>2. /\ Cardinality(firstSplice(total)) \in Nat
            /\ Cardinality(secondSplice(total, r)) \in Nat
        BY <3>2, TakenValue, FS_CardinalityType
      <4>3. QED
        BY <4>1, <4>2, FS_EmptySet DEF Taken
    <3>5. Taken(total) + Cardinality(secondSplice(total, r)) = Least(limit, total)
      BY <3>2, TakenValue DEF Remaining, TypeOK
    <3>6. QED
      BY <2>1, <2>2, <3>4, <3>5 DEF Consumed
  <2>3. CASE ~(Remaining(total) > 0)
    <3>1. Taken(total) = Least(limit, total)
      BY <2>3, TakenValue DEF Remaining, TypeOK
    <3>2. QED
      BY <2>1, <2>3, <3>1 DEF Consumed, Taken
  <2>4. QED
    BY <2>2, <2>3
<1>2. QED
  BY <1>1, TypeCorrect, PTL DEF Spec, LimitUsedUp

\* A round brings every pair it leaves out nearer to its turn by the limit.
LEMMA RoundKeepsWaitInv ==
    ASSUME TypeOK, WaitInv, getNextRoundOrders
    PROVE  WaitInv'
<1> SUFFICES ASSUME NEW p \in Positions(total)
             PROVE  age'[p] * limit + Distance(p)' < total
  BY DEF WaitInv, getNextRoundOrders
<1>1. total' = total /\ limit' = limit /\ lastIndex' = NextIndex
  BY DEF getNextRoundOrders
<1>2. age'[p] = IF p \in Consumed THEN 0 ELSE age[p] + 1
  BY DEF getNextRoundOrders
<1>3. total \in Nat /\ lastIndex \in Nat /\ limit \in Nat \ {0} /\ p \in 1 .. total
  BY DEF TypeOK
<1>4. lastIndex' \in Nat
  BY <1>1, <1>3, NextIndexValue
<1>5. CASE p \in Consumed
  <2>1. Distance(p)' \in Int /\ Distance(p)' < total
    BY <1>1, <1>3, <1>4 DEF Distance, Cursor
  <2>2. age'[p] * limit = 0
    BY <1>5, <1>2, <1>3
  <2>3. QED
    BY <2>1, <2>2
<1>6. CASE p \notin Consumed
  <2>1. Distance(p) >= limit /\ Distance(p)' = Distance(p) - limit
    <3>1. ~(lastIndex < p /\ p <= lastIndex + limit)
      BY <1>6 DEF Consumed, firstSplice
    <3>2. Remaining(total) > 0 => ~(p <= lastIndex /\ p <= Remaining(total))
      BY <1>6 DEF Consumed, secondSplice
    <3>3. Remaining(total) = IF lastIndex >= total THEN limit
                             ELSE IF lastIndex + limit <= total THEN 0
                             ELSE limit - (total - lastIndex)
      BY <1>3, TakenValue DEF Remaining
    <3>4. CASE lastIndex >= total
      <4>1. Cursor = 0 /\ limit < p /\ NextIndex = limit
        BY <1>3, <3>2, <3>3, <3>4, NextIndexValue DEF Cursor
      <4>2. Cursor' = limit
        BY <1>1, <1>3, <4>1 DEF Cursor
      <4>3. QED
        BY <1>1, <1>3, <4>1, <4>2 DEF Distance
    <3>5. CASE lastIndex < total /\ lastIndex + limit <= total
      <4>1. Cursor = lastIndex /\ NextIndex = lastIndex + limit
        BY <1>3, <3>5, NextIndexValue DEF Cursor
      <4>2. Cursor' = IF lastIndex + limit < total THEN lastIndex + limit ELSE 0
        BY <1>1, <1>3, <4>1 DEF Cursor
      <4>3. QED
        BY <1>1, <1>3, <3>1, <3>5, <4>1, <4>2 DEF Distance
    <3>6. CASE lastIndex < total /\ lastIndex + limit > total
      <4>1. /\ Cursor = lastIndex
            /\ limit - (total - lastIndex) < p /\ p <= lastIndex
            /\ NextIndex = limit - (total - lastIndex)
        BY <1>3, <3>1, <3>2, <3>3, <3>6, NextIndexValue DEF Cursor
      <4>2. Cursor' = limit - (total - lastIndex)
        BY <1>1, <1>3, <3>6, <4>1 DEF Cursor
      <4>3. QED
        BY <1>1, <1>3, <3>6, <4>1, <4>2 DEF Distance
    <3>7. QED
      BY <1>3, <3>4, <3>5, <3>6
  <2>2. age'[p] * limit = age[p] * limit + limit
    BY <1>6, <1>2, <1>3 DEF TypeOK
  <2>3. age[p] * limit + Distance(p) < total
    BY DEF WaitInv
  <2>4. age[p] * limit \in Int /\ Distance(p) \in Int
    BY DEF Distance, Cursor, TypeOK
  <2>5. QED
    BY <2>1, <2>2, <2>3, <2>4 DEF TypeOK
<1>7. QED
  BY <1>5, <1>6

\* A pair's wait is bounded by the number of pairs per unit of the limit.
THEOREM PairsDoNotStarve == Spec => []NoStarvation
<1>1. Init => WaitInv
  BY DEF Init, WaitInv, Distance, Cursor
<1>2. TypeOK /\ WaitInv /\ [Next]_vars => WaitInv'
  <2> SUFFICES ASSUME TypeOK, WaitInv, [Next]_vars
               PROVE  WaitInv'
    OBVIOUS
  <2>1. CASE getNextRoundOrders
    BY <2>1, RoundKeepsWaitInv
  <2>2. ASSUME NEW pairs \in 1 .. MaxTotal, addOrder(pairs)
        PROVE  WaitInv'
    <3> SUFFICES ASSUME NEW p \in Positions(total + pairs)
                 PROVE  age'[p] * limit + Distance(p)' < total + pairs
      BY <2>2 DEF WaitInv, addOrder
    <3>1. CASE p <= total
      <4>1. age'[p] = age[p] /\ p \in Positions(total)
        BY <2>2, <3>1 DEF addOrder, TypeOK
      <4>2. Distance(p)' <= Distance(p) + pairs
        BY <2>2, <3>1 DEF addOrder, Distance, Cursor, TypeOK
      <4>3. age[p] * limit + Distance(p) < total
        BY <4>1 DEF WaitInv
      <4>4. age[p] * limit \in Int /\ Distance(p) \in Int /\ Distance(p)' \in Int
        BY <2>2, <4>1 DEF addOrder, Distance, Cursor, TypeOK
      <4>5. QED
        BY <4>1, <4>2, <4>3, <4>4 DEF TypeOK
    <3>2. CASE p > total
      <4>1. age'[p] = 0
        BY <2>2, <3>2 DEF addOrder, TypeOK
      <4>2. Distance(p)' \in Int /\ Distance(p)' < total + pairs
        BY <2>2, <3>2 DEF addOrder, Distance, Cursor, TypeOK
      <4>3. QED
        BY <4>1, <4>2 DEF TypeOK
    <3>3. QED
      BY <3>1, <3>2 DEF TypeOK
  <2>3. ASSUME NEW pairs \in 1 .. MaxTotal, removeOrder(pairs)
        PROVE  WaitInv'
    BY <2>3 DEF removeOrder, WaitInv, Distance, Cursor, TypeOK
  <2>4. ASSUME NEW l \in 1 .. MaxLimit, rescaleLimit(l)
        PROVE  WaitInv'
    BY <2>4 DEF rescaleLimit, WaitInv, Distance, Cursor, TypeOK
  <2>5. CASE UNCHANGED vars
    BY <2>5 DEF vars, WaitInv, Distance, Cursor
  <2>6. QED
    BY <2>1, <2>2, <2>3, <2>4, <2>5 DEF Next
<1>3. TypeOK /\ WaitInv => NoStarvation
  <2> SUFFICES ASSUME TypeOK, WaitInv, NEW p \in Positions(total)
               PROVE  age[p] * limit < total
    BY DEF NoStarvation
  <2>1. age[p] * limit + Distance(p) < total
    BY DEF WaitInv
  <2>2. Distance(p) \in Nat /\ age[p] * limit \in Int
    BY DEF Distance, Cursor, TypeOK
  <2>3. QED
    BY <2>1, <2>2 DEF TypeOK
<1>4. QED
  BY <1>1, <1>2, <1>3, TypeCorrect, PTL DEF Spec
-----------------------------------------------------------------------------
(***************************************************************************)
(* The three side by side.                                                 *)
(***************************************************************************)

\* A behaviour of the three is one of each.
LEMMA SideBySide == MCFairSpec => Spec /\ LimitsSpec /\ SyncSpec
<1>1. MCInit => Init /\ LimitsInit /\ SyncInit
  BY DEF MCInit
<1>2. [MCNext]_mcVars => [Next]_vars /\ [LimitsNext]_limitVars /\ [SyncNext]_syncVars
  BY DEF MCNext, mcVars, runCursor, runLimits, runSync
<1>3. QED
  BY <1>1, <1>2, PTL DEF MCFairSpec, Spec, LimitsSpec, SyncSpec

\* Each variable keeps to its type, whatever the parameters are.
THEOREM OrderTypesCorrect == MCFairSpec => []TypesOK
<1>1. LimitsInv => LimitsTypeOK
  BY DEF LimitsInv
<1>2. LimitsSpec => []LimitsTypeOK
  BY <1>1, LimitsInvInductive, PTL DEF LimitsSpec
<1>3. TypeOK /\ LimitsTypeOK /\ SyncTypeOK => TypesOK
  BY DEF TypesOK
<1>4. QED
  BY <1>2, <1>3, SideBySide, TypeCorrect, SyncBounds, PTL
=============================================================================
