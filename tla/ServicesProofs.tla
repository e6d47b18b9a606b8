--------------------------- MODULE ServicesProofs ----------------------------
(***************************************************************************)
(* Theorems about MainLoop, what is prepared for the orders, for any       *)
(* number of pairs, tokens and rejected rounds, about GasManager and       *)
(* OracleHealth, for every value of their constants, and about RpcState,   *)
(* for any number of nodes and requests and every size of the buffer.      *)
(***************************************************************************)
EXTENDS MCServices, RpcState, FiniteSetTheorems, TLAPS
-----------------------------------------------------------------------------
(***************************************************************************)
(* MainLoop.                                                               *)
(***************************************************************************)

\* The fetcher was asked for the pools of a key, or strays counted it.
Prepared(k) == keysOf(k) \subseteq tried \/ k \in strayed

\* A count stands for pools that this fetcher was asked for, which makes the
\* skipped prefetches harmless, and no order of a batch lives to see a reset.
LoopInv ==
    /\ count \in [Keys -> 0 .. MaxCount]
    /\ upcoming \subseteq Pairs /\ processing \subseteq Pairs /\ strays \subseteq Pairs
    /\ loopPhase \in {"top", "reset", "turn"} => processing = {}
    /\ \A k \in Keys : count[k] > 0 => Prepared(k)
    /\ \A k \in strayed \intersect Keys : keysOf(k) \subseteq strayed
    /\ \A p \in processing : Prepared(keyOf[p])

\* The keys of a key that comes along are among those it comes along with.
LEMMA KeysClosed ==
    ASSUME NEW k \in Keys, NEW j \in keysOf(k)
    PROVE  j \in Keys /\ keysOf(j) \subseteq keysOf(k)
BY MainLoopAssumption, EthKeysAssumption DEF keysOf

\* Counting up to MaxCount.
LEMMA CappedRange ==
    ASSUME NEW n \in Nat
    PROVE  Capped(n) \in 0 .. MaxCount
BY DEF Capped, MaxCount

\* What is known of a key is not lost when more is asked for.
LEMMA PreparedStays ==
    ASSUME tried \subseteq tried', strayed \subseteq strayed', NEW k, Prepared(k)
    PROVE  Prepared(k)'
BY DEF Prepared, keysOf

\* A key's own prefetch prepares all keys that it counts.
LEMMA PrefetchPrepares ==
    ASSUME LoopInv, NEW k \in Keys, NEW fetched, prefetch(k, fetched)
    PROVE  /\ count' \in [Keys -> 0 .. MaxCount]
           /\ tried \subseteq tried' /\ strayed' = strayed
           /\ \A j \in keysOf(k) : Prepared(j)'
           /\ \A j \in Keys : count'[j] > 0 => Prepared(j)'
<1>1. tried' = tried \union keysOf(k) /\ strayed' = strayed
  BY DEF prefetch
<1>2. PICK by \in [keysOf(k) -> 1 .. 2] :
        count' = [j \in Keys |-> IF j \in keysOf(k) THEN Bumped(count[j], by[j]) ELSE count[j]]
  BY DEF prefetch
<1>3. count' \in [Keys -> 0 .. MaxCount]
  <2>1. ASSUME NEW j \in Keys, j \in keysOf(k)
        PROVE  Bumped(count[j], by[j]) \in 0 .. MaxCount
    <3>1. count[j] + by[j] \in Nat
      BY <2>1, <1>2 DEF LoopInv
    <3>2. QED
      BY <3>1, CappedRange DEF Bumped
  <2>2. QED
    BY <1>2, <2>1 DEF LoopInv
<1>4. ASSUME NEW j \in keysOf(k)
      PROVE  Prepared(j)'
  <2>1. keysOf(j) \subseteq keysOf(k)
    BY KeysClosed
  <2>2. QED
    BY <1>1, <2>1 DEF Prepared, keysOf
<1>5. ASSUME NEW j \in Keys, count'[j] > 0
      PROVE  Prepared(j)'
  <2>1. CASE j \in keysOf(k)
    BY <2>1, <1>4
  <2>2. CASE j \notin keysOf(k)
    <3>1. count'[j] = count[j]
      BY <1>2, <2>2
    <3>2. Prepared(j)
      BY <3>1, <1>5 DEF LoopInv
    <3>3. QED
      BY <3>2, <1>1, PreparedStays
  <2>3. QED
    BY <2>1, <2>2
<1>6. QED
  BY <1>1, <1>3, <1>4, <1>5

\* Asking the router for one of the keys of k raises that count alone.
LEMMA AskRaisesOne ==
    ASSUME LoopInv, NEW k \in Keys, askRouter(k)
    PROVE  /\ count' \in [Keys -> 0 .. MaxCount]
           /\ \A j \in Keys : count'[j] # count[j] => j \in keysOf(k)
           /\ UNCHANGED <<loopPhase, batchVars, tried, strays>>
<1>1. PICK j \in keysOf(k) : count' = [count EXCEPT ![j] = Capped(@ + 1)]
  BY DEF askRouter
<1>2. j \in Keys
  BY KeysClosed
<1>3. Capped(count[j] + 1) \in 0 .. MaxCount
  <2>1. count[j] + 1 \in Nat
    BY <1>2 DEF LoopInv
  <2>2. QED
    BY <2>1, CappedRange
<1>4. QED
  BY <1>1, <1>2, <1>3 DEF LoopInv, askRouter, strayVars

\* An order under way that is prepared may count what it asks for.
LEMMA OrderAsksKeeps ==
    ASSUME LoopInv, NEW p \in Pairs, orderAsks(p)
    PROVE  LoopInv'
<1>1. p \in processing /\ askRouter(keyOf[p]) /\ strayed' = strayed /\ keyOf[p] \in Keys
  BY MainLoopAssumption DEF orderAsks
<1>2. /\ count' \in [Keys -> 0 .. MaxCount]
      /\ \A j \in Keys : count'[j] # count[j] => j \in keysOf(keyOf[p])
      /\ UNCHANGED <<loopPhase, batchVars, tried, strays>>
  BY <1>1, AskRaisesOne
<1>3. ASSUME NEW j \in keysOf(keyOf[p])
      PROVE  Prepared(j)
  <2>1. keysOf(j) \subseteq keysOf(keyOf[p])
    BY <1>1, KeysClosed
  <2>2. CASE keysOf(keyOf[p]) \subseteq tried
    BY <2>1, <2>2 DEF Prepared
  <2>3. CASE keyOf[p] \in strayed
    BY <1>1, <2>3 DEF Prepared, LoopInv
  <2>4. QED
    BY <1>1, <2>2, <2>3 DEF LoopInv, Prepared
<1>4. ASSUME NEW j \in Keys, count'[j] > 0
      PROVE  Prepared(j)'
  <2>1. Prepared(j)
    BY <1>2, <1>3, <1>4 DEF LoopInv
  <2>2. QED
    BY <2>1, <1>1, <1>2, PreparedStays
<1>5. QED
  BY <1>1, <1>2, <1>4 DEF LoopInv, batchVars, Prepared, keysOf

\* A stray marks all that it may count.
LEMMA StrayAsksKeeps ==
    ASSUME LoopInv, NEW p \in Pairs, strayAsks(p)
    PROVE  LoopInv'
<1>1. /\ askRouter(keyOf[p]) /\ keyOf[p] \in Keys
      /\ strayed' = strayed \union keysOf(keyOf[p])
  BY MainLoopAssumption DEF strayAsks
<1>2. /\ count' \in [Keys -> 0 .. MaxCount]
      /\ \A j \in Keys : count'[j] # count[j] => j \in keysOf(keyOf[p])
      /\ UNCHANGED <<loopPhase, batchVars, tried, strays>>
  BY <1>1, AskRaisesOne
<1>3. ASSUME NEW j \in Keys, count'[j] > 0
      PROVE  Prepared(j)'
  <2>1. CASE j \in keysOf(keyOf[p])
    BY <2>1, <1>1 DEF Prepared
  <2>2. CASE j \notin keysOf(keyOf[p])
    <3>1. Prepared(j)
      BY <2>2, <1>2, <1>3 DEF LoopInv
    <3>2. QED
      BY <3>1, <1>1, <1>2, PreparedStays
  <2>3. QED
    BY <2>1, <2>2
<1>4. ASSUME NEW j \in strayed' \intersect Keys
      PROVE  keysOf(j) \subseteq strayed'
  <2>1. CASE j \in keysOf(keyOf[p])
    BY <2>1, <1>1, KeysClosed
  <2>2. CASE j \notin keysOf(keyOf[p])
    BY <2>2, <1>1 DEF LoopInv
  <2>3. QED
    BY <2>1, <2>2
<1>5. ASSUME NEW q \in processing
      PROVE  Prepared(keyOf[q])'
  BY <1>1, <1>2, PreparedStays DEF LoopInv
<1>6. QED
  BY <1>1, <1>2, <1>3, <1>4, <1>5 DEF LoopInv, batchVars, keysOf

\* A pair starts prepared: its prefetch was asked for now, or its count is
\* full (isSkipped).
LEMMA PrepareKeeps ==
    ASSUME LoopInv, NEW p \in upcoming, NEW fetched, prepareRouter(p, fetched)
    PROVE  LoopInv'
<1>1. /\ p \in Pairs /\ keyOf[p] \in Keys /\ strays' = strays
      /\ processing' = processing \union {p} /\ upcoming' = upcoming \ {p}
      /\ loopPhase' \in {"gather", "prepare"}
  BY MainLoopAssumption DEF LoopInv, prepareRouter, startOrder, strayVars
<1>2. CASE isSkipped(keyOf[p]) /\ UNCHANGED fetcherVars
  <2>1. Prepared(keyOf[p])
    BY <1>1, <1>2 DEF isSkipped, LoopInv
  <2>2. QED
    BY <1>1, <1>2, <2>1 DEF LoopInv, fetcherVars, Prepared, keysOf
<1>3. CASE prefetch(keyOf[p], fetched)
  <2>1. /\ count' \in [Keys -> 0 .. MaxCount]
        /\ tried \subseteq tried' /\ strayed' = strayed
        /\ \A j \in keysOf(keyOf[p]) : Prepared(j)'
        /\ \A j \in Keys : count'[j] > 0 => Prepared(j)'
    BY <1>1, <1>3, PrefetchPrepares
  <2>2. Prepared(keyOf[p])'
    BY <2>1 DEF keysOf
  <2>3. ASSUME NEW q \in processing
        PROVE  Prepared(keyOf[q])'
    BY <2>1, PreparedStays DEF LoopInv
  <2>4. QED
    BY <1>1, <2>1, <2>2, <2>3 DEF LoopInv, keysOf
<1>4. QED
  BY <1>2, <1>3 DEF prepareRouter

\* The invariant holds initially and in every step.
LEMMA LoopInvInductive ==
    /\ LoopInit => LoopInv
    /\ LoopInv /\ [LoopNext]_loopVars => LoopInv'
<1>1. LoopInit => LoopInv
  BY DEF LoopInit, LoopInv, MaxCount
<1>2. ASSUME LoopInv, [LoopNext]_loopVars
      PROVE  LoopInv'
  <2> USE DEF batchVars, fetcherVars, timerVars, strayVars
  <2>1. CASE maybeResetDataFetcher
    BY <1>2, <2>1 DEF maybeResetDataFetcher, LoopInv, Prepared, keysOf
  <2>2. CASE resetSucceeds
    BY <1>2, <2>2 DEF resetSucceeds, LoopInv, Prepared, keysOf, clearedCounts, MaxCount
  <2>3. CASE resetFails
    BY <1>2, <2>3 DEF resetFails, LoopInv, Prepared, keysOf
  <2>4. ASSUME NEW orders \in SUBSET Pairs, initializeRound(orders)
        PROVE  LoopInv'
    BY <1>2, <2>4 DEF initializeRound, afterBatch, LoopInv, Prepared, keysOf
  <2>5. CASE update
    BY <1>2, <2>5 DEF update, LoopInv, Prepared, keysOf
  <2>6. CASE gather
    BY <1>2, <2>6 DEF gather, afterBatch, LoopInv, Prepared, keysOf
  <2>7. ASSUME NEW p \in upcoming, NEW fetched, prepareRouter(p, fetched)
        PROVE  LoopInv'
    BY <1>2, <2>7, PrepareKeeps
  <2>8. CASE roundThrows
    BY <1>2, <2>8 DEF roundThrows, LoopInv, Prepared, keysOf
  <2>9. CASE timePasses
    BY <1>2, <2>9 DEF timePasses, LoopInv, Prepared, keysOf
  <2>10. ASSUME NEW p \in Pairs, orderAsks(p) \/ strayAsks(p) \/ strayEnds(p)
         PROVE  LoopInv'
    <3>1. CASE orderAsks(p)
      BY <1>2, <3>1, OrderAsksKeeps
    <3>2. CASE strayAsks(p)
      BY <1>2, <3>2, StrayAsksKeeps
    <3>3. CASE strayEnds(p)
      BY <1>2, <3>3 DEF strayEnds, LoopInv, Prepared, keysOf
    <3>4. QED
      BY <2>10, <3>1, <3>2, <3>3
  <2>11. ASSUME NEW k \in Keys, createPool(k)
         PROVE  LoopInv'
    BY <1>2, <2>11 DEF createPool, LoopInv, Prepared, keysOf
  <2>12. CASE UNCHANGED loopVars
    BY <1>2, <2>12 DEF loopVars, LoopInv, Prepared, keysOf
  <2>13. QED
    BY <1>2, <2>1, <2>2, <2>3, <2>4, <2>5, <2>6, <2>7, <2>8, <2>9, <2>10, <2>11, <2>12
    DEF LoopNext, mainLoopStep
<1>3. QED
  BY <1>1, <1>2

\* No order is processed whose pools the data fetcher was never asked for,
\* whatever was skipped, failed, reset or rejected (prepareRouter).
THEOREM OrdersArePrepared == LoopSpec => []ProcessedArePrepared
<1>1. LoopInv => ProcessedArePrepared
  BY DEF LoopInv, Prepared, ProcessedArePrepared
<1>2. QED
  BY <1>1, LoopInvInductive, PTL DEF LoopSpec

\* What LoopInv leaves out of the types.
LoopFields ==
    /\ loopPhase \in LoopPhases
    /\ known \subseteq tried /\ tried \subseteq Keys /\ strayed \subseteq Keys
    /\ newPool \in BOOLEAN /\ newPoolCreated \in BOOLEAN
    /\ signalReset \in BOOLEAN /\ resetDue \in BOOLEAN
    /\ rejected \in 0 .. MaxRejected

\* A pair has the keys of its tokens.
LEMMA KeysOfPair ==
    ASSUME NEW p \in Pairs
    PROVE  keyOf[p] \in Keys /\ keysOf(keyOf[p]) \subseteq Keys
BY KeysClosed, MainLoopAssumption

LEMMA LoopFieldsKept ==
    ASSUME LoopFields, LoopInv, [LoopNext]_loopVars
    PROVE  LoopFields'
<1> USE DEF LoopFields, LoopPhases, batchVars, fetcherVars, timerVars, strayVars
<1>1. CASE maybeResetDataFetcher
  BY <1>1 DEF maybeResetDataFetcher
<1>2. CASE resetSucceeds
  BY <1>2 DEF resetSucceeds
<1>3. CASE resetFails
  BY <1>3 DEF resetFails
<1>4. ASSUME NEW orders \in SUBSET Pairs, initializeRound(orders)
      PROVE  LoopFields'
  BY <1>4 DEF initializeRound, afterBatch
<1>5. CASE update
  BY <1>5 DEF update
<1>6. CASE gather
  BY <1>6 DEF gather, afterBatch
<1>7. ASSUME NEW p \in upcoming, NEW fetched, prepareRouter(p, fetched)
      PROVE  LoopFields'
  <2>1. keysOf(keyOf[p]) \subseteq Keys
    BY KeysOfPair DEF LoopInv
  <2>2. CASE UNCHANGED fetcherVars
    BY <1>7, <2>2 DEF prepareRouter, startOrder
  <2>3. CASE prefetch(keyOf[p], fetched)
    BY <1>7, <2>1, <2>3 DEF prepareRouter, prefetch, startOrder
  <2>4. QED
    BY <1>7, <2>2, <2>3 DEF prepareRouter
<1>8. CASE roundThrows
  BY <1>8, MainLoopAssumption DEF roundThrows
<1>9. CASE timePasses
  BY <1>9 DEF timePasses
<1>10. ASSUME NEW p \in Pairs, orderAsks(p) \/ strayAsks(p) \/ strayEnds(p)
       PROVE  LoopFields'
  <2>1. CASE orderAsks(p)
    BY <2>1 DEF orderAsks, askRouter
  <2>2. CASE strayAsks(p)
    BY <2>2, KeysOfPair DEF strayAsks, askRouter
  <2>3. CASE strayEnds(p)
    BY <2>3 DEF strayEnds
  <2>4. QED
    BY <1>10, <2>1, <2>2, <2>3
<1>11. ASSUME NEW k \in Keys, createPool(k)
       PROVE  LoopFields'
  BY <1>11 DEF createPool
<1>12. CASE UNCHANGED loopVars
  BY <1>12 DEF loopVars
<1>13. QED
  BY <1>1, <1>2, <1>3, <1>4, <1>5, <1>6, <1>7, <1>8, <1>9, <1>10, <1>11, <1>12
  DEF LoopNext, mainLoopStep

\* The types of MainLoop.
LEMMA LoopTypes == LoopSpec => []LoopTypeOK
<1>1. LoopInit => LoopFields
  <2> SUFFICES ASSUME LoopInit PROVE LoopFields
    OBVIOUS
  <2>1. newPool \in BOOLEAN /\ newPoolCreated \in BOOLEAN
    BY DEF LoopInit
  <2>2. signalReset \in BOOLEAN /\ resetDue \in BOOLEAN
    BY DEF LoopInit
  <2>3. QED
    BY <2>1, <2>2, MainLoopAssumption DEF LoopInit, LoopFields, LoopPhases
<1>2. LoopInv /\ LoopFields => LoopTypeOK
  BY DEF LoopInv, LoopFields, LoopTypeOK
<1>3. QED
  BY <1>1, <1>2, LoopFieldsKept, LoopInvInductive, PTL DEF LoopSpec
-----------------------------------------------------------------------------
(***************************************************************************)
(* GasManager and OracleHealth.                                            *)
(***************************************************************************)

\* The deadline counts down from the last slow transaction, and a raised
\* multiplier has one.
GasInv ==
    /\ gasPriceMultiplier \in baseGasPriceMultiplier .. maxGasPriceMultiplier
    /\ sinceSlow \in 0 .. gasIncreaseStepTime
    /\ deadline \in {Unset, gasIncreaseStepTime - sinceSlow}
    /\ RaisedHasDeadline

\* The invariant holds initially and in every step (onTransactionMine).
LEMMA GasInvInductive ==
    /\ GasInit => GasInv
    /\ GasInv /\ [GasNext]_gasVars => GasInv'
<1>1. GasInit => GasInv
  BY GasAssumption DEF GasInit, GasInv, RaisedHasDeadline, Unset
<1>2. ASSUME GasInv, [GasNext]_gasVars
      PROVE  GasInv'
  <2> USE GasAssumption DEF GasInv, RaisedHasDeadline, Unset
  <2>1. CASE slowTransaction
    BY <1>2, <2>1 DEF slowTransaction, raise
  <2>2. CASE fastTransaction
    BY <1>2, <2>2 DEF fastTransaction
  <2>3. CASE readGasPrice
    BY <1>2, <2>3 DEF readGasPrice
  <2>4. ASSUME NEW r \in reads, readAnswered(r)
        PROVE  GasInv'
    BY <1>2, <2>4 DEF readAnswered
  <2>5. CASE gasTick
    BY <1>2, <2>5 DEF gasTick
  <2>6. CASE UNCHANGED gasVars
    BY <1>2, <2>6 DEF gasVars
  <2>7. QED
    BY <1>2, <2>1, <2>2, <2>3, <2>4, <2>5, <2>6 DEF GasNext
<1>3. QED
  BY <1>1, <1>2

\* A raised multiplier always has a deadline to be reset after, whatever the
\* configured step, maximum and step time are (onTransactionMine).
THEOREM GasRaisedHasDeadline == GasSpec => []RaisedHasDeadline
<1>1. GasInv => RaisedHasDeadline
  BY DEF GasInv
<1>2. QED
  BY <1>1, GasInvInductive, PTL DEF GasSpec

\* The multiplier falls only after a whole step time without a slow
\* transaction (onTransactionMine).
THEOREM GasQuietBeforeReset == GasSpec => QuietBeforeReset
<1>1. ASSUME GasInv, [GasNext]_gasVars
      PROVE  [gasPriceMultiplier' < gasPriceMultiplier
                => sinceSlow = gasIncreaseStepTime]_gasVars
  <2> USE GasAssumption DEF GasInv, Unset
  <2>1. CASE slowTransaction
    BY <1>1, <2>1 DEF slowTransaction, raise
  <2>2. CASE fastTransaction
    BY <1>1, <2>2 DEF fastTransaction
  <2>3. CASE readGasPrice
    BY <1>1, <2>3 DEF readGasPrice
  <2>4. ASSUME NEW r \in reads, readAnswered(r)
        PROVE  gasPriceMultiplier' = gasPriceMultiplier
    BY <2>4 DEF readAnswered
  <2>5. CASE gasTick
    BY <1>1, <2>5 DEF gasTick
  <2>6. QED
    BY <1>1, <2>1, <2>2, <2>3, <2>4, <2>5 DEF GasNext
<1>2. QED
  BY <1>1, GasInvInductive, PTL DEF GasSpec, QuietBeforeReset
-----------------------------------------------------------------------------
GasRead == [age : 0 .. ReadLife, mult : baseGasPriceMultiplier .. maxGasPriceMultiplier]

\* An answer that is under way, or that of the next read, comes before the
\* price is too old.
AnswerInTime ==
    \/ gasPrice.age <= sinceRead + ReadLife
    \/ \E r \in reads : gasPrice.age <= ReadInterval + ReadLife + r.age

PriceInv ==
    /\ sinceRead \in 0 .. ReadInterval /\ missed \in BOOLEAN
    /\ reads \subseteq GasRead
    /\ gasPrice \in [age : Nat, mult : baseGasPriceMultiplier .. maxGasPriceMultiplier]
    /\ ~missed => AnswerInTime

\* A read that is a tick older.
LEMMA OlderRead ==
    ASSUME NEW r \in GasRead, r.age < ReadLife
    PROVE  [r EXCEPT !.age = @ + 1] \in GasRead /\ [r EXCEPT !.age = @ + 1].age = r.age + 1
  BY GasAssumption DEF GasRead

LEMMA TickKeepsPrice ==
    ASSUME PriceInv, gasTick
    PROVE  PriceInv'
<1>1. /\ sinceRead' = sinceRead + 1 /\ sinceRead' \in 0 .. ReadInterval
      /\ missed' = missed /\ \A r \in reads : r \in GasRead /\ r.age < ReadLife
      /\ reads' = {[r EXCEPT !.age = @ + 1] : r \in reads}
  BY GasAssumption DEF gasTick, PriceInv
<1>2. reads' \subseteq GasRead
  BY <1>1, OlderRead
<1>3. /\ gasPrice' \in [age : Nat, mult : baseGasPriceMultiplier .. maxGasPriceMultiplier]
      /\ gasPrice'.age <= gasPrice.age + 1 /\ gasPrice.age \in Nat /\ gasPrice'.age \in Nat
  BY GasAssumption DEF gasTick, older, PriceInv, MaxAge
<1>4. ASSUME NEW r \in reads, gasPrice.age <= ReadInterval + ReadLife + r.age
      PROVE  \E u \in reads' : gasPrice'.age <= ReadInterval + ReadLife + u.age
  <2> DEFINE u == [r EXCEPT !.age = @ + 1]
  <2>1. u \in reads' /\ u.age = r.age + 1 /\ r.age \in Nat
    BY <1>1, OlderRead DEF GasRead
  <2> HIDE DEF u
  <2>2. QED
    BY <1>3, <1>4, <2>1, GasAssumption
<1>5. AnswerInTime => AnswerInTime'
  <2>1. CASE gasPrice.age <= sinceRead + ReadLife
    <3>1. gasPrice'.age <= sinceRead' + ReadLife
      BY <1>1, <1>3, <2>1, GasAssumption DEF PriceInv
    <3>2. QED
      BY <3>1 DEF AnswerInTime
  <2>2. QED
    BY <1>4, <2>1 DEF AnswerInTime
<1>6. QED
  BY <1>1, <1>2, <1>3, <1>5 DEF PriceInv

LEMMA PriceInvInductive ==
    /\ GasInit => PriceInv
    /\ PriceInv /\ GasInv /\ [GasNext]_gasVars => PriceInv'
<1>1. GasInit => PriceInv
  <2> SUFFICES ASSUME GasInit
               PROVE  PriceInv
    OBVIOUS
  <2>1. /\ gasPrice = [mult |-> baseGasPriceMultiplier, age |-> 0]
        /\ baseGasPriceMultiplier \in baseGasPriceMultiplier .. maxGasPriceMultiplier
    BY GasAssumption DEF GasInit
  <2>2. /\ gasPrice \in [age : Nat, mult : baseGasPriceMultiplier .. maxGasPriceMultiplier]
        /\ gasPrice.age = 0
    BY <2>1
  <2>3. AnswerInTime
    BY <2>2, GasAssumption DEF GasInit, AnswerInTime
  <2>4. QED
    <3>1. sinceRead \in 0 .. ReadInterval
      BY GasAssumption DEF GasInit
    <3>2. missed \in BOOLEAN /\ reads \subseteq GasRead
      BY DEF GasInit
    <3>3. QED
      BY <2>2, <2>3, <3>1, <3>2 DEF PriceInv
<1>2. ASSUME PriceInv, GasInv, [GasNext]_gasVars
      PROVE  PriceInv'
  <2>1. CASE slowTransaction \/ fastTransaction
    BY <1>2, <2>1 DEF slowTransaction, fastTransaction, PriceInv, AnswerInTime
  <2>2. CASE readGasPrice
    <3> DEFINE u == [age |-> 0, mult |-> gasPriceMultiplier]
    <3>1. /\ sinceRead = ReadInterval /\ sinceRead' = 0 /\ reads' = reads \union {u}
          /\ UNCHANGED <<gasPrice, missed>>
      BY <2>2 DEF readGasPrice, startRead
    <3>2. u \in GasRead /\ u.age = 0
      BY <1>2, GasAssumption DEF GasRead, GasInv
    <3> HIDE DEF u
    <3>3. AnswerInTime => AnswerInTime'
      <4>1. CASE gasPrice.age <= sinceRead + ReadLife
        <5>1. gasPrice'.age <= ReadInterval + ReadLife + u.age /\ u \in reads'
          BY <1>2, <3>1, <3>2, <4>1, GasAssumption DEF PriceInv
        <5>2. QED
          BY <5>1 DEF AnswerInTime
      <4>2. QED
        BY <3>1, <4>1 DEF AnswerInTime
    <3>4. QED
      BY <1>2, <3>1, <3>2, <3>3, GasAssumption DEF PriceInv
  <2>3. ASSUME NEW r \in reads, readAnswered(r)
        PROVE  PriceInv'
    <3>1. r \in GasRead /\ r.age \in 0 .. ReadLife
      BY <1>2 DEF PriceInv, GasRead
    <3>2. CASE gasPrice' = r /\ missed' = FALSE
      <4>1. gasPrice'.age <= sinceRead' + ReadLife
        BY <1>2, <2>3, <3>1, <3>2, GasAssumption DEF readAnswered, PriceInv
      <4>2. gasPrice' \in [age : Nat, mult : baseGasPriceMultiplier .. maxGasPriceMultiplier]
        BY <3>1, <3>2, GasAssumption DEF GasRead
      <4>3. QED
        BY <1>2, <2>3, <3>2, <4>1, <4>2 DEF readAnswered, PriceInv, AnswerInTime
    <3>3. CASE missed' = TRUE /\ UNCHANGED gasPrice
      BY <1>2, <2>3, <3>3 DEF readAnswered, PriceInv
    <3>4. QED
      BY <2>3, <3>2, <3>3 DEF readAnswered
  <2>4. CASE gasTick
    BY <1>2, <2>4, TickKeepsPrice
  <2>5. CASE UNCHANGED gasVars
    BY <1>2, <2>5 DEF gasVars, PriceInv, AnswerInTime
  <2>6. QED
    BY <1>2, <2>1, <2>2, <2>3, <2>4, <2>5 DEF GasNext
<1>3. QED
  BY <1>1, <1>2

\* Whatever the interval and the life of a read are, and in whatever order the
\* answers come, the price is at most an interval and two lives old unless a
\* read failed since it was set (watchGasPrice).
THEOREM GasPriceFresh == GasSpec => []PriceFresh
<1>1. PriceInv => PriceFresh
  <2>1. ASSUME PriceInv, ~missed
        PROVE  gasPrice.age <= MaxAge
    <3>1. gasPrice.age \in Nat /\ sinceRead \in 0 .. ReadInterval
      BY <2>1 DEF PriceInv
    <3>2. CASE gasPrice.age <= sinceRead + ReadLife
      BY <3>1, <3>2, GasAssumption DEF MaxAge
    <3>3. ASSUME NEW r \in reads, gasPrice.age <= ReadInterval + ReadLife + r.age
          PROVE  gasPrice.age <= MaxAge
      <4>1. r.age \in 0 .. ReadLife
        BY <2>1 DEF PriceInv, GasRead
      <4>2. QED
        BY <3>1, <3>3, <4>1, GasAssumption DEF MaxAge
    <3>4. QED
      BY <2>1, <3>2, <3>3 DEF PriceInv, AnswerInTime
  <2>2. QED
    BY <2>1 DEF PriceFresh
<1>2. QED
  BY <1>1, GasInvInductive, PriceInvInductive, PTL DEF GasSpec
-----------------------------------------------------------------------------
\* The counter stays within its bound and a cool-off has its failures.
OracleInv ==
    /\ consecutiveFailures \in 0 .. COOLOFF_THRESHOLD + 1
    /\ cooloffUntil \in NoCooloff .. COOLOFF_DURATION
    /\ CooloffEarned

\* Whatever the threshold and the durations are, an endpoint is in a cool-off
\* only while its last answers were failures (recordOracleSuccess,
\* recordOracleFailure).
THEOREM OracleCooloffEarned == OracleSpec => []CooloffEarned
<1> USE OracleAssumption DEF OracleInv, CooloffEarned, NoCooloff
<1>1. OracleInit => OracleInv
  BY DEF OracleInit
<1>2. ASSUME OracleInv, [OracleNext]_oracleVars
      PROVE  OracleInv'
  <2>1. ASSUME NEW q \in Quotes, fetchSignedContext(q)
        PROVE  OracleInv'
    BY <1>2, <2>1 DEF fetchSignedContext, skipRequest, sendRequest
  <2>2. ASSUME NEW q \in Quotes, answered(q)
        PROVE  OracleInv'
    <3>1. CASE recordOracleSuccess
      BY <1>2, <3>1 DEF recordOracleSuccess
    <3>2. CASE recordOracleFailure
      BY <1>2, <3>2 DEF recordOracleFailure
    <3>3. QED
      BY <2>2, <3>1, <3>2 DEF answered
  <2>3. CASE oracleTick
    BY <1>2, <2>3 DEF oracleTick
  <2>4. CASE UNCHANGED oracleVars
    BY <1>2, <2>4 DEF oracleVars
  <2>5. QED
    BY <1>2, <2>1, <2>2, <2>3, <2>4 DEF OracleNext
<1>3. QED
  BY <1>1, <1>2, PTL DEF OracleSpec

\* The types of GasManager.
LEMMA GasTypes == GasSpec => []GasType
<1>1. GasInv /\ PriceInv => GasType
  BY GasAssumption DEF GasInv, PriceInv, GasType, GasRead, Unset
<1>2. QED
  BY <1>1, GasInvInductive, PriceInvInductive, PTL DEF GasSpec

\* The types of OracleHealth.
LEMMA OracleTypes == OracleSpec => []OracleType
<1> USE OracleAssumption DEF OracleType, NoCooloff, NoRequest
<1>1. OracleInit => OracleType
  BY DEF OracleInit
<1>2. ASSUME OracleType, [OracleNext]_oracleVars
      PROVE  OracleType'
  <2>1. ASSUME NEW q \in Quotes, fetchSignedContext(q)
        PROVE  OracleType'
    BY <1>2, <2>1 DEF fetchSignedContext, skipRequest, sendRequest
  <2>2. ASSUME NEW q \in Quotes, answered(q)
        PROVE  OracleType'
    <3>1. CASE recordOracleSuccess
      BY <1>2, <2>2, <3>1 DEF answered, recordOracleSuccess
    <3>2. CASE recordOracleFailure
      BY <1>2, <2>2, <3>2 DEF answered, recordOracleFailure
    <3>3. QED
      BY <2>2, <3>1, <3>2 DEF answered
  <2>3. CASE oracleTick
    BY <1>2, <2>3 DEF oracleTick
  <2>4. CASE UNCHANGED oracleVars
    BY <1>2, <2>4 DEF oracleVars
  <2>5. QED
    BY <1>2, <2>1, <2>2, <2>3, <2>4 DEF OracleNext
<1>3. QED
  BY <1>1, <1>2, PTL DEF OracleSpec
-----------------------------------------------------------------------------
(***************************************************************************)
(* RpcState.                                                               *)
(***************************************************************************)

\* The count of each node is that of its buffer, and requests are with nodes.
RpcInv ==
    /\ buffer \in [Rpcs -> Seq(BOOLEAN)]
    /\ success \in [Rpcs -> Nat]
    /\ call \in [Requests -> [at : CallSteps, next : Nat, retries : Nat, rpc : Rpcs]]
    /\ SuccessMatchesBuffer

\* The successes of a buffer are finitely many.
LEMMA SuccessesFinite ==
    ASSUME NEW b \in Seq(BOOLEAN)
    PROVE  /\ IsFiniteSet(successes(b)) /\ Cardinality(successes(b)) \in Nat
           /\ successes(b) \subseteq 1 .. Len(b) /\ DOMAIN b = 1 .. Len(b)
<1>1. successes(b) \subseteq 1 .. Len(b) /\ Len(b) \in Nat /\ DOMAIN b = 1 .. Len(b)
  BY DEF successes
<1>2. IsFiniteSet(1 .. Len(b))
  BY <1>1, FS_Interval
<1>3. IsFiniteSet(successes(b))
  BY <1>1, <1>2, FS_Subset
<1>4. QED
  BY <1>1, <1>3, FS_CardinalityType

\* A new failure is no success.
LEMMA AppendFailure ==
    ASSUME NEW b \in Seq(BOOLEAN)
    PROVE  /\ Append(b, FALSE) \in Seq(BOOLEAN) /\ Len(Append(b, FALSE)) = Len(b) + 1
           /\ successes(Append(b, FALSE)) = successes(b)
           /\ \A i \in 1 .. Len(b) : Append(b, FALSE)[i] = b[i]
BY DEF successes

\* The first record is knocked out, with its success if it is one.
LEMMA KnockOut ==
    ASSUME NEW b \in Seq(BOOLEAN), Len(b) > 0
    PROVE  /\ Tail(b) \in Seq(BOOLEAN) /\ Len(Tail(b)) = Len(b) - 1
           /\ Cardinality(successes(Tail(b)))
                = Cardinality(successes(b)) - (IF b[1] THEN 1 ELSE 0)
<1> DEFINE S == successes(b) \ {1}
           T == successes(Tail(b))
           f == [i \in S |-> i - 1]
<1>1. /\ Len(b) \in Nat /\ DOMAIN b = 1 .. Len(b) /\ Tail(b) \in Seq(BOOLEAN)
      /\ Len(Tail(b)) = Len(b) - 1 /\ DOMAIN Tail(b) = 1 .. Len(b) - 1
      /\ \A i \in 1 .. Len(b) - 1 : Tail(b)[i] = b[i + 1]
  OBVIOUS
<1>2. /\ IsFiniteSet(successes(b)) /\ Cardinality(successes(b)) \in Nat
  BY SuccessesFinite
<1>3. \A i \in S : i \in 2 .. Len(b) /\ b[i] /\ i - 1 \in T
  BY <1>1 DEF successes
<1>4. \A j \in T : j \in 1 .. Len(b) - 1 /\ j + 1 \in S
  BY <1>1 DEF successes
<1>5. f \in Bijection(S, T)
  <2>1. f \in [S -> T]
    BY <1>3
  <2>2. \A i, j \in S : f[i] = f[j] => i = j
    BY <1>3
  <2>3. \A j \in T : \E i \in S : f[i] = j
    <3>1. SUFFICES ASSUME NEW j \in T
                   PROVE  f[j + 1] = j /\ j + 1 \in S
      OBVIOUS
    <3>2. QED
      BY <1>4
  <2>4. QED
    BY <2>1, <2>2, <2>3 DEF Bijection, Injection, Surjection, IsInjective
<1>6. IsFiniteSet(S)
  BY <1>2, FS_RemoveElement
<1>7. Cardinality(T) = Cardinality(S)
  BY <1>5, <1>6, FS_Bijection DEF ExistsBijection
<1>8. Cardinality(S) = Cardinality(successes(b)) - (IF b[1] THEN 1 ELSE 0)
  <2>1. 1 \in successes(b) <=> b[1]
    BY <1>1 DEF successes
  <2>2. Cardinality(S) = IF 1 \in successes(b) THEN Cardinality(successes(b)) - 1
                                              ELSE Cardinality(successes(b))
    BY <1>2, FS_RemoveElement
  <2>3. b[1] \in BOOLEAN
    BY <1>1
  <2>4. QED
    BY <1>2, <2>1, <2>2, <2>3
<1>9. QED
  BY <1>1, <1>7, <1>8

\* There is a latest one of the failures.
LEMMA HasLatest ==
    ASSUME NEW n \in Nat, NEW F, F \subseteq 1 .. n, F # {}
    PROVE  \E i \in F : \A j \in F : j <= i
<1> DEFINE T == {n - i : i \in F}
<1>1. T \subseteq Nat /\ T # {}
  <2>1. \A i \in F : i \in Nat /\ i <= n /\ n - i \in Nat
    OBVIOUS
  <2>2. QED
    BY <2>1
<1>2. PICK x \in T : \A y \in T : ~(<<y, x>> \in OpToRel(<, Nat))
  <2> HIDE DEF T
  <2>1. QED
    BY <1>1, NatLessThanWellFounded, WFMin
<1>3. \A y \in T : ~(y < x)
  BY <1>1, <1>2 DEF OpToRel
<1>4. PICK i \in F : x = n - i
  BY <1>2
<1>5. \A j \in F : n - j \in T /\ j \in Nat
  OBVIOUS
<1>6. \A j \in F : ~(n - j < n - i)
  <2> HIDE DEF T
  <2>1. QED
    BY <1>3, <1>4, <1>5
<1>7. QED
  BY <1>4, <1>6

\* recordRequest keeps count and size.
LEMMA RecordingRequest ==
    ASSUME RpcInv, NEW u \in Rpcs, recordRequest(u)
    PROVE  /\ buffer' \in [Rpcs -> Seq(BOOLEAN)] /\ success' \in [Rpcs -> Nat]
           /\ SuccessMatchesBuffer'
<1> DEFINE b == buffer[u]
           longer == Append(b, FALSE)
<1>1. b \in Seq(BOOLEAN) /\ Len(b) \in Nat /\ success[u] = Cardinality(successes(b))
      /\ success[u] \in Nat /\ Len(b) <= trackSize /\ trackSize \in Nat
  BY RpcAssumption DEF RpcInv, SuccessMatchesBuffer
<1>2. /\ longer \in Seq(BOOLEAN) /\ Len(longer) = Len(b) + 1
      /\ successes(longer) = successes(b)
  BY <1>1, AppendFailure
<1>3. /\ Tail(longer) \in Seq(BOOLEAN) /\ Len(Tail(longer)) = Len(b)
      /\ Cardinality(successes(Tail(longer))) = success[u] - (IF longer[1] THEN 1 ELSE 0)
      /\ Cardinality(successes(Tail(longer))) \in Nat
  <2> HIDE DEF longer, b
  <2>1. Len(longer) > 0 /\ Cardinality(successes(longer)) = success[u]
    BY <1>1, <1>2
  <2>2. /\ Tail(longer) \in Seq(BOOLEAN) /\ Len(Tail(longer)) = Len(longer) - 1
        /\ Cardinality(successes(Tail(longer)))
             = Cardinality(successes(longer)) - (IF longer[1] THEN 1 ELSE 0)
    BY <1>2, <2>1, KnockOut
  <2>3. Cardinality(successes(Tail(longer))) \in Nat
    BY <2>2, SuccessesFinite
  <2>4. QED
    BY <1>1, <1>2, <2>1, <2>2, <2>3
<1>4. /\ buffer' = [buffer EXCEPT ![u] = IF Len(b) >= trackSize THEN Tail(longer) ELSE longer]
      /\ success' = [success EXCEPT ![u] =
                       IF Len(b) >= trackSize /\ longer[1] THEN @ - 1 ELSE @]
  BY DEF recordRequest
<1>5. /\ buffer'[u] \in Seq(BOOLEAN) /\ success'[u] \in Nat
      /\ success'[u] = Cardinality(successes(buffer'[u])) /\ Len(buffer'[u]) <= trackSize
  <2> HIDE DEF longer, b
  <2>1. CASE Len(b) >= trackSize
    BY <1>1, <1>3, <1>4, <2>1 DEF RpcInv
  <2>2. CASE ~(Len(b) >= trackSize)
    BY <1>1, <1>2, <1>4, <2>2 DEF RpcInv
  <2>3. QED
    BY <2>1, <2>2
<1>6. /\ buffer' \in [Rpcs -> Seq(BOOLEAN)] /\ success' \in [Rpcs -> Nat]
      /\ \A v \in Rpcs : v # u => buffer'[v] = buffer[v] /\ success'[v] = success[v]
  <2> HIDE DEF longer, b
  <2>1. QED
    BY <1>1, <1>2, <1>3, <1>4, <1>5 DEF RpcInv
<1>7. QED
  BY <1>5, <1>6 DEF RpcInv, SuccessMatchesBuffer

\* recordSuccess turns a failure of the buffer into a success and counts it.
LEMMA RecordingSuccess ==
    ASSUME RpcInv, NEW u \in Rpcs, recordSuccess(u)
    PROVE  /\ buffer' \in [Rpcs -> Seq(BOOLEAN)] /\ success' \in [Rpcs -> Nat]
           /\ SuccessMatchesBuffer'
<1> DEFINE b == buffer[u]
           failures == DOMAIN b \ successes(b)
           latest == CHOOSE i \in failures : \A j \in failures : j <= i
<1>1. b \in Seq(BOOLEAN) /\ Len(b) \in Nat /\ success[u] = Cardinality(successes(b))
      /\ success[u] \in Nat /\ DOMAIN b = 1 .. Len(b)
  BY DEF RpcInv, SuccessMatchesBuffer
<1>2. CASE failures = {}
  BY <1>2 DEF recordSuccess, RpcInv, SuccessMatchesBuffer
<1>3. CASE failures # {}
  <2>1. failures \subseteq 1 .. Len(b)
    BY <1>1
  <2>2. latest \in failures
    <3> HIDE DEF failures
    <3>1. \E i \in failures : \A j \in failures : j <= i
      BY <1>1, <1>3, <2>1, HasLatest
    <3>2. QED
      BY <3>1
  <2>3. /\ buffer' = [buffer EXCEPT ![u][latest] = TRUE]
        /\ success' = [success EXCEPT ![u] = @ + 1]
    BY <1>3 DEF recordSuccess
  <2> HIDE DEF latest
  <2>4. latest \in 1 .. Len(b) /\ latest \notin successes(b)
    BY <2>1, <2>2
  <2>5. buffer'[u] = [b EXCEPT ![latest] = TRUE]
    BY <2>3 DEF RpcInv
  <2>6. /\ buffer'[u] \in Seq(BOOLEAN) /\ Len(buffer'[u]) = Len(b)
        /\ successes(buffer'[u]) = successes(b) \union {latest}
    BY <1>1, <2>4, <2>5 DEF successes
  <2>7. Cardinality(successes(buffer'[u])) = success[u] + 1
    <3>1. IsFiniteSet(successes(b))
      BY <1>1, SuccessesFinite
    <3>2. Cardinality(successes(b) \union {latest}) = Cardinality(successes(b)) + 1
      BY <2>4, <3>1, FS_AddElement
    <3>3. QED
      BY <1>1, <2>6, <3>2
  <2>8. /\ buffer' \in [Rpcs -> Seq(BOOLEAN)] /\ success' \in [Rpcs -> Nat]
        /\ success'[u] = success[u] + 1
        /\ \A v \in Rpcs : v # u => buffer'[v] = buffer[v] /\ success'[v] = success[v]
    BY <1>1, <2>3, <2>6 DEF RpcInv
  <2>9. QED
    BY <2>6, <2>7, <2>8 DEF RpcInv, SuccessMatchesBuffer
<1>4. QED
  BY <1>2, <1>3

\* The record of a request keeps its shape.
LEMMA CallsKeepShape ==
    ASSUME RpcInv, NEW r \in Requests,
           \/ startRequest(r) \/ nextRpc(r) \/ nextRpcTimesOut(r)
           \/ send(r) \/ settled(r) \/ resend(r)
    PROVE  call' \in [Requests -> [at : CallSteps, next : Nat, retries : Nat, rpc : Rpcs]]
<1> DEFINE Shape == [at : CallSteps, next : Nat, retries : Nat, rpc : Rpcs]
<1> USE DEF CallSteps
<1>1. call \in [Requests -> Shape]
  BY DEF RpcInv
<1>2. IdleCall \in Shape
  BY RpcAssumption DEF IdleCall
<1>3. \A at \in CallSteps : over(r, at) => call' \in [Requests -> Shape]
  BY <1>1, <1>2 DEF over
<1>4. tryNext(r) => call' \in [Requests -> Shape]
  <2>1. ASSUME call[r].next > 0
        PROVE  [IdleCall EXCEPT !.at = "polling", !.next = call[r].next - 1] \in Shape
    <3>1. call[r] \in Shape /\ call[r].next - 1 \in Nat
      BY <1>1, <2>1
    <3>2. QED
      BY <1>2, <3>1 DEF IdleCall
  <2>2. QED
    BY <1>1, <2>1 DEF tryNext
<1>5. CASE startRequest(r)
  <2>1. retryCountNext \in Nat
    BY RpcAssumption
  <2>2. call' = [call EXCEPT ![r].at = "polling", ![r].next = retryCountNext]
    BY <1>5 DEF startRequest
  <2>3. [call[r] EXCEPT !.at = "polling", !.next = retryCountNext] \in Shape
    BY <1>1, <2>1
  <2>4. QED
    BY <1>1, <2>2, <2>3
<1>6. CASE nextRpc(r)
  <2>1. PICK v \in Rpcs : call' = [call EXCEPT ![r].at = "picked", ![r].rpc = v]
    BY <1>6 DEF nextRpc, Picks
  <2>2. [call[r] EXCEPT !.at = "picked", !.rpc = v] \in Shape
    BY <1>1
  <2>3. QED
    BY <1>1, <2>1, <2>2
<1>7. CASE nextRpcTimesOut(r)
  BY <1>3, <1>4, <1>7 DEF nextRpcTimesOut, giveUp, throws
<1>8. CASE send(r)
  <2>1. resolvedRetryCount(r) \in Nat
    BY RpcAssumption DEF resolvedRetryCount
  <2>2. QED
    BY <1>1, <1>8, <2>1 DEF send
<1>9. CASE settled(r)
  <2>1. retrySame(r) => call' \in [Requests -> Shape]
    BY <1>1 DEF retrySame
  <2>2. QED
    BY <1>3, <1>4, <1>9, <2>1 DEF settled, returns, throws
<1>10. CASE resend(r)
  BY <1>1, <1>10 DEF resend
<1>11. QED
  BY <1>5, <1>6, <1>7, <1>8, <1>9, <1>10

\* The invariant holds initially and in every step.
LEMMA RpcInvInductive ==
    /\ RpcInit => RpcInv
    /\ RpcInv /\ [RpcNext]_rpcVars => RpcInv'
<1>1. ASSUME RpcInit
      PROVE  RpcInv
  <2>1. successes(<< >>) = {} /\ Cardinality({}) = 0
    BY FS_EmptySet DEF successes
  <2>2. IdleCall \in [at : CallSteps, next : Nat, retries : Nat, rpc : Rpcs]
    BY RpcAssumption DEF IdleCall, CallSteps
  <2>3. \A u \in Rpcs : buffer[u] = << >> /\ success[u] = 0
    BY <1>1 DEF RpcInit
  <2>4. Len(<< >>) = 0 /\ << >> \in Seq(BOOLEAN) /\ trackSize \in Nat
    BY RpcAssumption
  <2>5. SuccessMatchesBuffer
    BY <2>1, <2>3, <2>4 DEF SuccessMatchesBuffer
  <2>6. QED
    BY <1>1, <2>2, <2>4, <2>5 DEF RpcInit, RpcInv
<1>2. ASSUME RpcInv, [RpcNext]_rpcVars
      PROVE  RpcInv'
  <2>1. ASSUME NEW r \in Requests, startRequest(r) \/ nextRpc(r) \/ nextRpcTimesOut(r)
        PROVE  RpcInv'
    BY <1>2, <2>1, CallsKeepShape
    DEF startRequest, nextRpc, nextRpcTimesOut, RpcInv, SuccessMatchesBuffer
  <2>2. ASSUME NEW r \in Requests, send(r) \/ resend(r)
        PROVE  RpcInv'
    <3>1. recordRequest(call[r].rpc) /\ call[r].rpc \in Rpcs
      BY <1>2, <2>2 DEF send, resend, RpcInv
    <3>2. QED
      BY <1>2, <2>2, <3>1, RecordingRequest, CallsKeepShape DEF RpcInv
  <2>3. ASSUME NEW r \in Requests, settled(r)
        PROVE  RpcInv'
    <3>1. call[r].rpc \in Rpcs
      BY <1>2, <2>3 DEF RpcInv
    <3>2. CASE recordSuccess(call[r].rpc)
      BY <1>2, <2>3, <3>1, <3>2, RecordingSuccess, CallsKeepShape DEF RpcInv
    <3>3. CASE UNCHANGED <<buffer, success>>
      BY <1>2, <2>3, <3>3, CallsKeepShape DEF RpcInv, SuccessMatchesBuffer
    <3>4. QED
      BY <2>3, <3>2, <3>3 DEF settled, returns
  <2>4. CASE loopPicks
    BY <1>2, <2>4 DEF loopPicks, RpcInv, SuccessMatchesBuffer
  <2>5. CASE UNCHANGED rpcVars
    BY <1>2, <2>5 DEF rpcVars, RpcInv, SuccessMatchesBuffer
  <2>6. QED
    BY <1>2, <2>1, <2>2, <2>3, <2>4, <2>5 DEF RpcNext, goOn
<1>3. QED
  BY <1>1, <1>2

\* The success count that the selection rests on is that of the buffer of the
\* latest requests, in whatever order they are answered (RpcProgress).
THEOREM RatesAreOfTheBuffer == RpcSpec => []SuccessMatchesBuffer
<1>1. RpcInv => SuccessMatchesBuffer
  BY DEF RpcInv
<1>2. QED
  BY <1>1, RpcInvInductive, PTL DEF RpcSpec
-----------------------------------------------------------------------------
(***************************************************************************)
(* MainLoop, GasManager and OracleHealth side by side.                     *)
(***************************************************************************)

\* A behaviour of the three is one of each.
LEMMA SideBySide == MCFairSpec => LoopSpec /\ GasSpec /\ OracleSpec
<1>1. MCInit => LoopInit /\ GasInit /\ OracleInit
  BY DEF MCInit
<1>2. [MCNext]_mcVars => [LoopNext]_loopVars /\ [GasNext]_gasVars /\ [OracleNext]_oracleVars
  BY DEF MCNext, mcVars, runLoop, runGas, runOracle
<1>3. QED
  BY <1>1, <1>2, PTL DEF MCFairSpec, LoopSpec, GasSpec, OracleSpec

\* Each variable keeps to its type, whatever the parameters are.
THEOREM ServiceTypesCorrect == MCFairSpec => []TypesOK
<1>1. LoopTypeOK /\ GasType /\ OracleType => TypesOK
  BY DEF TypesOK
<1>2. QED
  BY <1>1, SideBySide, LoopTypes, GasTypes, OracleTypes, PTL
=============================================================================
