------------------------------ MODULE MainLoop ------------------------------
(***************************************************************************)
(* The main loop (cli/index.ts, run) and the pool data of the routers.     *)
(*                                                                         *)
(* A round resets the pool data when its time has come or when a router    *)
(* asked for it, takes the pairs whose turn it is (OwnerCursor), updates   *)
(* the pools and prefetches those of each pair's tokens before the pair is *)
(* processed (core/process/round.ts), and ends with the wallets'           *)
(* operations and the sync.  RainSolverRouter counts how often the tokens  *)
(* of a key were asked for, and a key that was asked for often enough is   *)
(* not prefetched again.                                                   *)
(***************************************************************************)
EXTENDS Integers, FiniteSets

CONSTANTS
    Pairs,
    Keys,           \* `sellToken-buyToken`
    keyOf,          \* the key of each pair
    ethKeys,        \* the keys of the prices of its two tokens in ETH
    maxConcurrency,
    MaxRejected     \* bound: rounds that reject

ASSUME MainLoopAssumption ==
    /\ Keys # {}
    /\ keyOf \in [Pairs -> Keys]
    /\ ethKeys \in [Keys -> SUBSET Keys]
    /\ maxConcurrency \in Nat \ {0}
    /\ MaxRejected \in Nat

\* A pair that is traded for ETH needs no other price: that of ETH in ETH is
\* answered without pools.
ASSUME EthKeysAssumption ==
    \A k \in Keys : \A j \in ethKeys[k] : ethKeys[j] \subseteq {j}

VARIABLES
    loopPhase,      \* what the loop awaits
    upcoming,       \* pairs of the round that are not prepared yet
    processing,     \* concurrencyProcessBatch: pairs under way
    strays,         \* pairs that a rejected round left under way
    count,          \* RainSolverRouter.cache
    known,          \* keys whose newest pools the data fetcher has
    newPool,        \* a pool was created that no update has reported
    newPoolCreated, \* what the update of this batch reported
    signalReset,    \* SushiRouter.signalReset
    resetDue,       \* nextDatafetcherReset has come
    rejected,
    tried,          \* history: keys whose pools this fetcher was asked for
    strayed         \* history: keys that strays counted since the reset

fetcherVars == <<count, known, tried, strayed>>
timerVars == <<newPool, signalReset, resetDue>>
batchVars == <<upcoming, processing, newPoolCreated>>
strayVars == <<strays, rejected>>
loopVars == <<loopPhase, batchVars, fetcherVars, timerVars, strayVars>>

LoopPhases == {"top", "reset", "turn", "update", "prepare", "gather"}
MaxCount == 4
Capped(n) == IF n > MaxCount THEN MaxCount ELSE n

LoopInit ==
    /\ loopPhase = "top"
    /\ upcoming = {} /\ processing = {} /\ strays = {}
    /\ count = [k \in Keys |-> 0]
    /\ known = {} /\ tried = {} /\ strayed = {}
    /\ newPool = FALSE /\ newPoolCreated = FALSE
    /\ signalReset = FALSE /\ resetDue = FALSE
    /\ rejected = 0

\* The keys that are asked for when a pair of key k is prepared or priced.
keysOf(k) == {k} \union ethKeys[k]
-----------------------------------------------------------------------------
(***************************************************************************)
(* Seeded faults, for the mutation runs.                                   *)
(***************************************************************************)

\* A new data fetcher, while the counts of the old one stay.
BugKeepsCounts == count

\* Only the data fetcher's own signal leads to a reset.
BugResetIgnoresTimer == signalReset
-----------------------------------------------------------------------------
(***************************************************************************)
(* Resetting the pool data                                                 *)
(***************************************************************************)

mustReset == resetDue \/ signalReset

\* The time of the next reset is moved on before the reset is awaited.
maybeResetDataFetcher ==
    /\ loopPhase = "top"
    /\ loopPhase' = IF mustReset THEN "reset" ELSE "turn"
    /\ resetDue' = (resetDue /\ ~mustReset)
    /\ UNCHANGED <<batchVars, fetcherVars, newPool, signalReset, strayVars>>

clearedCounts == [k \in Keys |-> 0]

\* SushiRouter.reset: a fresh data fetcher, and then RainSolverRouter.reset.
resetSucceeds ==
    /\ loopPhase = "reset" /\ loopPhase' = "turn"
    /\ known' = {} /\ tried' = {} /\ strayed' = {}
    /\ count' = clearedCounts
    /\ signalReset' = FALSE
    /\ UNCHANGED <<batchVars, newPool, resetDue, strayVars>>

\* The old data fetcher stays; the signal stays too, the time is gone by.
resetFails ==
    /\ loopPhase = "reset" /\ loopPhase' = "turn"
    /\ UNCHANGED <<batchVars, fetcherVars, timerVars, strayVars>>
-----------------------------------------------------------------------------
(***************************************************************************)
(* A round                                                                 *)
(***************************************************************************)

\* The wallets' operations (WalletManager) and the sync (SubgraphSync) end
\* a round.
afterBatch(rest) == IF rest = {} THEN "top" ELSE "update"

\* The pairs whose turn it is: those with an empty vault are only reported,
\* and when the block number cannot be read none is processed.
initializeRound(orders) ==
    /\ loopPhase = "turn" /\ loopPhase' = afterBatch(orders)
    /\ upcoming' = orders
    /\ UNCHANGED <<processing, newPoolCreated, fetcherVars, timerVars, strayVars>>

\* SushiRouter.update: an error counts as no new pool.
update ==
    /\ loopPhase = "update" /\ loopPhase' = "prepare"
    /\ newPoolCreated' \in {newPool, FALSE}
    /\ newPool' = (newPool /\ ~newPoolCreated')
    /\ UNCHANGED <<upcoming, processing, fetcherVars, signalReset, resetDue, strayVars>>

isSkipped(k) == ~newPoolCreated /\ count[k] > 3

\* RainSolverRouter counts what it is asked for up to 4; getMarketPrice asks
\* once, or twice when the full size has too high a price impact.
Bumped(n, by) == Capped(n + by)

\* The three prices are fetched one after the other, whether or not one of
\* them fails; fetched are the keys whose pools arrived.
prefetch(k, fetched) ==
    /\ fetched \subseteq keysOf(k)
    /\ known' = known \union fetched
    /\ tried' = tried \union keysOf(k)
    /\ \E by \in [keysOf(k) -> 1 .. 2] :
         count' = [j \in Keys |->
                     IF j \in keysOf(k) THEN Bumped(count[j], by[j]) ELSE count[j]]
    /\ UNCHANGED strayed

\* processOrderInit starts; the next pair of the batch does not see what the
\* update reported.
startOrder(p) ==
    /\ upcoming' = upcoming \ {p} /\ processing' = processing \union {p}
    /\ newPoolCreated' = FALSE
    /\ loopPhase' = IF upcoming' = {} \/ Cardinality(processing') = maxConcurrency THEN "gather"
                                                                              ELSE "prepare"

prepareRouter(p, fetched) ==
    /\ loopPhase = "prepare" /\ p \in upcoming
    /\ \/ /\ isSkipped(keyOf[p]) /\ fetched = {}
          /\ UNCHANGED fetcherVars
       \/ /\ ~isSkipped(keyOf[p])
          /\ prefetch(keyOf[p], fetched)
    /\ startOrder(p)
    /\ UNCHANGED <<timerVars, strayVars>>

\* The batch has ended.
gather ==
    /\ loopPhase = "gather" /\ loopPhase' = afterBatch(upcoming)
    /\ processing' = {}
    /\ UNCHANGED <<upcoming, newPoolCreated, fetcherVars, timerVars, strayVars>>

\* The round rejects with an order of the batch and the others go on.
roundThrows ==
    /\ loopPhase = "gather" /\ loopPhase' = "top"
    /\ rejected < MaxRejected /\ rejected' = rejected + 1
    /\ \E p \in processing : strays' = strays \union (processing \ {p})
    /\ processing' = {} /\ upcoming' = {}
    /\ UNCHANGED <<newPoolCreated, fetcherVars, timerVars>>
-----------------------------------------------------------------------------
(***************************************************************************)
(* Orders under way: processOrder and the trade modes ask for prices and   *)
(* trade parameters, without fetching, any number of times.                *)
(***************************************************************************)

askRouter(k) ==
    /\ \E j \in keysOf(k) : count' = [count EXCEPT ![j] = Capped(@ + 1)]
    /\ signalReset' \in {signalReset, TRUE}     \* the output was negative
    /\ UNCHANGED <<loopPhase, batchVars, known, tried, newPool, resetDue, strayVars>>

orderAsks(p) ==
    /\ p \in processing /\ askRouter(keyOf[p])
    /\ UNCHANGED strayed

strayAsks(p) ==
    /\ p \in strays /\ askRouter(keyOf[p])
    /\ strayed' = strayed \union keysOf(keyOf[p])

strayEnds(p) ==
    /\ p \in strays /\ strays' = strays \ {p}
    /\ UNCHANGED <<loopPhase, batchVars, fetcherVars, timerVars, rejected>>
-----------------------------------------------------------------------------
(***************************************************************************)
(* What happens around the loop                                            *)
(***************************************************************************)

timePasses ==
    /\ ~resetDue /\ resetDue' = TRUE
    /\ UNCHANGED <<loopPhase, batchVars, fetcherVars, newPool, signalReset, strayVars>>

createPool(k) ==
    /\ newPool' = TRUE /\ known' = known \ {k}
    /\ UNCHANGED <<loopPhase, batchVars, count, tried, strayed, signalReset, resetDue,
                   strayVars>>

mainLoopStep ==
    \/ maybeResetDataFetcher \/ resetSucceeds \/ resetFails
    \/ \E orders \in SUBSET Pairs : initializeRound(orders)
    \/ update \/ gather
    \/ \E p \in upcoming : \E fetched \in SUBSET keysOf(keyOf[p]) : prepareRouter(p, fetched)

LoopNext ==
    \/ mainLoopStep \/ roundThrows \/ timePasses
    \/ \E p \in Pairs : orderAsks(p) \/ strayAsks(p) \/ strayEnds(p)
    \/ \E k \in Keys : createPool(k)

LoopSpec == LoopInit /\ [][LoopNext]_loopVars

\* The awaits of the loop and of its orders have timeouts, and the clock goes
\* on.  An outage ends: neither the resets nor the prefetches of a pair fail
\* for ever.
loopFairness ==
    /\ WF_loopVars(mainLoopStep) /\ WF_loopVars(timePasses)
    /\ WF_loopVars(\E p \in Pairs : strayEnds(p))
    /\ SF_loopVars(resetSucceeds)
    /\ \A p \in Pairs : SF_loopVars(prepareRouter(p, keysOf(keyOf[p])))

LoopFairSpec == LoopSpec /\ loopFairness
-----------------------------------------------------------------------------
(***************************************************************************)
(* Properties                                                              *)
(***************************************************************************)

LoopTypeOK ==
    /\ loopPhase \in LoopPhases
    /\ upcoming \subseteq Pairs /\ processing \subseteq Pairs /\ strays \subseteq Pairs
    /\ count \in [Keys -> 0 .. MaxCount]
    /\ known \subseteq tried /\ tried \subseteq Keys /\ strayed \subseteq Keys
    /\ {newPool, newPoolCreated, signalReset, resetDue} \subseteq BOOLEAN
    /\ rejected \in 0 .. MaxRejected

\* An order is processed with pools that the data fetcher was asked for, its
\* own and those of its tokens in ETH, although most orders skip the prefetch
\* (prepareRouter): the counts never outlive the pool data they stand for.
\* Only the asking of orders that a rejected round left may deceive them.
ProcessedArePrepared ==
    \A p \in processing :
        keysOf(keyOf[p]) \subseteq tried \/ keyOf[p] \in strayed

\* The pools of a pair that gets its turns (NoStarvation of OwnerCursor) are
\* known again and again, whatever failed to be fetched, or was created, when
\* the key's count was full (maybeResetDataFetcher).
PoolsCatchUp ==
    \A p \in Pairs : ([]<>(p \in upcoming)) => []<>(keyOf[p] \in known)
=============================================================================
