------------------------------ MODULE OrderBook ------------------------------
(***************************************************************************)
(* What OrderManager knows about the orders and which of them it offers as *)
(* counterparties (order/index.ts, order/pair.ts): the owners map holds    *)
(* the pairs that get their turn in the rounds, the pair maps hold the     *)
(* pairs a trade may be matched against.  Upstream events change both      *)
(* between rounds, processing an order changes the pair maps in a round,   *)
(* with up to maxConcurrency orders at a time.                             *)
(*                                                                         *)
(* Which pairs a round takes is OwnerCursor's matter: any choice here.     *)
(* oiPairMap and ioPairMap are always changed together and mirror each     *)
(* other: one map here.  One orderbook.                                    *)
(***************************************************************************)
EXTENDS Integers, FiniteSets

CONSTANTS
    Orders,         \* order hashes
    Pairs,          \* one per output and input of an order, numbered in the
                    \* sequence of getOrderPairs
    OrderOf,        \* the order of a pair
    Route,          \* the sell and buy token of a pair
    MaxConcurrency, \* appOptions.maxConcurrency
    MaxCopies,      \* bound: how often an order is decoded
    Throws          \* may processing an order reject after its quote

ASSUME PairsAssumption ==
    Pairs \subseteq Nat /\ IsFiniteSet(Pairs) /\ OrderOf \in [Pairs -> Orders]
ASSUME RouteAssumption == DOMAIN Route = Pairs
ASSUME ConcurrencyAssumption == MaxConcurrency \in Nat \ {0}
ASSUME CopiesAssumption == MaxCopies \in Nat
ASSUME ThrowsAssumption == Throws \in BOOLEAN

\* A Pair object: decoding an order again makes new ones.
Objects == [pair : Pairs, copy : 1 .. MaxCopies]
PairsOf(o) == {p \in Pairs : OrderOf[p] = o}

\* Where a pair is in the pair maps: output -> input -> orderhash -> Pair
Key(p) == <<Route[p], OrderOf[p]>>
Keys == {Key(p) : p \in Pairs}

VARIABLES
    copies,         \* how often an order was decoded
    listed,         \* ownersMap: which copy of the order's pairs, 0 = none
    pairMap,        \* oiPairMap and ioPairMap
    empty,          \* ownerTokenVaultMap: pairs whose output vault is empty
    quote,          \* takeOrder.quote of each object
    phase,          \* "sync" (between rounds) or "round"
    waiting,        \* objects the round still has to start
    slots,          \* maxConcurrencyCounter
    quoting,        \* objects whose quote is awaited
    trading,        \* objects that got a quote and look for a trade
    background,     \* quotes still awaited by a round that was given up
    outcome,        \* history: how a pair's last turn ended
    revived         \* history: entries of removed orders that a late quote
                    \* put back into the pair maps

vars == <<copies, listed, pairMap, empty, quote, phase, waiting, slots,
          quoting, trading, background, outcome, revived>>

Object(p, n) == [pair |-> p, copy |-> n]
Listed == {Object(p, listed[OrderOf[p]]) :
             p \in {q \in Pairs : listed[OrderOf[q]] > 0}}

\* addToPairMap for all pairs of an order in turn: of two pairs with one key
\* the later one stays.
Later(o, k) ==
    CHOOSE p \in PairsOf(o) : Key(p) = k /\ \A q \in PairsOf(o) : Key(q) = k => q <= p
KeysOf(o) == {Key(p) : p \in PairsOf(o)}

withOrder(m, o, n) ==
    [k \in DOMAIN m \union KeysOf(o) |->
        IF k \in KeysOf(o) THEN Object(Later(o, k), n) ELSE m[k]]

without(m, keys) == [k \in DOMAIN m \ keys |-> m[k]]
-----------------------------------------------------------------------------
(***************************************************************************)
(* Seeded faults: the mutated forms that the project's mutation runs       *)
(* substitute for the definitions below.                                   *)
(***************************************************************************)

\* The owners map is cleaned up, the pair maps are not.
BugRemovesFromOwnersOnly(o) ==
    /\ phase = "sync"
    /\ listed' = [listed EXCEPT ![o] = 0]
    /\ outcome' = [p \in Pairs |-> IF OrderOf[p] = o THEN "none" ELSE outcome[p]]
    /\ revived' = revived \ KeysOf(o)
    /\ UNCHANGED <<copies, pairMap, empty, quote, phase, waiting, slots, quoting,
                   trading, background>>

\* removeFromPairMap drops the whole list of the two tokens.
BugRemovesRoute(p) == {k \in Keys : k[1] = Route[p]}

\* The counter is carried over from round to round.
BugCarriesCounter ==
    /\ phase = "round"
    /\ waiting = {} /\ quoting = {} /\ trading = {}
    /\ phase' = "sync"
    /\ slots' = slots + MaxConcurrency
    /\ UNCHANGED <<copies, listed, pairMap, empty, quote, waiting, quoting,
                   trading, background, outcome, revived>>
-----------------------------------------------------------------------------
\* init: fetch() adds the active orders of the subgraph.
Init ==
    /\ copies \in [Orders -> IF MaxCopies > 0 THEN {0, 1} ELSE {0}]
    /\ listed = copies
    /\ pairMap = [k \in UNION {KeysOf(o) : o \in {q \in Orders : listed[q] = 1}} |->
                    Object(Later(k[2], k), 1)]
    /\ empty \in SUBSET Pairs
    /\ quote = [x \in Objects |-> "none"]
    /\ phase = "sync"
    /\ waiting = {} /\ quoting = {} /\ trading = {} /\ background = {}
    /\ slots = MaxConcurrency
    /\ outcome = [p \in Pairs |-> "none"]
    /\ revived = {}
-----------------------------------------------------------------------------
(***************************************************************************)
(* syncOrders, between the rounds.                                         *)
(***************************************************************************)

\* addOrder: a new order is listed with the pairs just decoded; a listed one
\* keeps the pairs it has.  The pair maps and the vaults take the new pairs.
addOrder(o) ==
    /\ phase = "sync"
    /\ copies[o] < MaxCopies
    /\ copies' = [copies EXCEPT ![o] = @ + 1]
    /\ listed' = [listed EXCEPT ![o] = IF @ = 0 THEN copies[o] + 1 ELSE @]
    /\ pairMap' = withOrder(pairMap, o, copies[o] + 1)
    /\ \E drained \in SUBSET PairsOf(o) : empty' = (empty \ PairsOf(o)) \union drained
    /\ UNCHANGED <<quote, phase, waiting, slots, quoting, trading, background,
                   outcome, revived>>

removeOrders(o) ==
    /\ phase = "sync"
    /\ listed' = [listed EXCEPT ![o] = 0]
    /\ pairMap' = without(pairMap, KeysOf(o))
    /\ outcome' = [p \in Pairs |-> IF OrderOf[p] = o THEN "none" ELSE outcome[p]]
    /\ revived' = revived \ KeysOf(o)
    /\ UNCHANGED <<copies, empty, quote, phase, waiting, slots, quoting, trading,
                   background>>

\* updateVault: a deposit, withdrawal or trade of somebody.
updateVault(p) ==
    /\ phase = "sync"
    /\ empty' \in {empty \union {p}, empty \ {p}}
    /\ UNCHANGED <<copies, listed, pairMap, quote, phase, waiting, slots, quoting,
                   trading, background, outcome, revived>>
-----------------------------------------------------------------------------
(***************************************************************************)
(* A round (core/process/round.ts, core/process/order.ts).                 *)
(***************************************************************************)

\* initializeRound: pairs with an empty output vault are only reported.  If
\* there is no block number nothing is processed (no waiting objects).
initializeRound ==
    /\ phase = "sync"
    /\ phase' = "round"
    /\ \E taken \in SUBSET Listed :
         /\ waiting' = {x \in taken : x.pair \notin empty}
         /\ outcome' = [p \in Pairs |->
              IF p \in empty /\ (\E x \in taken : x.pair = p) THEN "empty"
                                                              ELSE outcome[p]]
    /\ UNCHANGED <<copies, listed, pairMap, empty, quote, slots, quoting, trading,
                   background, revived>>

\* processOrderInit: the order gets a wallet and asks for its quote.
processOrderInit(x) ==
    /\ phase = "round"
    /\ x \in waiting /\ slots > 0
    /\ waiting' = waiting \ {x}
    /\ quoting' = quoting \union {x}
    /\ slots' = slots - 1
    /\ UNCHANGED <<copies, listed, pairMap, empty, quote, phase, trading, background,
                   outcome, revived>>

\* removeFromPairMaps: the entries it deletes for a pair.
removedFor(p) == {Key(p)}

goodQuote(x) ==
    /\ quote' = [quote EXCEPT ![x] = "ok"]
    /\ outcome' = [outcome EXCEPT ![x.pair] = "ok"]
    /\ pairMap' = [k \in DOMAIN pairMap \union {Key(x.pair)} |->
                     IF k = Key(x.pair) THEN x ELSE pairMap[k]]

\* Zero, or failed: the failure of an oracle leaves the old quote as it was.
badQuote(x) ==
    /\ \/ /\ quote' = [quote EXCEPT ![x] = "zero"]
          /\ outcome' = [outcome EXCEPT ![x.pair] = "zero"]
       \/ /\ quote' \in {quote, [quote EXCEPT ![x] = "none"]}
          /\ outcome' = [outcome EXCEPT ![x.pair] = "failed"]
    /\ pairMap' = without(pairMap, removedFor(x.pair))

\* The quote arrives: a good one puts the pair into the maps, another one
\* takes it out.
quoted(x) ==
    /\ x \in quoting
    /\ quoting' = quoting \ {x}
    /\ \/ goodQuote(x) /\ trading' = trading \union {x}
       \/ badQuote(x) /\ UNCHANGED trading
    /\ UNCHANGED <<copies, listed, empty, phase, waiting, slots, background, revived>>

\* The same when the round is long given up.
quotedLate(x) ==
    /\ x \in background
    /\ background' = background \ {x}
    /\ \/ /\ goodQuote(x)
          /\ revived' = IF listed[OrderOf[x.pair]] = 0 THEN revived \union {Key(x.pair)}
                                                       ELSE revived
       \/ badQuote(x) /\ UNCHANGED revived
    /\ UNCHANGED <<copies, listed, empty, phase, waiting, slots, quoting, trading>>

\* The rest of processOrder, up to its settle function.
processed(x) ==
    /\ x \in trading
    /\ trading' = trading \ {x}
    /\ UNCHANGED <<copies, listed, pairMap, empty, quote, phase, waiting, slots,
                   quoting, background, outcome, revived>>

\* A whole batch is done and there is more to do.
nextBatch ==
    /\ phase = "round"
    /\ slots = 0 /\ quoting = {} /\ trading = {}
    /\ slots' = MaxConcurrency
    /\ UNCHANGED <<copies, listed, pairMap, empty, quote, phase, waiting,
                   quoting, trading, background, outcome, revived>>

endRound ==
    /\ phase = "round"
    /\ waiting = {} /\ quoting = {} /\ trading = {}
    /\ phase' = "sync"
    /\ slots' = MaxConcurrency
    /\ UNCHANGED <<copies, listed, pairMap, empty, quote, waiting, quoting,
                   trading, background, outcome, revived>>

\* One order's processing rejects: Promise.all rejects, the round is over and
\* sync is next; the rest of the batch runs on.
roundThrows(x) ==
    /\ Throws
    /\ phase = "round"
    /\ x \in trading
    /\ waiting' = {} /\ quoting' = {} /\ trading' = {}
    /\ background' = background \union quoting
    /\ phase' = "sync"
    /\ slots' = MaxConcurrency
    /\ UNCHANGED <<copies, listed, pairMap, empty, quote, outcome, revived>>

Next ==
    \/ \E o \in Orders : addOrder(o) \/ removeOrders(o)
    \/ \E p \in Pairs : updateVault(p)
    \/ initializeRound
    \/ \E x \in Objects :
         \/ processOrderInit(x) \/ quoted(x) \/ quotedLate(x)
         \/ processed(x) \/ roundThrows(x)
    \/ nextBatch \/ endRound

Spec == Init /\ [][Next]_vars
-----------------------------------------------------------------------------
(***************************************************************************)
(* Properties                                                              *)
(***************************************************************************)

TypeOK ==
    /\ copies \in [Orders -> 0 .. MaxCopies]
    /\ listed \in [Orders -> 0 .. MaxCopies]
    /\ \A o \in Orders : listed[o] <= copies[o]
    /\ DOMAIN pairMap \subseteq Keys
    /\ \A k \in DOMAIN pairMap : pairMap[k] \in Objects /\ Key(pairMap[k].pair) = k
    /\ empty \subseteq Pairs
    /\ quote \in [Objects -> {"none", "ok", "zero"}]
    /\ phase \in {"sync", "round"}
    /\ waiting \subseteq Objects /\ quoting \subseteq Objects /\ trading \subseteq Objects
    /\ background \subseteq Objects
    /\ slots \in 0 .. MaxConcurrency
    /\ outcome \in [Pairs -> {"none", "ok", "zero", "failed", "empty"}]
    /\ revived \subseteq Keys

\* A removed order is no counterparty any more: what the pair maps offer is
\* an order of the owners map, after any mix of additions, removals and
\* concurrent quotes (removeOrders, addToPairMaps).
NoRemovedCounterparty ==
    \A k \in DOMAIN pairMap : listed[k[2]] > 0

\* The only exception: the late quote of a round that was given up puts an
\* order back that was removed meanwhile.
NoRemovedUnlessRevived ==
    \A k \in DOMAIN pairMap \ revived : listed[k[2]] > 0

\* What concurrent turns leave in the maps follows the quotes: an object with
\* a zero quote is no counterparty, and where the last quotes of all pairs of
\* an entry were good (most often it has one) there is something to match
\* against, whatever happens to the other orders meanwhile (processOrder's
\* comments on the two pair map calls).
MapsFollowQuotes ==
    /\ \A k \in DOMAIN pairMap : quote[pairMap[k]] # "zero"
    /\ \A k \in Keys :
          (\A p \in Pairs : Key(p) = k => outcome[p] = "ok") => k \in DOMAIN pairMap

\* The same for each pair, whatever pairs share its entry.
EachFollowsItsQuote == \A p \in Pairs : outcome[p] = "ok" => Key(p) \in DOMAIN pairMap

\* Both maps point to the same Pair objects (the comment of oiPairMap).
SameObjects ==
    \A k \in DOMAIN pairMap :
        pairMap[k].copy = listed[OrderOf[pairMap[k].pair]]

\* An order whose turn ended with zero output is no counterparty until it has
\* a good quote again (the comment in processOrder on removeFromPairMaps).
EmptyIsNoCounterparty ==
    \A k \in DOMAIN pairMap : outcome[pairMap[k].pair] \notin {"zero", "empty"}
=============================================================================
