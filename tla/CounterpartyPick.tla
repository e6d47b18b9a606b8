-------------------------- MODULE CounterpartyPick --------------------------
(***************************************************************************)
(* Which counterparties of one base token findBestRaindexRouterTrade       *)
(* simulates (core/modes/raindex/index.ts): they are listed in order, a    *)
(* route for the base token is awaited while other orders of the batch get *)
(* new quotes, then the Pareto optimal ones are estimated and those with   *)
(* the most profit are taken.                                              *)
(*                                                                         *)
(* The order sells for an intermediate token, which the counterparty buys  *)
(* for what the order wants.                                               *)
(***************************************************************************)
EXTENDS Integers, FiniteSets, Sequences

CONSTANTS
    Candidates,     \* pairs of the pair maps that fit
    Own,            \* those of them of the same order or owner
    ONE18,          \* fixed point
    Ratios, MaxOutputs,
    Prices,         \* of the route
    EthPrices,      \* of the order's input and output token, 0 if unknown
    NoQuote,
    Simulated       \* 3 in the code

ASSUME PickAssumption ==
    /\ Own \subseteq Candidates /\ IsFiniteSet(Candidates)
    /\ ONE18 \in Nat \ {0} /\ Simulated \in Nat
    /\ Ratios \subseteq Nat /\ MaxOutputs \subseteq Nat
    /\ Prices \subseteq Nat /\ EthPrices \subseteq Nat

Quotes == [ratio : Ratios, maxOutput : MaxOutputs]
ASSUME NoQuoteAssumption == NoQuote \notin Quotes

VARIABLES
    pickStage,      \* "list", "route", "none", "estimate", "done"
    orderQuote, inEth, outEth,
    quoteOf,        \* takeOrder.quote
    list,           \* the order of the Map of candidates
    price,          \* of the route that was found
    optimals,       \* result of getOptimalSortedList
    simulated       \* optimals that are simulated

pickVars == <<pickStage, orderQuote, inEth, outEth, quoteOf, list, price, optimals, simulated>>
pickInputs == <<orderQuote, inEth, outEth, price>>

out(c) == quoteOf[c].maxOutput
ratio(c) == quoteOf[c].ratio
HasQuote(c) == quoteOf[c] # NoQuote

\* The sequences of the elements of S that Array.sort may return.
sortings(S, before(_, _)) ==
    {q \in [1 .. Cardinality(S) -> S] :
        \A i, j \in DOMAIN q : i < j => q[i] # q[j] /\ ~before(q[j], q[i])}

inOrder(q, c, d) == \E i, j \in DOMAIN q : i < j /\ q[i] = c /\ q[j] = d

PickInit ==
    /\ pickStage = "list"
    /\ orderQuote \in Quotes /\ price \in Prices
    /\ inEth \in EthPrices /\ outEth \in EthPrices
    /\ quoteOf \in [Candidates -> Quotes \union {NoQuote}]
    /\ list = << >> /\ optimals = << >> /\ simulated = {}
-----------------------------------------------------------------------------
(***************************************************************************)
(* Seeded faults, for the mutation runs.                                   *)
(***************************************************************************)

\* The options are sorted by their output alone.
BugMostOutputFirst(c, d) == out(c) > out(d)
-----------------------------------------------------------------------------
\* sortPairList
lessRatio(c, d) ==
    \/ HasQuote(c) /\ ~HasQuote(d)
    \/ /\ HasQuote(c) /\ HasQuote(d)
       /\ ratio(c) < ratio(d) \/ (ratio(c) = ratio(d) /\ out(c) > out(d))

\* The order of getOptimalSortedList: least input, then most output.
givenAway(c) == ratio(c) * out(c)
lessInput(c, d) ==
    givenAway(c) < givenAway(d) \/ (givenAway(c) = givenAway(d) /\ out(c) > out(d))

\* Of the sorted options those with more output than all before, reversed.
paretoOpts(options) ==
    LET kept == {i \in DOMAIN options :
                    /\ out(options[i]) > 0
                    /\ \A j \in 1 .. i - 1 : out(options[j]) < out(options[i])}
        rank(i) == Cardinality({j \in kept : j >= i})
    IN [n \in 1 .. Cardinality(kept) |-> options[CHOOSE i \in kept : rank(i) = n]]

atMost(a, b) == IF a < b THEN a ELSE b

\* estimateProfit: what the order takes and gives, what the router makes of
\* it, and what the counterparty takes and gives for that.
orderWants == (orderQuote.maxOutput * orderQuote.ratio) \div ONE18
orderMaxInput(c) == atMost(out(c), orderWants)
orderMaxOutput(c) ==
    IF out(c) < orderWants /\ orderQuote.ratio # 0
      THEN (out(c) * ONE18) \div orderQuote.ratio
      ELSE orderQuote.maxOutput
routerOutput(c) == (orderMaxOutput(c) * price) \div ONE18
counterpartyWants(c) == (out(c) * ratio(c)) \div ONE18
counterpartyMaxInput(c) == atMost(routerOutput(c), counterpartyWants(c))
counterpartyMaxOutput(c) ==
    IF ratio(c) = 0 THEN out(c) ELSE (counterpartyMaxInput(c) * ONE18) \div ratio(c)

cannotTrade(c) == counterpartyMaxOutput(c) < orderMaxInput(c)

inputToEth == IF outEth = 0 \/ price = 0 THEN 0 ELSE (outEth * ONE18) \div price
outputToEth(c) == IF inEth = 0 THEN (inputToEth * ratio(c)) \div ONE18 ELSE inEth

estimateProfit(c) ==
    IF cannotTrade(c) THEN 0
    ELSE (((routerOutput(c) - counterpartyMaxInput(c)) * inputToEth) \div ONE18)
         + (((counterpartyMaxOutput(c) - orderMaxInput(c)) * outputToEth(c)) \div ONE18)

moreProfit(c, d) == estimateProfit(c) > estimateProfit(d)
-----------------------------------------------------------------------------
\* getCounterpartyOrdersAgainstBaseTokens; the Map keeps the order.
listCounterparties ==
    /\ pickStage = "list" /\ pickStage' = "route"
    /\ list' \in sortings(Candidates, lessRatio)
    /\ UNCHANGED <<pickInputs, quoteOf, optimals, simulated>>

\* tryQuote of the route, or none
routeFound ==
    /\ pickStage = "route" /\ pickStage' \in {"estimate", "none"}
    /\ UNCHANGED <<pickInputs, quoteOf, list, optimals, simulated>>

\* The counterparty is processed itself, and has its quote or none.
requote(c) ==
    /\ pickStage = "route"
    /\ quoteOf' \in [Candidates -> Quotes \union {NoQuote}]
    /\ \A d \in Candidates : quoteOf'[d] # quoteOf[d] <=> d = c
    /\ UNCHANGED <<pickStage, pickInputs, list, optimals, simulated>>

\* getOptimalSortedList and the top picks; both sorts keep what is equal in
\* the order it was in.
estimateOptimals ==
    /\ pickStage = "estimate" /\ pickStage' = "done"
    /\ LET before(c, d) == lessInput(c, d) \/ (~lessInput(d, c) /\ inOrder(list, c, d))
       IN \E options \in sortings({c \in Candidates \ Own : HasQuote(c)}, before) :
            optimals' = paretoOpts(options)
    /\ LET profitable == {c \in {optimals'[i] : i \in DOMAIN optimals'} : estimateProfit(c) > 0}
           before(c, d) == moreProfit(c, d) \/ (~moreProfit(d, c) /\ inOrder(optimals', c, d))
       IN \E sorted \in sortings(profitable, before) :
            simulated' = {sorted[i] : i \in 1 .. atMost(Simulated, Len(sorted))}
    /\ UNCHANGED <<pickInputs, quoteOf, list>>

PickNext ==
    \/ listCounterparties \/ routeFound \/ estimateOptimals
    \/ \E c \in Candidates : requote(c)

PickSpec == PickInit /\ [][PickNext]_pickVars
-----------------------------------------------------------------------------
(***************************************************************************)
(* Properties                                                              *)
(***************************************************************************)

Picked == {optimals[i] : i \in DOMAIN optimals}

PickTypeOK ==
    /\ pickStage \in {"list", "route", "none", "estimate", "done"}
    /\ orderQuote \in Quotes /\ price \in Prices
    /\ inEth \in EthPrices /\ outEth \in EthPrices
    /\ quoteOf \in [Candidates -> Quotes \union {NoQuote}]
    /\ list \in Seq(Candidates) /\ optimals \in Seq(Candidates)
    /\ simulated \subseteq Picked

\* Whatever the size of the trade, the list of optimal counterparties has one
\* that can fill it at no worse a ratio than any that can
\* (getOptimalSortedList), none that is worse than another one in both, and
\* the largest output comes first.
EverySizeServed ==
    pickStage = "done" =>
        /\ \A c \in {d \in Candidates \ Own : HasQuote(d)} :
              out(c) > 0 => \E p \in Picked : out(p) >= out(c) /\ ratio(p) <= ratio(c)
        /\ \A p, q \in Picked : p # q => (out(p) > out(q) <=> givenAway(p) > givenAway(q))
        /\ \A i, j \in DOMAIN optimals : i < j => out(optimals[i]) > out(optimals[j])

\* A counterparty whose whole output the router pays for has that much to
\* give, and no more is wanted of it: "cant trade as the counterparty max
\* output now is lower than order's max input" (estimateProfit) is not so.
TradeableIsEstimated ==
    \A p \in Picked : routerOutput(p) >= counterpartyWants(p) => ~cannotTrade(p)
=============================================================================
