----------------------------- MODULE TradeSize -----------------------------
(***************************************************************************)
(* findLargestTradeSize (router/sushi/index.ts): when the full amount has  *)
(* no route, or none that is worth it, the largest part of it that has is  *)
(* searched by halving steps.  findBestRouterTrade searches for a part of  *)
(* an order's output with a price of at least its ratio, getMarketPrice    *)
(* (state/index.ts) for a part of one token whose price impact is small.   *)
(*                                                                         *)
(* Amounts are in 18 decimals or in units of the token; one unit of the    *)
(* token is "scale" of the former.  Amounts that are worth it are those of *)
(* an interval, of units: a smaller one yields nothing, a larger one moves *)
(* the price too far or exceeds what the pools hold.                       *)
(***************************************************************************)
EXTENDS Integers, FiniteSets

CONSTANTS
    Steps,          \* halvings: 25 in the code
    Scales,         \* 10^(18 - decimals) of the tokens
    OneToken,       \* 10^18
    MaxFixed,       \* bound: amounts, in 18 decimals
    NoSize

ASSUME TradeSizeAssumption ==
    /\ Steps \in Nat \ {0} /\ OneToken \in Nat /\ MaxFixed \in Nat
    /\ Scales \subseteq Nat \ {0}
    /\ NoSize \notin Int

Sizes == 0 .. MaxFixed
Callers == {"order", "price"}

VARIABLES
    caller,             \* who searches
    scale,              \* of the token that is sold
    least, most,        \* the pools: the amounts that are worth it
    maximumInputFixed,  \* the argument
    maximumInput,       \* the amount tried next
    halving,            \* i of the loop
    size                \* the latest amount that was worth it, in 18 decimals

sizeVars == <<caller, scale, least, most, maximumInputFixed, maximumInput, halving, size>>

scaleFrom18(amount) == amount \div scale
scaleTo18(amount) == amount * scale

initAmount == scaleFrom18(maximumInputFixed) \div 2

\* calculateEffectivePrice of the route is at least the ratio, or its price
\* impact below the tolerance; there is a route.
isWorthIt(amount) == amount \in least .. most

\* getMarketPrice tries one token first, findBestRouterTrade all the order has.
fullAmount ==
    IF caller = "order" THEN scaleFrom18(maximumInputFixed) ELSE scaleFrom18(OneToken)

\* The result as the caller reads it: scaleFrom18 of prepareTradeParams,
\* amountIn of the second router.getMarketPrice.
amountAsked == IF caller = "order" THEN scaleFrom18(size) ELSE size

SizeInit ==
    /\ caller \in Callers /\ scale \in Scales
    /\ most \in Sizes /\ least \in 1 .. MaxFixed
    /\ IF caller = "order" THEN maximumInputFixed \in Sizes
                           ELSE maximumInputFixed = scaleFrom18(OneToken)
    /\ maximumInput = initAmount /\ halving = 1 /\ size = NoSize
    /\ ~isWorthIt(fullAmount)
-----------------------------------------------------------------------------
\* Seeded fault: the first amount that was worth it is kept.
BugKeepsFirst(amount) == IF size = NoSize THEN scaleTo18(amount) ELSE size
-----------------------------------------------------------------------------
twoTo[n \in Nat] == IF n = 0 THEN 1 ELSE 2 * twoTo[n - 1]

step == initAmount \div twoTo[halving]

found(amount) == scaleTo18(amount)

tryRoute ==
    /\ halving <= Steps
    /\ halving' = halving + 1
    /\ \/ /\ isWorthIt(maximumInput)
          /\ size' = found(maximumInput)
          /\ maximumInput' = maximumInput + step
       \/ /\ ~isWorthIt(maximumInput)
          /\ maximumInput' = maximumInput - step
          /\ UNCHANGED size
    /\ UNCHANGED <<caller, scale, least, most, maximumInputFixed>>

SizeNext == tryRoute
SizeSpec == SizeInit /\ [][SizeNext]_sizeVars

Searched == halving > Steps
-----------------------------------------------------------------------------
(***************************************************************************)
(* Properties                                                              *)
(***************************************************************************)

SizeTypeOK ==
    /\ caller \in Callers /\ scale \in Scales
    /\ most \in Sizes /\ least \in Sizes
    /\ maximumInputFixed \in Nat /\ maximumInput \in Nat
    /\ halving \in 1 .. Steps + 1 /\ size \in Nat \union {NoSize}

\* What a search below amount may miss: the step before its last try, and one
\* unit for each division before it.
Lost(amount) == (amount \div 2) \div twoTo[Steps - 1] + Steps - 1

\* What is asked for is worth it and not more than the full amount, and the
\* largest amount that is worth it exceeds it by rounding alone, if half of it
\* is still worth it.
Largest ==
    Searched /\ 2 * least <= most /\ most < fullAmount =>
        IF size = NoSize THEN most <= Lost(fullAmount)
        ELSE isWorthIt(amountAsked) /\ most <= amountAsked + Lost(fullAmount)

\* Whatever the pools hold, the search for an order finds the largest part of
\* it that can be cleared (findBestRouterTrade).
LargestIsFound == caller = "order" => Largest

\* So does the search for a price: "maximumInputFixed - The maximum input
\* amount (in 18 decimals)" (router/sushi/index.ts).
LargestIsPriced == caller = "price" => Largest
=============================================================================
