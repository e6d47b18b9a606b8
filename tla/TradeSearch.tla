----------------------------- MODULE TradeSearch -----------------------------
(***************************************************************************)
(* The search for the best trade of one order (core/modes) and the life of *)
(* the transaction it finds.  findBestTrade runs the enabled trade types   *)
(* at once; each simulates one transaction per counterparty: set the       *)
(* bounty task, dry run, again with the gas cost as minimum, and set the   *)
(* task a last time.  Meanwhile the gas price watcher, the other orders of *)
(* the batch (their quotes) and the other transactions of the same wallet  *)
(* change what the simulations read.                                       *)
(*                                                                         *)
(* Amounts are small integers in one currency.  Which quotes counterparties*)
(* have is OrderBook's matter, the routes that are found are the routers'. *)
(***************************************************************************)
EXTENDS Integers, FiniteSets

CONSTANTS
    Counterparties, \* orders that buy what this one sells
    NoOrder,        \* the counterparty of a trade with a router
    TopPicks,       \* simulated counterparties per trade type: 3 in the code
    OwnTypes,       \* configurations of orderbookTradeTypes: of the order's
    OtherTypes,     \* orderbook, of the one that "inter" looks into
    Coverages,      \* values of gasCoveragePercentage
    Headroom,       \* appOptions.headroom (100 is already added)
    GasMultiplier,  \* appOptions.gasLimitMultiplier
    GasEstimates,   \* answers of eth_estimateGas
    GasPrices,      \* gas prices the watcher may report
    Profits,        \* values of estimateProfit
    Bounties,       \* what a trade brings when it is mined
    MaxOthers       \* bound: other trades of the wallet that get mined

ASSUME CounterpartiesAssumption == NoOrder \notin Counterparties
ASSUME PicksAssumption == TopPicks \in Nat
ASSUME SettingsAssumption ==
    /\ Coverages \subseteq Nat
    /\ Headroom \in Nat /\ Headroom >= 100
    /\ GasMultiplier \in Nat
ASSUME NumbersAssumption ==
    /\ GasEstimates \subseteq Nat
    /\ GasPrices \subseteq Nat
    /\ Profits \subseteq Int
    /\ Bounties \subseteq Nat
    /\ MaxOthers \in Nat

Modes == {"router", "intra", "inter", "raindex"}
ASSUME TypesAssumption == OwnTypes \subseteq SUBSET Modes /\ OtherTypes \subseteq SUBSET Modes

\* A simulation is one trade type against one counterparty.
Sims == {<<"router", NoOrder>>} \union ((Modes \ {"router"}) \X Counterparties)
ModeOf(s) == s[1]
SimsOf(m) == {s \in Sims : ModeOf(s) = m}

VARIABLES
    types,          \* orderbookTradeTypes of the two orderbooks
    coverage,       \* gasCoveragePercentage
    gasPrice,       \* state.gasPrice
    quoted,         \* counterparties with a takeOrder.quote
    others,         \* what other trades of the wallet brought so far
    listed,         \* counterparties that "intra" found before it awaits
    org,            \* the balance that "intra" read
    mode,           \* where each trade type is
    sim,            \* where each simulation is and its rawtx
    result,         \* of findBestTrade
    pick,           \* the trade found
    bounty          \* what the mined trade brought

vars == <<types, coverage, gasPrice, quoted, others, listed, org, mode, sim,
          result, pick, bounty>>
intraVars == <<listed, org>>
searchVars == <<mode, sim, result, pick>>
config == <<types, coverage>>
outside == <<gasPrice, quoted, others>>

NoSim == [at |-> "idle", turn |-> 1, full |-> TRUE, price |-> 0, seen |-> 0,
          gas |-> 0, cost |-> 0, was |-> 0, min |-> 0, tried |-> 0, profit |-> 0]
Failed == [NoSim EXCEPT !.at = "err"]

Init ==
    /\ types \in [own : OwnTypes, other : OtherTypes]
    /\ coverage \in Coverages
    /\ gasPrice \in GasPrices
    /\ quoted \in SUBSET Counterparties
    /\ others = 0 /\ listed = {} /\ org = 0 /\ bounty = 0
    /\ mode = [m \in Modes |-> "idle"]
    /\ sim = [s \in Sims |-> NoSim]
    /\ result = "idle"
    /\ pick = <<"router", NoOrder>>
-----------------------------------------------------------------------------
(***************************************************************************)
(* Seeded faults: the mutated forms that the project's mutation runs       *)
(* substitute for the definitions below.                                   *)
(***************************************************************************)

\* The task of the second dry run still has no minimum.
BugDryRunsWithoutMinimum(turn, cost) ==
    IF turn = 3 THEN (cost * coverage) \div 100 ELSE 0

\* The list is sorted ascending.
BugSortsAscending(S) == {s \in S : \A t \in S : sim[t].profit >= sim[s].profit}

\* The cost is that of the estimate, the limit of rawtx is higher.
BugCostOfEstimate(s, estimate) ==
    LET limit == (estimate * GasMultiplier) \div 100
    IN /\ limit > 0
       /\ sim' = [sim EXCEPT ![s].at = "task", ![s].turn = @ + 1, ![s].gas = limit,
                             ![s].was = sim[s].cost, ![s].cost = estimate * sim[s].seen,
                             ![s].tried = sim[s].min]

\* An estimate of zero is taken for a success.
BugTakesZeroGas(s, estimate) ==
    LET limit == (estimate * GasMultiplier) \div 100
    IN sim' = [sim EXCEPT ![s].at = "task", ![s].turn = @ + 1, ![s].gas = limit,
                          ![s].was = sim[s].cost, ![s].cost = limit * sim[s].seen,
                          ![s].tried = sim[s].min]

-----------------------------------------------------------------------------
\* getEnabledTradeTypeFunctions: an orderbook that is not configured has all.
enabledTypes(configured) == IF configured = {} THEN Modes ELSE configured

\* isInterObTradeEnabledForCounterparty
interEnabledForCounterparty ==
    \/ "inter" \in types.other
    \/ types.other \intersect {"router", "intra", "inter"} = {}

\* What each trade type awaits first.
FirstWait == [router |-> "simulating", intra |-> "balance",
              raindex |-> "routing", inter |-> "listing"]

\* prepareTradeParams reads the gas price of rawtx.
prepared == [NoSim EXCEPT !.at = "task", !.price = gasPrice]

\* The simulations that begin for the first TopPicks of the sorted list, any
\* of the candidates; one that has no quote (any more) fails at once, and a
\* trade type without candidates is done.
begin(m, candidates) ==
    \E top \in SUBSET candidates :
        /\ Cardinality(top) <= TopPicks
        /\ Cardinality(top) < TopPicks => top = candidates
        /\ mode' = [mode EXCEPT ![m] = "simulating"]
        /\ sim' = [s \in Sims |->
              IF ModeOf(s) # m \/ s[2] \notin top THEN sim[s]
              ELSE IF s[2] \in quoted THEN prepared ELSE Failed]

\* minimumExpected of the three calls of setTransactionData.
minimumExpected(turn, cost) ==
    CASE turn = 1 -> 0
      [] turn = 2 -> (cost * coverage * Headroom) \div 10000
      [] turn = 3 -> (cost * coverage) \div 100

\* After the first dry run when no gas has to be covered, else after the task
\* was set for the third time.
AtEnd(s) ==
    /\ sim[s].at = "task"
    /\ sim[s].turn = (IF coverage = 0 THEN 2 ELSE 3)

\* results.sort: the highest estimated profit first.
best(S) == {s \in S : \A t \in S : sim[t].profit <= sim[s].profit}

Succeeded(m) == {s \in SimsOf(m) : sim[s].at = "ok"}
Done(m) ==
    \/ mode[m] = "failed"
    \/ mode[m] = "simulating" /\ \A s \in SimsOf(m) : sim[s].at \in {"idle", "ok", "err"}
-----------------------------------------------------------------------------
(***************************************************************************)
(* findBestTrade: all enabled trade types start in the same turn of the    *)
(* event loop.  One whose contracts are not configured ends at once, so    *)
(* does "router" without a price of the native token.                      *)
(***************************************************************************)
findBestTrade ==
    /\ result = "idle"
    /\ result' = "searching"
    /\ \E on \in SUBSET enabledTypes(types.own) :
         /\ mode' = [m \in Modes |-> IF m \in on THEN FirstWait[m] ELSE "failed"]
         /\ sim' = [s \in Sims |->
               IF s = <<"router", NoOrder>> /\ "router" \in on
                 THEN [prepared EXCEPT !.at = "route"] ELSE NoSim]
         /\ IF "intra" \in on THEN listed' \in SUBSET quoted
                              ELSE UNCHANGED listed
    /\ UNCHANGED <<config, outside, org, pick, bounty>>

\* findBestInterOrderbookTrade reaches its simulations without an await.
startInter ==
    /\ mode["inter"] = "listing"
    /\ begin("inter", IF interEnabledForCounterparty THEN quoted ELSE {})
    /\ UNCHANGED <<config, outside, intraVars, result, pick, bounty>>

\* findBestIntraOrderbookTrade lists the counterparties whose ratio fits,
\* then awaits the wallet's balances; a quote may be lost meanwhile.
startIntra ==
    /\ mode["intra"] = "balance"
    /\ \/ begin("intra", listed) /\ org' = others
       \/ mode' = [mode EXCEPT !["intra"] = "failed"] /\ UNCHANGED <<sim, org>>
    /\ listed' = {}
    /\ UNCHANGED <<config, outside, result, pick, bounty>>

\* findBestRaindexRouterTrade awaits a route per base token, then lists the
\* counterparties that it estimates a profit with.
startRaindex ==
    /\ mode["raindex"] = "routing"
    /\ \E profitable \in SUBSET quoted : begin("raindex", profitable)
    /\ UNCHANGED <<config, outside, intraVars, result, pick, bounty>>
-----------------------------------------------------------------------------
(***************************************************************************)
(* trySimulateTrade                                                        *)
(***************************************************************************)

\* RouterTradeSimulator.prepareTradeParams: a route at or above the order's
\* ratio and contracts for its type, or the end of this simulation.
prepareTradeParams(s) ==
    /\ sim[s].at = "route"
    /\ sim' \in {[sim EXCEPT ![s].at = "task"], [sim EXCEPT ![s] = Failed]}
    /\ UNCHANGED <<config, outside, intraVars, mode, result, pick, bounty>>

\* findBestRouterTrade: no route, or a worse ratio, for the full size; there
\* is a part of it that is worth the same from the start.
tryPartialSize(s) ==
    /\ sim[s].at = "route" /\ sim[s].full
    /\ sim' = [sim EXCEPT ![s] = [prepared EXCEPT !.at = "route", !.full = FALSE]]
    /\ UNCHANGED <<config, outside, intraVars, mode, result, pick, bounty>>

\* setTransactionData, then the call of dryrun, which takes the gas price.
setTransactionData(s) ==
    /\ sim[s].at = "task" /\ ~AtEnd(s)
    /\ \/ sim' = [sim EXCEPT ![s].at = "dryrun", ![s].seen = gasPrice,
                             ![s].min = minimumExpected(sim[s].turn, sim[s].cost)]
       \/ sim' = [sim EXCEPT ![s] = Failed]
    /\ UNCHANGED <<config, outside, intraVars, mode, result, pick, bounty>>

\* dryrun: the gas limit is set and the cost is what the limit costs.
dryrunPasses(s, estimate) ==
    LET limit == (estimate * GasMultiplier) \div 100
    IN /\ limit > 0
       /\ sim' = [sim EXCEPT ![s].at = "task", ![s].turn = @ + 1, ![s].gas = limit,
                             ![s].was = sim[s].cost, ![s].cost = limit * sim[s].seen,
                             ![s].tried = sim[s].min]

dryrun(s) ==
    /\ sim[s].at = "dryrun"
    /\ \/ \E estimate \in GasEstimates : dryrunPasses(s, estimate)
       \/ sim' = [sim EXCEPT ![s] = Failed]
    /\ UNCHANGED <<config, outside, intraVars, mode, result, pick, bounty>>

\* estimateProfit of "intra" and "inter" reads the counterparty's quote.
NeedsQuote(s) == ModeOf(s) \in {"intra", "inter"}

finishSim(s) ==
    /\ AtEnd(s)
    /\ \/ /\ NeedsQuote(s) => s[2] \in quoted
          /\ \E profit \in Profits :
               sim' = [sim EXCEPT ![s].at = "ok", ![s].profit = profit,
                                  ![s].min = IF coverage = 0 THEN @
                                             ELSE minimumExpected(3, sim[s].cost)]
       \/ coverage # 0 /\ sim' = [sim EXCEPT ![s] = Failed]
    /\ UNCHANGED <<config, outside, intraVars, mode, result, pick, bounty>>

\* There is no quote to read: the simulation rejects and so does the search.
estimateProfitThrows(s) ==
    /\ result = "searching"
    /\ AtEnd(s)
    /\ NeedsQuote(s) /\ s[2] \notin quoted
    /\ sim' = [sim EXCEPT ![s] = Failed]
    /\ result' = "rejected"
    /\ UNCHANGED <<config, outside, intraVars, mode, pick, bounty>>

\* All trade types have answered: the best of each, and of these the best.
pickBest ==
    /\ result = "searching"
    /\ \A m \in Modes : Done(m)
    /\ LET found == {m \in Modes : Succeeded(m) # {}}
       IN IF found = {}
            THEN result' = "none" /\ UNCHANGED pick
            ELSE /\ \E choice \in [found -> Sims] :
                      /\ \A m \in found : choice[m] \in best(Succeeded(m))
                      /\ pick' \in best({choice[m] : m \in found})
                 /\ result' = "found"
    /\ UNCHANGED <<config, outside, intraVars, mode, sim, bounty>>
-----------------------------------------------------------------------------
(***************************************************************************)
(* The transaction is sent when the wallet is free, and mined: the bounty  *)
(* task decides (tasks/ensure-bounty.rain, withdraw-ensure-bounty.rain).   *)
(***************************************************************************)
EnsureBounty(b) ==
    IF ModeOf(pick) = "intra" THEN others + b - org > sim[pick].min
                              ELSE b > sim[pick].min

mined ==
    /\ result = "found"
    /\ \E b \in Bounties :
         IF coverage = 0 \/ EnsureBounty(b)
           THEN result' = "cleared" /\ bounty' = b
           ELSE result' = "reverted" /\ UNCHANGED bounty
    /\ UNCHANGED <<config, outside, intraVars, mode, sim, pick>>

\* The gas price watcher.
watchGasPrice ==
    /\ result = "searching"
    /\ gasPrice' \in GasPrices \ {gasPrice}
    /\ UNCHANGED <<config, quoted, others, intraVars, searchVars, bounty>>

\* Another order of the batch is the counterparty and gets its quote, or not.
quoteCounterparty(c) ==
    /\ result = "searching"
    /\ quoted' \in {quoted \union {c}, quoted \ {c}} \ {quoted}
    /\ UNCHANGED <<config, gasPrice, others, intraVars, searchVars, bounty>>

\* Another trade of the same wallet, sent for another order, is mined.
otherTradeMined ==
    /\ others < MaxOthers
    /\ result \in {"searching", "found"}
    /\ \E b \in Bounties \ {0} : others' = others + b
    /\ UNCHANGED <<config, gasPrice, quoted, intraVars, searchVars, bounty>>

searchStep ==
    \/ startInter \/ startIntra \/ startRaindex
    \/ \E s \in Sims :
         \/ prepareTradeParams(s) \/ tryPartialSize(s)
         \/ setTransactionData(s) \/ dryrun(s)
         \/ finishSim(s) \/ estimateProfitThrows(s)
    \/ pickBest

Next ==
    \/ findBestTrade
    \/ result = "searching" /\ searchStep
    \/ mined
    \/ watchGasPrice
    \/ \E c \in Counterparties : quoteCounterparty(c)
    \/ otherTradeMined

Spec == Init /\ [][Next]_vars
FairSpec == Spec /\ WF_vars(result = "searching" /\ searchStep)
-----------------------------------------------------------------------------
(***************************************************************************)
(* Properties                                                              *)
(***************************************************************************)

SimType ==
    [at : {"idle", "route", "task", "dryrun", "ok", "err"}, turn : 1 .. 3,
     full : BOOLEAN, price : Nat, seen : Nat, gas : Nat, cost : Nat, was : Nat,
     min : Nat, tried : Nat, profit : Int]

\* The types of the variables; a transaction that is found has a gas limit
\* (the check of dryrun for an estimate of zero).
TypeOK ==
    /\ types \in [own : OwnTypes, other : OtherTypes] /\ coverage \in Coverages
    /\ gasPrice \in GasPrices /\ quoted \subseteq Counterparties
    /\ listed \subseteq Counterparties /\ others \in Nat /\ org \in Nat /\ bounty \in Nat
    /\ mode \in [Modes -> {"idle", "failed", "simulating", "balance", "routing", "listing"}]
    /\ sim \in [Sims -> SimType]
    /\ \A s \in Sims : sim[s].at = "ok" => sim[s].gas > 0
    /\ result \in {"idle", "searching", "found", "none", "rejected", "cleared", "reverted"}
    /\ pick \in Sims

\* The final transaction is not dry run again, so its minimum should not be
\* above the one of the last dry run: it is only when the second estimate
\* cost more than the first one (the headroom of trySimulateTrade).
FinalMinWasSimulated ==
    result \in {"found", "cleared", "reverted"} =>
        \/ sim[pick].min <= sim[pick].tried
        \/ sim[pick].cost > sim[pick].was

Pays == 100 * bounty >= coverage * sim[pick].gas * sim[pick].price

\* A trade that clears brings gasCoveragePercentage of all the gas it may use
\* (config.example.yaml:98, README.md:8).
ClearedPaysForGas == result = "cleared" => Pays

\* It does, unless what the simulation read was out of date: the gas price
\* fell between the two places that read it, or other trades of the wallet
\* moved the balance that "intra" compares with.
UnderpaysOnlyWhenStale ==
    result = "cleared" /\ ~Pays =>
        \/ sim[pick].seen < sim[pick].price
        \/ ModeOf(pick) = "intra" /\ others > org

\* Of all simulations that succeeded, over all trade types, none estimated
\* more than the one that is sent.
BestIsPicked ==
    result = "found" =>
        /\ sim[pick].at = "ok"
        /\ \A s \in Sims : sim[s].at = "ok" => sim[s].profit <= sim[pick].profit

\* "Both order and counterparty order should have enabled inter-orderbook
\* trade type" (the comment of isInterObTradeEnabledForCounterparty).
InterNeedsBothSides ==
    \A s \in SimsOf("inter") : sim[s].at # "idle" => "inter" \in enabledTypes(types.other)

\* The search returns a result; the simulations assert that the counterparty
\* has a quote (intra/simulation.ts, inter/simulate.ts: quote!).
NeverRejects == result # "rejected"
=============================================================================
