----------------------------- MODULE RouteCache -----------------------------
(***************************************************************************)
(* The route cache of BalancerRouter (router/balancer/index.ts) for one    *)
(* pair of tokens.                                                         *)
(*                                                                         *)
(* A quote takes the cached routes, or fetches them from the API, and      *)
(* tries them on chain one after the other; a route that worked is moved   *)
(* to the front.  An entry is an object that every quote holds that took   *)
(* it, also after it has left the cache, and each of them goes through the *)
(* routes that it saw when it began.                                       *)
(***************************************************************************)
EXTENDS Integers, Sequences, SequencesExt

CONSTANTS
    Quoters,        \* calls of tryQuote that may overlap
    sortedRoutes,   \* the routes the API knows, best first
    Amounts,        \* values of amountIn
    MaxFetches      \* bound: entries

ASSUME RouteCacheAssumption ==
    /\ sortedRoutes \in Seq(ToSet(sortedRoutes))
    /\ sortedRoutes # <<>> /\ IsInjective(sortedRoutes)
    /\ Amounts # {} /\ MaxFetches \in Nat

NoEntry == 0        \* nothing is cached
NoWay == -1         \* a failure is cached
Entries == 1 .. MaxFetches

VARIABLES
    cached,         \* the entry under the pair's key
    valid,          \* its validUntil is to come
    fetches,        \* entries made so far
    routes,         \* route and altRoutes of each entry
    exactAmountIn,  \* and the amount they swap
    quoteStage,
    amountIn,       \* that each quote asks for
    entry,          \* the entry it holds
    allRoutes,      \* what it saw there
    tries,          \* the route it is trying
    lastWorked,     \* history: the route of each entry that worked last
    overlapped      \* history: entries that changed while a quote tried them

entryVars == <<fetches, routes, exactAmountIn, lastWorked, overlapped>>
quoteVars == <<quoteStage, amountIn, entry, allRoutes, tries>>
cacheVars == <<cached, valid>>
routeVars == <<cacheVars, entryVars, quoteVars>>

QuoteStages == {"idle", "fetching", "trying"}

\* The API answers with the best n.
BestRoutes(n) == SubSeq(sortedRoutes, 1, n)

RouteInit ==
    /\ cached = NoEntry /\ valid = FALSE /\ fetches = 0
    /\ routes = [e \in Entries |-> <<>>]
    /\ exactAmountIn = [e \in Entries |-> 0]
    /\ quoteStage = [q \in Quoters |-> "idle"]
    /\ amountIn = [q \in Quoters |-> 0]
    /\ entry = [q \in Quoters |-> NoEntry]
    /\ allRoutes = [q \in Quoters |-> <<>>]
    /\ tries = [q \in Quoters |-> 0]
    /\ lastWorked = [e \in Entries |-> 0]
    /\ overlapped = {}
-----------------------------------------------------------------------------
(***************************************************************************)
(* Seeded fault, for the mutation runs.                                    *)
(***************************************************************************)

\* The last alternative is dropped, wherever the failed route was put.
BugDropsLast(rs, i) ==
    Append(RemoveAt([rs EXCEPT ![1] = rs[i], ![i] = rs[1]], Len(rs)), rs[1])
-----------------------------------------------------------------------------
\* The i-th route worked and the ones before it failed: it changes places with
\* the first one, which goes to the end.
Reordered(rs, i) ==
    Append(RemoveAt([rs EXCEPT ![1] = rs[i], ![i] = rs[1]], i), rs[1])

goesOn(q, e, rs) ==
    /\ quoteStage' = [quoteStage EXCEPT ![q] = "trying"]
    /\ entry' = [entry EXCEPT ![q] = e]
    /\ allRoutes' = [allRoutes EXCEPT ![q] = rs]
    /\ tries' = [tries EXCEPT ![q] = 1]

\* The quote is over and its fields are of no more use.
ends(q) ==
    /\ quoteStage' = [quoteStage EXCEPT ![q] = "idle"]
    /\ entry' = [entry EXCEPT ![q] = NoEntry]
    /\ allRoutes' = [allRoutes EXCEPT ![q] = <<>>]
    /\ tries' = [tries EXCEPT ![q] = 0]
    /\ amountIn' = [amountIn EXCEPT ![q] = 0]

\* findBestRoute: an entry that is still valid answers for any amount, a valid
\* failure ends the quote, and else the API is asked.
tryQuote(q, amount) ==
    /\ quoteStage[q] = "idle"
    /\ ~(valid /\ cached = NoWay)
    /\ amountIn' = [amountIn EXCEPT ![q] = amount]
    /\ \/ /\ valid /\ goesOn(q, cached, routes[cached])
       \/ /\ ~valid
          /\ quoteStage' = [quoteStage EXCEPT ![q] = "fetching"]
          /\ UNCHANGED <<entry, allRoutes, tries>>
    /\ UNCHANGED <<cacheVars, entryVars>>

\* The API's answer replaces whatever is cached by then.
fetchSortedRoutes(q, n) ==
    /\ quoteStage[q] = "fetching" /\ fetches < MaxFetches
    /\ LET e == fetches + 1
       IN  /\ fetches' = e /\ cached' = e
           /\ routes' = [routes EXCEPT ![e] = BestRoutes(n)]
           /\ exactAmountIn' = [exactAmountIn EXCEPT ![e] = amountIn[q]]
           /\ lastWorked' = [lastWorked EXCEPT ![e] = sortedRoutes[1]]
           /\ goesOn(q, e, BestRoutes(n))
    /\ valid' = TRUE
    /\ UNCHANGED <<amountIn, overlapped>>

\* And so does its failure.
fetchFails(q) ==
    /\ quoteStage[q] = "fetching" /\ ends(q)
    /\ cached' = NoWay /\ valid' = TRUE
    /\ UNCHANGED entryVars

\* The simulation of the swap: the route is moved in the entry as it is now,
\* by its place in the routes that were seen.
routeWorks(q) ==
    LET e == entry[q]
        i == tries[q]
        worked == allRoutes[q][i]
    IN  /\ quoteStage[q] = "trying" /\ i <= Len(allRoutes[q])
        /\ routes' = IF i = 1 THEN routes
                     ELSE [routes EXCEPT ![e] = Reordered([@ EXCEPT ![i] = worked], i)]
        /\ lastWorked' = [lastWorked EXCEPT ![e] = worked]
        /\ overlapped' = IF routes[e] = allRoutes[q] THEN overlapped ELSE overlapped \union {e}
        /\ ends(q)
        /\ UNCHANGED <<cacheVars, fetches, exactAmountIn>>

\* One more try than there are routes, which fails in any case.
routeFails(q) ==
    /\ quoteStage[q] = "trying"
    /\ \/ /\ tries[q] <= Len(allRoutes[q])
          /\ tries' = [tries EXCEPT ![q] = @ + 1]
          /\ UNCHANGED <<quoteStage, amountIn, entry, allRoutes>>
       \/ tries[q] > Len(allRoutes[q]) /\ ends(q)
    /\ UNCHANGED <<cacheVars, entryVars>>

\* validUntil has come, or RainSolverRouter.reset has cleared the cache.
expire ==
    /\ valid /\ valid' = FALSE
    /\ cached' \in {cached, NoEntry}
    /\ UNCHANGED <<entryVars, quoteVars>>

RouteNext ==
    \/ expire
    \/ \E q \in Quoters :
         \/ \E amount \in Amounts : tryQuote(q, amount)
         \/ \E n \in DOMAIN sortedRoutes : fetchSortedRoutes(q, n)
         \/ fetchFails(q) \/ routeWorks(q) \/ routeFails(q)

RouteSpec == RouteInit /\ [][RouteNext]_routeVars
-----------------------------------------------------------------------------
(***************************************************************************)
(* Properties                                                              *)
(***************************************************************************)

RouteTypeOK ==
    /\ cached \in {NoEntry, NoWay} \union Entries /\ valid \in BOOLEAN
    /\ valid => cached # NoEntry
    /\ fetches \in 0 .. MaxFetches
    /\ \A e \in Entries : ToSet(routes[e]) \subseteq ToSet(sortedRoutes)
    /\ exactAmountIn \in [Entries -> Amounts \union {0}]
    /\ quoteStage \in [Quoters -> QuoteStages]
    /\ amountIn \in [Quoters -> Amounts \union {0}]
    /\ entry \in [Quoters -> {NoEntry} \union Entries]
    /\ \A q \in Quoters : tries[q] \in 0 .. Len(allRoutes[q]) + 1
    /\ overlapped \subseteq Entries

\* However many fallbacks there were, an entry has the routes that were fetched
\* for it and the one that worked last comes first (tryQuote: "so that next
\* time the working one is tried first"), unless quotes overlapped in it.
RoutesKept ==
    \A e \in 1 .. fetches \ overlapped :
        /\ routes[e][1] = lastWorked[e]
        /\ ToSet(routes[e]) = ToSet(BestRoutes(Len(routes[e])))

\* No route leaves an entry.
NoRouteLost ==
    \A e \in 1 .. fetches : ToSet(routes[e]) = ToSet(BestRoutes(Len(routes[e])))

\* A quote simulates the amount that it was asked for, with which its price is
\* calculated (tryQuote, findBestRoute).
QuoteOfAmountAsked ==
    \A q \in Quoters :
        quoteStage[q] = "trying" => exactAmountIn[entry[q]] = amountIn[q]
=============================================================================
