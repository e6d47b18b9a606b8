--------------------------- MODULE MCTradeSearch ---------------------------
(***************************************************************************)
(* TradeSearch, and what it rests on, side by side: the routes of one      *)
(* router (RouteCache) and the part of an order that has a route           *)
(* (TradeSize).  They share no state, so that each behaviour runs one of   *)
(* them while the others stay where they begin.                            *)
(*                                                                         *)
(* Instances of TradeSearch: "intra" and "inter", which read quotes of     *)
(* counterparties, at once, the two others alone; the other orderbook is   *)
(* configured for "raindex" alone.                                         *)
(***************************************************************************)
EXTENDS TradeSearch, TradeSize, RouteCache

EnabledTypes == {{"intra", "inter"}, {"router"}, {"raindex"}}
RaindexOnly == {{"raindex"}}

CONSTANTS ra, rb, rc
ThreeRoutes == <<ra, rb, rc>>

VARIABLE part
mcVars == <<part, vars, sizeVars, routeVars>>

\* Of a part that does not run one initial state is enough.
MCInit ==
    /\ part \in {"search", "size", "routes"}
    /\ Init /\ SizeInit /\ RouteInit
    /\ part # "search" =>
         /\ types = CHOOSE t \in [own : OwnTypes, other : OtherTypes] : TRUE
         /\ coverage = 0 /\ quoted = {} /\ gasPrice = CHOOSE p \in GasPrices : TRUE
    /\ part # "size" =>
         /\ caller = "order" /\ maximumInputFixed = 0 /\ scale = 1
         /\ least = 1 /\ most = 0

runSearch(A) == part = "search" /\ A /\ UNCHANGED <<part, sizeVars, routeVars>>
runSize(A) == part = "size" /\ A /\ UNCHANGED <<part, vars, routeVars>>
runRoutes(A) == part = "routes" /\ A /\ UNCHANGED <<part, vars, sizeVars>>

MCNext == runSearch(Next) \/ runSize(SizeNext) \/ runRoutes(RouteNext)
MCSpec == MCInit /\ [][MCNext]_mcVars

\* The types of the three.
TypesOK == TypeOK /\ SizeTypeOK /\ RouteTypeOK
=============================================================================
