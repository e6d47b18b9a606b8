---------------------------- MODULE SubgraphSync ----------------------------
(***************************************************************************)
(* How the solver follows the orders of one subgraph (subgraph/index.ts,   *)
(* order/sync.ts): at start it pages through the active orders, then after *)
(* each round it pages through the transactions since then and applies     *)
(* their events.  The chain and the subgraph's indexer are the             *)
(* environment; the events are those of one orderbook.                     *)
(***************************************************************************)
EXTENDS Integers, Sequences, FiniteSets, SequencesExt

CONSTANTS
    Orders,         \* order hashes
    PageSize,       \* DEFAULT_PAGE_SIZE
    MaxTx,          \* bound: transactions on the chain
    MaxTime,        \* bound: seconds
    Faults          \* what the environment may do, see below

\* "lag": the subgraph may answer before it has indexed all that is mined;
\* "sameSecond": there may be several transactions in a second, or one in the
\* second of a query;
\* "duringFetch": there may be transactions while the first fetch goes on;
\* "addFails": an order may fail to be added (a token's decimals cannot be
\* read).
AllFaults == {"lag", "sameSecond", "duringFetch", "addFails"}

ASSUME OrdersAssumption == IsFiniteSet(Orders)
ASSUME PageSizeAssumption == PageSize \in Nat \ {0}
ASSUME BoundsAssumption == MaxTx \in Nat /\ MaxTime \in Nat \ {0}
ASSUME FaultsAssumption == Faults \subseteq AllFaults

VARIABLES
    clock,          \* seconds
    mined,          \* chain: number of transactions
    active,         \* chain: the active orders
    unindexed,      \* chain: transactions the subgraph has still to index
    view,           \* subgraph: its transactions, by timestamp
    listing,        \* subgraph: its active orders, the newest first
    syncPhase,      \* what the solver does
    offset, got,    \* fetchSubgraphOrders: skip, and the orders so far
    lastFetch,      \* syncState.lastFetchTimestamp
    skip,           \* syncState.skip
    events,         \* events pulled and not yet applied
    entry,          \* syncStatus of the orderbook: which event created it
    known,          \* the orders of the OrderManager
    seen,           \* history: events pulled, in sequence
    dropped,        \* history: events pulled and never applied
    overlooked      \* history: orders with a change that no page shows, that
                    \* moved onto a page read before, or whose event was not
                    \* applied

chainVars == <<clock, mined, active, unindexed>>
subgraph == <<view, listing>>
fetch == <<offset, got, lastFetch>>
sync == <<skip, events, entry, seen, dropped, overlooked>>
syncVars == <<chainVars, subgraph, syncPhase, fetch, sync, known>>

Elements(s) == {s[i] : i \in DOMAIN s}
NoTime == 0

\* How many transactions a query with timestamp_gt lastFetch passes over, and
\* those it can return.
Old == Cardinality({i \in DOMAIN view : view[i].time <= lastFetch})
Recent == SubSeq(view, Old + 1, Len(view))

Page(s, from) ==
    SubSeq(s, from + 1, IF from + PageSize <= Len(s) THEN from + PageSize ELSE Len(s))

SyncInit ==
    /\ clock = 1
    /\ mined = 0
    /\ \E s \in {t \in [1 .. Cardinality(Orders) -> Orders] : Elements(t) = Orders} :
         \E n \in 0 .. Cardinality(Orders) : listing = SubSeq(s, 1, n)
    /\ active = Elements(listing)
    /\ unindexed = <<>> /\ view = <<>>
    /\ syncPhase = "fetching"
    /\ offset = 0 /\ got = {} /\ lastFetch = NoTime
    /\ skip = 0 /\ events = <<>> /\ entry = "none"
    /\ known = {}
    /\ seen = <<>> /\ dropped = 0 /\ overlooked = {}
-----------------------------------------------------------------------------
(***************************************************************************)
(* The environment (external).                                             *)
(***************************************************************************)
tick ==
    /\ clock < MaxTime
    /\ clock' = clock + 1
    /\ UNCHANGED <<mined, active, unindexed, subgraph, syncPhase, fetch, sync, known>>

\* A transaction, in block time: an inactive order is added or an active one
\* removed.
mine(o) ==
    /\ mined < MaxTx
    /\ syncPhase = "fetching" /\ offset > 0 => "duringFetch" \in Faults
    /\ "sameSecond" \notin Faults =>
         /\ clock > lastFetch
         /\ \A t \in Elements(view) \union Elements(unindexed) : t.time < clock
    /\ mined' = mined + 1
    /\ active' = IF o \in active THEN active \ {o} ELSE active \union {o}
    /\ unindexed' = Append(unindexed,
         [id |-> mined + 1, time |-> clock, order |-> o,
          kind |-> IF o \in active THEN "RemoveOrder" ELSE "AddOrder"])
    /\ UNCHANGED <<clock, subgraph, syncPhase, fetch, sync, known>>

\* Too late for the first fetch, too early for the sync.
Unseen(t) == IF syncPhase = "fetching" THEN offset > 0 ELSE t.time <= lastFetch

PlaceOf(o) == CHOOSE i \in DOMAIN listing : listing[i] = o

\* A removal moves the orders behind it, the first one of the next page onto a
\* page that was read.
PassedOver(t) ==
    {listing[i] : i \in {j \in DOMAIN listing :
        /\ syncPhase = "fetching" /\ j = offset + 1
        /\ t.kind = "RemoveOrder" /\ PlaceOf(t.order) <= offset}}

index ==
    /\ unindexed # <<>>
    /\ LET t == Head(unindexed) IN
         /\ view' = Append(view, t)
         /\ listing' = IF t.kind = "AddOrder" THEN <<t.order>> \o listing
                                              ELSE RemoveAt(listing, PlaceOf(t.order))
         /\ overlooked' = overlooked \union PassedOver(t)
                                     \union (IF Unseen(t) THEN {t.order} ELSE {})
    /\ unindexed' = Tail(unindexed)
    /\ UNCHANGED <<clock, mined, active, syncPhase, fetch, skip, events, entry, seen,
                   dropped, known>>

\* A query sees all that is mined, unless the subgraph lags behind.
Indexed == "lag" \in Faults \/ unindexed = <<>>

(***************************************************************************)
(* Seeded faults: the mutated forms that the project's mutation runs       *)
(* substitute for the definitions below.                                   *)
(***************************************************************************)

\* The page that failed is skipped.
BugSkipsFailedPage ==
    /\ syncPhase = "pulling"
    /\ syncPhase' = "applying"
    /\ skip' = skip + PageSize
    /\ UNCHANGED <<chainVars, subgraph, fetch, events, entry, seen, dropped, overlooked, known>>

\* The time of the fetch is moved on with each sync, the cursor stays.
BugFetchMoves ==
    /\ syncPhase = "ready"
    /\ syncPhase' = "pulling" /\ entry' = "none"
    /\ lastFetch' = clock
    /\ UNCHANGED <<chainVars, subgraph, offset, got, skip, events, seen, dropped, overlooked, known>>

\* The cursor moves to the place after the next one.
BugSkipsOneMore(page) == IF page = <<>> THEN skip ELSE skip + Len(page) + 1

-----------------------------------------------------------------------------
(***************************************************************************)
(* fetchSubgraphOrders, and addOrder for each order fetched.               *)
(***************************************************************************)

\* Which of the orders get added.
Added(orders) == IF "addFails" \in Faults THEN SUBSET orders ELSE {orders}

\* A full page: there may be more.
fetchPage ==
    /\ syncPhase = "fetching" /\ Indexed
    /\ Len(Page(listing, offset)) = PageSize
    /\ got' = got \union Elements(Page(listing, offset))
    /\ offset' = offset + PageSize
    /\ UNCHANGED <<chainVars, subgraph, syncPhase, lastFetch, sync, known>>

\* The last page: its time is the time of the whole fetch.
fetchLastPage ==
    /\ syncPhase = "fetching" /\ Indexed
    /\ Len(Page(listing, offset)) < PageSize
    /\ got' = got \union Elements(Page(listing, offset))
    /\ lastFetch' = clock
    /\ known' \in Added(got')
    /\ overlooked' = overlooked \union (got' \ known')
    /\ syncPhase' = "ready"
    /\ UNCHANGED <<chainVars, subgraph, offset, skip, events, entry, seen, dropped>>

\* A page fails (and another subgraph does not, so the solver starts): what
\* was fetched is thrown away, the events will be read from the beginning.
fetchFails ==
    /\ syncPhase = "fetching"
    /\ \A o \in active : \E t \in Elements(view) \union Elements(unindexed) :
         t.order = o /\ t.kind = "AddOrder"   \* bound: history starts with the run
    /\ got' = {}
    /\ overlooked' = {}
    /\ syncPhase' = "ready"
    /\ UNCHANGED <<chainVars, subgraph, offset, lastFetch, skip, events, entry, seen,
                   dropped, known>>
-----------------------------------------------------------------------------
(***************************************************************************)
(* getUpstreamEvents                                                       *)
(***************************************************************************)
beginSync ==
    /\ syncPhase = "ready"
    /\ syncPhase' = "pulling" /\ entry' = "none"
    /\ UNCHANGED <<chainVars, subgraph, fetch, skip, events, seen, dropped, overlooked, known>>

\* An event carries the state of its order at the time of the query.
Pulled(t) == [kind |-> t.kind, order |-> t.order, active |-> t.order \in Elements(listing)]

\* skip += txs.length
NextSkip(page) == skip + Len(page)

pullPage ==
    /\ syncPhase = "pulling" /\ Indexed
    /\ LET page == Page(Recent, skip) IN
         /\ events' = events \o [i \in 1 .. Len(page) |-> Pulled(page[i])]
         /\ seen' = seen \o [i \in 1 .. Len(page) |-> page[i].id]
         /\ skip' = NextSkip(page)
         /\ syncPhase' = IF Len(page) < PageSize THEN "applying" ELSE "pulling"
    /\ UNCHANGED <<chainVars, subgraph, fetch, entry, dropped, overlooked, known>>

pullFails ==
    /\ syncPhase = "pulling"
    /\ syncPhase' = "applying"
    /\ UNCHANGED <<chainVars, subgraph, fetch, sync, known>>
-----------------------------------------------------------------------------
(***************************************************************************)
(* syncOrders: one event after the other.                                  *)
(***************************************************************************)
IsAddition(e) == e.kind = "AddOrder" /\ e.active
IsRemoval(e) == e.kind = "RemoveOrder" /\ ~e.active

applyAddition ==
    /\ syncPhase = "applying" /\ events # <<>>
    /\ IsAddition(Head(events))
    /\ known' = known \union {Head(events).order}
    /\ entry' = IF entry = "none" THEN "AddOrder" ELSE entry
    /\ overlooked' = overlooked \ {Head(events).order}
    /\ events' = Tail(events)
    /\ UNCHANGED <<chainVars, subgraph, syncPhase, fetch, skip, seen, dropped>>

\* addOrder fails, which is noted in the orderbook's entry of the report.
additionFails ==
    /\ syncPhase = "applying" /\ events # <<>>
    /\ IsAddition(Head(events)) /\ "addFails" \in Faults
    /\ entry # "RemoveOrder"
    /\ entry' = "AddOrder"
    /\ overlooked' = overlooked \union {Head(events).order}
    /\ events' = Tail(events)
    /\ UNCHANGED <<chainVars, subgraph, syncPhase, fetch, skip, seen, dropped, known>>

\* An entry made by a removal has no failedAdds: noting the failure throws,
\* out of syncOrders and past the events that are left.
additionThrows ==
    /\ syncPhase = "applying" /\ events # <<>>
    /\ IsAddition(Head(events)) /\ "addFails" \in Faults
    /\ entry = "RemoveOrder"
    /\ dropped' = dropped + Len(events) - 1
    /\ overlooked' = overlooked \union {e.order : e \in Elements(events)}
    /\ events' = <<>>
    /\ syncPhase' = "ready"
    /\ UNCHANGED <<chainVars, subgraph, fetch, skip, entry, seen, known>>

applyRemoval ==
    /\ syncPhase = "applying" /\ events # <<>>
    /\ IsRemoval(Head(events))
    /\ known' = known \ {Head(events).order}
    /\ entry' = IF entry = "none" THEN "RemoveOrder" ELSE entry
    /\ overlooked' = overlooked \ {Head(events).order}
    /\ events' = Tail(events)
    /\ UNCHANGED <<chainVars, subgraph, syncPhase, fetch, skip, seen, dropped>>

\* The order was removed or added again since: a later event tells.
ignoreEvent ==
    /\ syncPhase = "applying" /\ events # <<>>
    /\ ~IsAddition(Head(events)) /\ ~IsRemoval(Head(events))
    /\ events' = Tail(events)
    /\ UNCHANGED <<chainVars, subgraph, syncPhase, fetch, skip, entry, seen, dropped, overlooked, known>>

endSync ==
    /\ syncPhase = "applying" /\ events = <<>>
    /\ syncPhase' = "ready"
    /\ UNCHANGED <<chainVars, subgraph, fetch, sync, known>>

solverStep ==
    \/ fetchPage \/ fetchLastPage \/ fetchFails
    \/ beginSync \/ pullPage \/ pullFails
    \/ applyAddition \/ additionFails \/ additionThrows \/ applyRemoval
    \/ ignoreEvent \/ endSync

SyncNext == tick \/ (\E o \in Orders : mine(o)) \/ index \/ solverStep

SyncSpec == SyncInit /\ [][SyncNext]_syncVars

(***************************************************************************)
(* Fairness: the main loop syncs after every round, a subgraph that is     *)
(* asked again and again answers some time, and it indexes what is mined.  *)
(***************************************************************************)
SyncFairSpec == SyncSpec /\ WF_syncVars(solverStep) /\ SF_syncVars(pullPage) /\ WF_syncVars(index)
-----------------------------------------------------------------------------
(***************************************************************************)
(* Properties                                                              *)
(***************************************************************************)
Tx == [id : 1 .. MaxTx, time : 1 .. MaxTime, order : Orders,
       kind : {"AddOrder", "RemoveOrder"}]
Event == [kind : {"AddOrder", "RemoveOrder"}, order : Orders, active : BOOLEAN]

SyncTypeOK ==
    /\ clock \in 1 .. MaxTime /\ mined \in 0 .. MaxTx
    /\ active \subseteq Orders
    /\ Elements(unindexed) \subseteq Tx /\ Elements(view) \subseteq Tx
    /\ Elements(listing) \subseteq Orders
    /\ syncPhase \in {"fetching", "ready", "pulling", "applying"}
    /\ offset \in Nat /\ got \subseteq Orders /\ known \subseteq Orders
    /\ lastFetch \in 0 .. MaxTime
    /\ skip \in 0 .. MaxTx
    /\ Elements(events) \subseteq Event
    /\ entry \in {"none", "AddOrder", "RemoveOrder"}
    /\ Elements(seen) \subseteq 1 .. MaxTx /\ dropped \in Nat
    /\ overlooked \subseteq Orders

\* The transactions of the subgraph as a log, whose place lastFetchTimestamp
\* sets and skip counts from.
Log == INSTANCE EventLog WITH
           Entries   <- 1 .. MaxTx,
           log       <- [i \in DOMAIN view |-> view[i].id],
           following <- syncPhase # "fetching",
           start     <- Old,
           read      <- seen

\* The sync follows the log, over pages, failed pages and rounds: its place does
\* not move once an event was read, although lastFetchTimestamp and skip, which
\* keep it, are set by different functions (fetchSubgraphOrders,
\* getUpstreamEvents), and what is read is always what comes next.
ImplementsEventLog == Log!LogSpec

\* In the code's own numbers: what was pulled are the first skip transactions
\* of those that the query can return (syncState.skip).
PulledOnceInOrder ==
    seen = [i \in 1 .. skip |-> Recent[i].id]

\* Nothing is left to be pulled or applied.
CaughtUp ==
    /\ syncPhase = "ready"
    /\ unindexed = <<>>
    /\ skip = Len(Recent)

\* A solver that has caught up knows exactly the active orders, although an
\* event shows the order's state at the time of the query and not at the
\* time of the event, pages fail, and fetch and sync ask different questions.
\* The exceptions are the orders whose change fell between the fetch and the
\* sync, those that a removal moved onto a page that was read, and those that
\* could not be added, until their next event.
Agrees == \A o \in Orders \ overlooked : o \in known <=> o \in active
Converged == CaughtUp => Agrees

\* When the chain calms down the solver gets there.
EventuallyInSync == <>[]Agrees

\* The same without exceptions ("Syncs orders and vaults to upstream changes
\* since the last fetch").
NothingMissed == CaughtUp => known = active

\* An order that was active all along is known when the fetch is over
\* (fetchSubgraphOrders: "Fetches details of all orders that are active").
ActiveAreFetched ==
    syncPhase = "ready" /\ lastFetch # NoTime =>
        \A o \in active : o \in known \/ \E t \in Elements(view) \union Elements(unindexed) : t.order = o

\* Events that were fetched are applied, in this round or the next ("Failed
\* to sync orders to upstream, will try again next round").
NoEventDropped == dropped = 0
=============================================================================
