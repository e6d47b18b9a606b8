----------------------------- MODULE OwnerCursor -----------------------------
(***************************************************************************)
(* How OrderManager shares the rounds among the pairs of one owner         *)
(* (order/index.ts, getNextRoundOrders): each round takes up to limit      *)
(* pairs of the owner's list, from lastIndex on and then from the start.   *)
(* Orders are appended and removed between rounds, and the limit is        *)
(* rescaled by downscaleProtection.                                        *)
(*                                                                         *)
(* The list is the concatenation of the takeOrders of the owner's orders;  *)
(* only its length and the positions in it matter here.                    *)
(***************************************************************************)
EXTENDS Integers, FiniteSets

CONSTANTS
    MaxLimit,       \* highest limit an owner can have
    MaxTotal        \* bound: most pairs the owner has at a time

ASSUME MaxLimitAssumption == MaxLimit \in Nat \ {0}
ASSUME MaxTotalAssumption == MaxTotal \in Nat

VARIABLES
    total,          \* number of pairs in the owner's list
    lastIndex,      \* the cursor
    limit,          \* the owner's limit
    picked,         \* positions the last round took
    age             \* history: rounds a position has been waiting, counted
                    \* from the last removal or change of the limit

vars == <<total, lastIndex, limit, picked, age>>

Positions(n) == 1 .. n
Least(a, b) == IF a <= b THEN a ELSE b

Init ==
    /\ total \in 0 .. MaxTotal
    /\ lastIndex = 0
    /\ limit \in 1 .. MaxLimit
    /\ picked = {}
    /\ age = [p \in Positions(total) |-> 0]

\* allOrders.splice(lastIndex, limit)
\* (Positions are counted from 1, the cursor from 0.)
firstSplice(n) == {p \in Positions(n) : lastIndex < p /\ p <= lastIndex + limit}

\* splice(0, remainingLimit) of what the first splice left: it took all that
\* follows the cursor, so these are positions before it.
secondSplice(n, remaining) == {p \in Positions(n) : p <= lastIndex /\ p <= remaining}

Taken(n) == Cardinality(firstSplice(n))
Remaining(n) == limit - Taken(n)

(***************************************************************************)
(* Seeded faults: the mutated forms that the project's mutation runs       *)
(* substitute for the definitions below.                                   *)
(***************************************************************************)

\* The cursor goes back to the start and forgets what the second splice took.
BugForgetsTail == IF Remaining(total) > 0 THEN 0 ELSE lastIndex + Taken(total)

\* The second splice is given the whole limit again.
BugWholeLimit ==
    IF Remaining(total) > 0 THEN firstSplice(total) \union secondSplice(total, limit)
                            ELSE firstSplice(total)

\* The cursor moves on by the limit, past the end of the list.
BugNoWrap == lastIndex + limit
-----------------------------------------------------------------------------
\* consumingOrders
Consumed ==
    IF Remaining(total) > 0 THEN firstSplice(total) \union secondSplice(total, Remaining(total))
                            ELSE firstSplice(total)

\* lastIndex after the round.
NextIndex ==
    IF Remaining(total) > 0 THEN Cardinality(secondSplice(total, Remaining(total)))
                            ELSE lastIndex + Taken(total)

getNextRoundOrders ==
    /\ picked' = Consumed
    /\ lastIndex' = NextIndex
    /\ age' = [p \in Positions(total) |-> IF p \in Consumed THEN 0 ELSE age[p] + 1]
    /\ UNCHANGED <<total, limit>>

\* A new order's pairs are appended; the cursor stays.
addOrder(pairs) ==
    /\ total + pairs <= MaxTotal
    /\ total' = total + pairs
    /\ age' = [p \in Positions(total + pairs) |->
                 IF p <= total THEN age[p] ELSE 0]
    /\ UNCHANGED <<lastIndex, limit, picked>>

\* The pairs of an order leave, whichever they are, the rest moves up and the
\* cursor stays, so some pair may miss its turn.
removeOrder(pairs) ==
    /\ pairs <= total
    /\ total' = total - pairs
    /\ age' = [p \in Positions(total - pairs) |-> 0]
    /\ picked' = {}
    /\ UNCHANGED <<lastIndex, limit>>

\* resetLimits and downscaleProtection: at least 1, at most the default.
rescaleLimit(l) ==
    /\ limit' = l
    /\ age' = [p \in Positions(total) |-> 0]
    /\ picked' = {}
    /\ UNCHANGED <<total, lastIndex>>

Next ==
    \/ getNextRoundOrders
    \/ \E pairs \in 1 .. MaxTotal : addOrder(pairs) \/ removeOrder(pairs)
    \/ \E l \in 1 .. MaxLimit : rescaleLimit(l)

Spec == Init /\ [][Next]_vars
-----------------------------------------------------------------------------
(***************************************************************************)
(* Properties                                                              *)
(***************************************************************************)

TypeOK ==
    /\ total \in 0 .. MaxTotal
    /\ lastIndex \in 0 .. MaxTotal
    /\ limit \in 1 .. MaxLimit
    /\ picked \subseteq Positions(total)
    /\ age \in [Positions(total) -> Nat]

\* A round uses up the owner's limit as far as there are pairs, never more,
\* and so takes no pair twice.
LimitUsedUp ==
    [][getNextRoundOrders => Cardinality(picked') = Least(limit, total)]_vars

\* No pair starves: wherever the cursor stands, whatever was added meanwhile,
\* a pair waits fewer than total / limit rounds for its turn (unless orders
\* are removed or the limit changes, which begins a new wait).
NoStarvation == \A p \in Positions(total) : age[p] * limit < total

\* The cursor of the next round: a lastIndex beyond the list starts over.
Cursor == IF lastIndex < total THEN lastIndex ELSE 0

\* How many pairs come before a position, going round from the cursor.
Distance(p) == IF p > Cursor THEN p - Cursor - 1 ELSE total - Cursor + p - 1

\* The inductive form of NoStarvation.
WaitInv == \A p \in Positions(total) : age[p] * limit + Distance(p) < total
=============================================================================
