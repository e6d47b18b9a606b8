----------------------------- MODULE MCOrderBook -----------------------------
(***************************************************************************)
(* The counterparties an order may be matched with, side by side in two    *)
(* parts: which pairs the pair maps offer (OrderBook), and which of those  *)
(* a search simulates (CounterpartyPick).  The two share no state, so that *)
(* each behaviour runs one of them while the other stays where it begins.  *)
(*                                                                         *)
(* Order o1 has two pairs, of different tokens (Apart) or of two vaults of *)
(* one token (Shared), and order o2 one of the same tokens as the first of *)
(* o1.                                                                     *)
(***************************************************************************)
EXTENDS OrderBook, CounterpartyPick

CONSTANTS o1, o2, k1, k2, k3

MCOrderOf == [p \in Pairs |-> IF p \in {1, 2} THEN o1 ELSE o2]
Apart == [p \in Pairs |-> IF p = 2 THEN "ac" ELSE "ab"]
Shared == [p \in Pairs |-> "ab"]

VARIABLE part
mcVars == <<part, vars, pickVars>>

\* Of the part that does not run one initial state is enough.
MCInit ==
    /\ part \in {"book", "pick"}
    /\ Init /\ PickInit
    /\ part # "book" => empty = {} /\ \A o \in Orders : copies[o] = 0
    /\ part # "pick" =>
         /\ orderQuote = CHOOSE q \in Quotes : TRUE
         /\ price = CHOOSE p \in Prices : TRUE
         /\ inEth = CHOOSE p \in EthPrices : TRUE
         /\ outEth = CHOOSE p \in EthPrices : TRUE
         /\ \A c \in Candidates : quoteOf[c] = NoQuote

runBook(A) == part = "book" /\ A /\ UNCHANGED <<part, pickVars>>
runPick(A) == part = "pick" /\ A /\ UNCHANGED <<part, vars>>

MCNext == runBook(Next) \/ runPick(PickNext)
MCSpec == MCInit /\ [][MCNext]_mcVars

\* The types of the two.
TypesOK == TypeOK /\ PickTypeOK
=============================================================================
