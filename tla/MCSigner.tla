------------------------------ MODULE MCSigner ------------------------------
(***************************************************************************)
(* Small instances of Signer: two workers and the main wallet, an order in *)
(* the first batch, then wallet operations, then two concurrent orders in  *)
(* the next round.                                                         *)
(***************************************************************************)
EXTENDS Signer

CONSTANTS o1, o2, o3, d1, r1, main, w1, w2

\* The sweep of worker w1 (Direct), or of the main wallet when it is the
\* only wallet.
MCHome == [c \in Direct \union Raw |-> IF Workers = {} THEN main ELSE w1]

\* Batch, wallet operations one after the other, next round.
MCStage ==
    [c \in Calls |-> CASE c = o1 -> 0
                       [] c = r1 -> 1
                       [] c = d1 -> 2
                       [] OTHER -> 3]
=============================================================================
