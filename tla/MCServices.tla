----------------------------- MODULE MCServices -----------------------------
(***************************************************************************)
(* What all orders of a round rest on, side by side: the pool data of the  *)
(* routers, the gas price and the health of an oracle (MainLoop,           *)
(* GasManager, OracleHealth).  They share no state, so that each behaviour *)
(* runs one of them while the others stay where they begin.                *)
(*                                                                         *)
(* The pairs of the loop sell ta for tb and ta for ETH, so that the second *)
(* key is also that of the price of the first one's token.                 *)
(***************************************************************************)
EXTENDS MainLoop, GasManager, OracleHealth

CONSTANTS ta_tb, ta_eth, m1, m2, q1, q2

TwoPairs == {m1, m2}
TwoKeys == {ta_tb, ta_eth}
OnePairEach == [p \in TwoPairs |-> IF p = m1 THEN ta_tb ELSE ta_eth]
OfSellToken == [k \in TwoKeys |-> {ta_eth}]

VARIABLE service
mcVars == <<service, loopVars, gasVars, oracleVars>>

MCInit ==
    /\ LoopInit /\ GasInit /\ OracleInit
    /\ service \in {"loop", "gas", "oracle"}

runLoop(A) == service = "loop" /\ A /\ UNCHANGED <<service, gasVars, oracleVars>>
runGas(A) == service = "gas" /\ A /\ UNCHANGED <<service, loopVars, oracleVars>>
runOracle(A) == service = "oracle" /\ A /\ UNCHANGED <<service, loopVars, gasVars>>

MCNext == runLoop(LoopNext) \/ runGas(GasNext) \/ runOracle(OracleNext)

\* The fairness of MainLoop.
MCFairSpec ==
    /\ MCInit /\ [][MCNext]_mcVars
    /\ WF_mcVars(runLoop(mainLoopStep)) /\ WF_mcVars(runLoop(timePasses))
    /\ WF_mcVars(runLoop(\E p \in Pairs : strayEnds(p)))
    /\ SF_mcVars(runLoop(resetSucceeds))
    /\ \A p \in Pairs : SF_mcVars(runLoop(prepareRouter(p, keysOf(keyOf[p]))))

\* The types of the three.
TypesOK == LoopTypeOK /\ GasType /\ OracleType
=============================================================================
