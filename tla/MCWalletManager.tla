-------------------------- MODULE MCWalletManager --------------------------
(***************************************************************************)
(* WalletManager, VaultFunding and RpcState side by side: the wallets, the *)
(* vault that the main wallet funds, and the nodes that they are read and  *)
(* funded through.  They share no state, so that each behaviour runs one   *)
(* of them while the others stay where they begin.                         *)
(***************************************************************************)
EXTENDS WalletManager, VaultFunding, RpcState

CONSTANTS q1, q2, u1, u2

WeightOne == [u \in Rpcs |-> 1]

VARIABLE part
mcVars == <<part, vars, fundVars, rpcVars>>

\* Of a part that does not run one initial state is enough.
MCInit ==
    /\ part \in {"wallets", "vault", "rpc"}
    /\ Init /\ FundInit /\ RpcInit
    /\ part # "wallets" => low = {}
    /\ part # "vault" => vault = threshold
    /\ part # "rpc" => lastUsedRpc = CHOOSE u \in Rpcs : TRUE

runWallets(A) == part = "wallets" /\ A /\ UNCHANGED <<part, fundVars, rpcVars>>
runVault(A) == part = "vault" /\ A /\ UNCHANGED <<part, vars, rpcVars>>
runRpc(A) == part = "rpc" /\ A /\ UNCHANGED <<part, vars, fundVars>>

MCNext == runWallets(Next) \/ runVault(FundNext) \/ runRpc(RpcNext)

\* The fairness of the three specifications.
MCFairSpec ==
    /\ MCInit /\ [][MCNext]_mcVars
    /\ WF_mcVars(runWallets(loopStep) \/ runVault(fundStep))
    /\ WF_mcVars(runVault(\E k \in TxKinds : mineLate(k)))
    /\ \A i \in Indexes : WF_mcVars(runWallets(settle(i))) /\ SF_mcVars(runWallets(funded(i)))
    /\ \A r \in Requests : WF_mcVars(runRpc(goOn(r)))
=============================================================================
