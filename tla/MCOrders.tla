------------------------------ MODULE MCOrders ------------------------------
(***************************************************************************)
(* The OrderManager side by side in three parts: whose turn it is, how     *)
(* many turns an owner has and which orders there are (OwnerCursor,        *)
(* OwnerLimits, SubgraphSync).  They share no state, so that each          *)
(* behaviour runs one of them while the others stay where they begin.      *)
(***************************************************************************)
EXTENDS OwnerCursor, OwnerLimits, SubgraphSync

CONSTANTS o1, o2, a1, a2

VARIABLE part
mcVars == <<part, vars, limitVars, syncVars>>

\* Of a part that does not run one initial state is enough.
MCInit ==
    /\ part \in {"cursor", "limits", "sync"}
    /\ Init /\ LimitsInit /\ SyncInit
    /\ part # "cursor" => total = 0 /\ limit = 1
    /\ part # "sync" => listing = << >>

runCursor(A) == part = "cursor" /\ A /\ UNCHANGED <<part, limitVars, syncVars>>
runLimits(A) == part = "limits" /\ A /\ UNCHANGED <<part, vars, syncVars>>
runSync(A) == part = "sync" /\ A /\ UNCHANGED <<part, vars, limitVars>>

MCNext == runCursor(Next) \/ runLimits(LimitsNext) \/ runSync(SyncNext)

\* The fairness of SubgraphSync.
MCFairSpec ==
    /\ MCInit /\ [][MCNext]_mcVars
    /\ WF_mcVars(runSync(solverStep)) /\ WF_mcVars(runSync(index))
    /\ SF_mcVars(runSync(pullPage))

\* The types of the three.
TypesOK == TypeOK /\ LimitsTypeOK /\ SyncTypeOK
=============================================================================
