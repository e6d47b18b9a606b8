---------------------------- MODULE WalletManager ----------------------------
(***************************************************************************)
(* The circulation of worker wallets (wallet/index.ts) in multi-wallet     *)
(* mode.  A worker is named by its derivation index.  After each round the *)
(* main loop retries the workers that could not be funded, replaces the    *)
(* workers that are low on gas by newly derived ones, once a day retries   *)
(* the sweeps that failed and every five days sweeps the workers' tokens.  *)
(* Trades of a round may still be waiting for their receipt meanwhile.     *)
(*                                                                         *)
(* An action is what happens between two awaits that another activity can  *)
(* observe.  No write RPC, and receipts arrive within their timeout: a     *)
(* worker is busy exactly while it is in flight (the other cases are       *)
(* Signer's).                                                              *)
(***************************************************************************)
EXTENDS Integers, FiniteSets

CONSTANTS
    Count,          \* config.count: number of workers
    MaxIndex,       \* bound: highest derivation index that is handed out
    Restarts        \* may the process crash and start again

ASSUME CountAssumption == Count \in Nat \ {0}
ASSUME MaxIndexAssumption == MaxIndex \in Nat /\ Count <= MaxIndex
ASSUME RestartsAssumption == Restarts \in BOOLEAN

Indexes == 1 .. MaxIndex
NoWorker == 0
SWEEP_RETRY_COUNT == 3

VARIABLES
    signers,        \* workers.signers: workers in circulation
    pendingAdd,     \* workers.pendingAdd
    pendingRemove,  \* workers.pendingRemove: worker -> failed tries
    lastUsed,       \* workers.lastUsedDerivationIndex
    phase,          \* where the main loop is
    todo,           \* workers the phase still has to handle
    cur, step,      \* worker being handled and how far it is
    failed,         \* hadFailures of the running sweep
    low,            \* chain: workers whose gas is below 4 * avgGasCost
    holding,        \* chain: workers that hold some token
    inflight,       \* workers with a trade whose receipt is awaited
    retired,        \* history: workers assessWorkers took out
    swept,          \* history: workers whose last removal sweep succeeded
    failures,       \* history: failed removal sweeps of a worker
    late,           \* history: last token sweep ran during a trade
    orphaned        \* history: workers a restart forgot

mgr == <<signers, pendingAdd, pendingRemove, lastUsed>>
control == <<phase, todo, cur, step, failed>>
chain == <<low, holding, inflight>>
history == <<retired, swept, failures, late, orphaned>>
vars == <<mgr, control, chain, history>>

Phases == {"round", "retryAdd", "assess", "replace", "retryRemove", "sweepAll"}
Steps == {"next", "tokens", "gas", "fund"}

Pending == DOMAIN pendingRemove

\* init: whether the first funding of a worker succeeds or not, it goes into
\* circulation.
Init ==
    /\ signers = 1 .. Count
    /\ pendingAdd = {}
    /\ pendingRemove = [i \in {} |-> 0]
    /\ lastUsed = Count
    /\ phase = "round" /\ todo = {}
    /\ cur = NoWorker /\ step = "next" /\ failed = FALSE
    /\ low \in SUBSET Indexes
    /\ holding = {}
    /\ inflight = {}
    /\ retired = {} /\ swept = {} /\ late = {} /\ orphaned = {}
    /\ failures = [i \in Indexes |-> 0]
-----------------------------------------------------------------------------
(***************************************************************************)
(* fundWallet: topped up; nothing sent (main wallet low, RPC error) or the *)
(* topup reverted; or an error although the topup arrives.                 *)
(***************************************************************************)
fundWallet(i, ok) ==
    IF ok THEN low' = low \ {i} ELSE low' \in {low, low \ {i}}

(***************************************************************************)
(* Seeded faults: the mutated forms that the project's mutation runs       *)
(* substitute for the definitions below.                                   *)
(***************************************************************************)

\* A worker that could not be funded is not put on the pending list.
BugForgetsUnfunded(i) ==
    \E ok \in BOOLEAN :
        /\ fundWallet(i, ok)
        /\ signers' = IF ok THEN signers \union {i} ELSE signers
        /\ UNCHANGED pendingAdd

\* Each attempt takes the worker off the list and a second failure does not
\* put it back on.
BugRetriesOnce(i) ==
    \E ok \in BOOLEAN :
        /\ fundWallet(i, ok)
        /\ signers' = IF ok THEN signers \union {i} ELSE signers
        /\ pendingAdd' = IF ok \/ i \in pendingAdd THEN pendingAdd \ {i}
                                                   ELSE pendingAdd \union {i}

\* Given up one try early.
BugGivesUpEarly(i) ==
    IF i \in Pending /\ pendingRemove[i] + 1 >= SWEEP_RETRY_COUNT
    THEN [j \in Pending \ {i} |-> pendingRemove[j]]
    ELSE [j \in Pending \union {i} |->
            IF j # i THEN pendingRemove[j]
            ELSE IF i \in Pending THEN pendingRemove[i] + 1 ELSE 1]
-----------------------------------------------------------------------------
\* A funded worker enters circulation, another one has to wait for a retry;
\* the entry of an earlier failure stays.
tryAddWorker(i) ==
    \E ok \in BOOLEAN :
        /\ fundWallet(i, ok)
        /\ IF ok
           THEN signers' = signers \union {i} /\ UNCHANGED pendingAdd
           ELSE pendingAdd' = pendingAdd \union {i} /\ UNCHANGED signers

\* tryRemoveWorker's pending remove list after a failed sweep.
countFailure(i) ==
    IF i \in Pending /\ pendingRemove[i] >= SWEEP_RETRY_COUNT
    THEN [j \in Pending \ {i} |-> pendingRemove[j]]
    ELSE [j \in Pending \union {i} |->
            IF j # i THEN pendingRemove[j]
            ELSE IF i \in Pending THEN pendingRemove[i] + 1 ELSE 1]

\* The end of tryRemoveWorker, after sweepWallet.
noteSweep(i, error) ==
    /\ pendingRemove' = IF error THEN countFailure(i) ELSE pendingRemove
    /\ swept' = IF error THEN swept \ {i} ELSE swept \union {i}
    /\ failures' = [failures EXCEPT ![i] =
                      IF error /\ @ <= SWEEP_RETRY_COUNT THEN @ + 1 ELSE @]

\* Fault: lastUsedDerivationIndex++ instead of ++lastUsedDerivationIndex.
BugPostIncrement ==
    /\ phase = "replace" /\ step = "fund"
    /\ lastUsed' = lastUsed + 1
    /\ tryAddWorker(lastUsed)
    /\ orphaned' = orphaned \ {lastUsed}
    /\ todo' = todo \ {cur} /\ cur' = NoWorker /\ step' = "next"
    /\ UNCHANGED <<pendingRemove, phase, failed, holding, inflight,
                   retired, swept, failures, late>>
-----------------------------------------------------------------------------
(***************************************************************************)
(* The round, and what goes on in the background.                          *)
(***************************************************************************)

\* A free worker sends a trade; low on gas it may still afford one.
trade(i) ==
    /\ phase = "round"
    /\ i \in signers \ inflight
    /\ inflight' = inflight \union {i}
    /\ UNCHANGED <<mgr, control, low, holding, history>>

\* The trade is settled, in the round or long after: it used gas and may
\* have brought a bounty.
settle(i) ==
    /\ i \in inflight
    /\ inflight' = inflight \ {i}
    /\ holding' \in {holding, holding \union {i}}
    /\ low' \in {low, low \union {i}}
    /\ UNCHANGED <<mgr, control, history>>

\* runWalletOpsForRound
startWalletOps ==
    /\ phase = "round"
    /\ phase' = "retryAdd" /\ todo' = pendingAdd
    /\ UNCHANGED <<mgr, cur, step, failed, chain, history>>

retryPendingAdd(i) ==
    /\ phase = "retryAdd"
    /\ i \in todo
    /\ tryAddWorker(i)
    /\ todo' = todo \ {i}
    /\ UNCHANGED <<pendingRemove, lastUsed, phase, cur, step, failed,
                   holding, inflight, history>>

retryPendingAddDone ==
    /\ phase = "retryAdd" /\ todo = {}
    /\ phase' = "assess"
    /\ UNCHANGED <<mgr, todo, cur, step, failed, chain, history>>

(***************************************************************************)
(* assessWorkers: the workers found low on gas (a balance that could not   *)
(* be read counts as enough), then one after the other out, swept and      *)
(* replaced.                                                               *)
(***************************************************************************)
assessWorkers ==
    /\ phase = "assess"
    /\ \E removeList \in SUBSET (signers \intersect low) :
         /\ lastUsed + Cardinality(removeList) <= MaxIndex
         /\ todo' = removeList
    /\ phase' = "replace"
    /\ UNCHANGED <<mgr, cur, step, failed, chain, history>>

removeFromCirculation(i) ==
    /\ phase = "replace" /\ step = "next"
    /\ i \in todo
    /\ signers' = signers \ {i}
    /\ retired' = retired \union {i}
    /\ cur' = i /\ step' = "tokens" /\ failed' = FALSE
    /\ UNCHANGED <<pendingAdd, pendingRemove, lastUsed, phase, todo, chain,
                   swept, failures, late, orphaned>>

addReplacement ==
    /\ phase = "replace" /\ step = "fund"
    /\ lastUsed' = lastUsed + 1
    /\ tryAddWorker(lastUsed + 1)
    /\ orphaned' = orphaned \ {lastUsed + 1}
    /\ todo' = todo \ {cur} /\ cur' = NoWorker /\ step' = "next"
    /\ UNCHANGED <<pendingRemove, phase, failed, holding, inflight,
                   retired, swept, failures, late>>
-----------------------------------------------------------------------------
(***************************************************************************)
(* sweepWallet                                                             *)
(***************************************************************************)

\* The tokens: nothing held, transferred, or an error, before or after the
\* transfer took place.  transferTokenFrom does not wait for the busy flag.
sweepTokens ==
    /\ step = "tokens"
    /\ \E error \in BOOLEAN :
         /\ failed' = error
         /\ holding' \in IF error THEN {holding, holding \ {cur}}
                                  ELSE {holding \ {cur}}
    /\ late' = IF cur \in inflight THEN late \union {cur} ELSE late \ {cur}
    /\ IF phase = "sweepAll"        \* withdrawGas = false
       THEN step' = "next" /\ cur' = NoWorker /\ todo' = todo \ {cur}
       ELSE step' = "gas" /\ UNCHANGED <<cur, todo>>
    /\ UNCHANGED <<mgr, phase, low, inflight, retired, swept, failures, orphaned>>

\* The gas: a balance below the transfer's own cost is left, another one is
\* sent when the worker is free.
sweepGas ==
    /\ step = "gas"
    /\ \E error \in BOOLEAN :
         /\ \/ cur \in low /\ ~error /\ UNCHANGED low
            \/ cur \notin inflight /\ low' = low \union {cur}
            \/ error /\ UNCHANGED low
         /\ noteSweep(cur, failed \/ error)
    /\ IF phase = "replace"
       THEN step' = "fund" /\ UNCHANGED <<cur, todo>>
       ELSE step' = "next" /\ cur' = NoWorker /\ todo' = todo \ {cur}
    /\ UNCHANGED <<signers, pendingAdd, lastUsed, phase, failed, holding,
                   inflight, retired, late, orphaned>>

\* retryPendingRemoveWorkers and the five-daily sweep of the workers.
beginSweep(i) ==
    /\ phase \in {"retryRemove", "sweepAll"} /\ step = "next"
    /\ i \in todo
    /\ cur' = i /\ step' = "tokens" /\ failed' = FALSE
    /\ UNCHANGED <<mgr, phase, todo, chain, history>>

\* Whether a day, or five, have passed since the last time is left open.
nextPhase ==
    /\ phase \in {"replace", "retryRemove", "sweepAll"}
    /\ step = "next" /\ todo = {}
    /\ \/ phase = "replace" /\ phase' = "retryRemove" /\ todo' = Pending
       \/ phase \in {"replace", "retryRemove"} /\ phase' = "sweepAll" /\ todo' = signers
       \/ phase' = "round" /\ todo' = {}
    /\ UNCHANGED <<mgr, cur, step, failed, chain, history>>
-----------------------------------------------------------------------------
\* A crash and a new start: the workers 1 .. Count are in circulation again
\* and the lists are empty; what waits for a receipt goes on on the chain.
restart ==
    /\ Restarts
    /\ signers' = 1 .. Count
    /\ pendingAdd' = {}
    /\ pendingRemove' = [i \in {} |-> 0]
    /\ lastUsed' = Count
    /\ phase' = "round" /\ todo' = {}
    /\ cur' = NoWorker /\ step' = "next" /\ failed' = FALSE
    /\ low' \in {low \ funded : funded \in SUBSET (1 .. Count)}
    /\ retired' = {} /\ swept' = {} /\ late' = {}
    /\ failures' = [i \in Indexes |-> 0]
    /\ orphaned' = Count + 1 .. MaxIndex
    /\ UNCHANGED <<holding, inflight>>

\* The steps of one worker's handling.
loopStep ==
    \/ startWalletOps
    \/ (\E i \in Indexes : retryPendingAdd(i)) \/ retryPendingAddDone
    \/ assessWorkers \/ (\E i \in Indexes : removeFromCirculation(i)) \/ addReplacement
    \/ (\E i \in Indexes : beginSweep(i)) \/ sweepTokens \/ sweepGas
    \/ nextPhase

Next ==
    \/ loopStep
    \/ \E i \in Indexes : trade(i) \/ settle(i)
    \/ restart

Spec == Init /\ [][Next]_vars

(***************************************************************************)
(* Fairness: the main loop goes on (every await ends), trades settle, and  *)
(* a worker whose funding is tried again and again is funded some time.    *)
(***************************************************************************)
funded(i) == (retryPendingAdd(i) /\ i \in signers')

FairSpec ==
    /\ Spec
    /\ WF_vars(loopStep)
    /\ \A i \in Indexes : WF_vars(settle(i)) /\ SF_vars(funded(i))
-----------------------------------------------------------------------------
(***************************************************************************)
(* Properties                                                              *)
(***************************************************************************)

\* Includes that no entry of pendingRemove counts beyond the retry limit
\* (tryRemoveWorker), and that the index of a worker is one handed out.
TypeOK ==
    /\ signers \subseteq 1 .. lastUsed
    /\ pendingAdd \subseteq 1 .. lastUsed
    /\ Pending \subseteq 1 .. lastUsed
    /\ \A i \in Pending : pendingRemove[i] \in 1 .. SWEEP_RETRY_COUNT
    /\ lastUsed \in Count .. MaxIndex
    /\ phase \in Phases /\ step \in Steps /\ failed \in BOOLEAN
    /\ todo \subseteq 1 .. lastUsed
    /\ cur \in {NoWorker} \union 1 .. lastUsed
    /\ low \subseteq Indexes /\ holding \subseteq Indexes /\ inflight \subseteq Indexes
    /\ retired \subseteq Indexes /\ swept \subseteq Indexes
    /\ late \subseteq Indexes /\ orphaned \subseteq Indexes
    /\ failures \in [Indexes -> 0 .. SWEEP_RETRY_COUNT + 1]

\* assessWorkers replaces every worker it takes out, whatever fails on the
\* way: the workers in circulation or waiting for their funding are never
\* fewer than configured, but for the one that is just being replaced.
Replacing == IF phase = "replace" /\ step # "next" THEN 1 ELSE 0
FleetSize == Cardinality(signers \union pendingAdd) + Replacing >= Count

Tracked == signers \union pendingAdd \union Pending \union {cur}

\* tryRemoveWorker, retryPendingRemoveWorkers: a wallet that still holds
\* tokens stays known to the manager until its sweep failed four times,
\* unless the tokens arrived after its sweep or a restart forgot it.
NoWalletForgotten ==
    \A i \in holding \ Tracked :
        failures[i] > SWEEP_RETRY_COUNT \/ i \in late \/ i \in orphaned

\* A replacement is a wallet never used before (++lastUsedDerivationIndex
\* across assessments, retries and failures): the only way back into
\* circulation is a stale entry of the pending add list.
NoIndexReuse == signers \intersect retired \subseteq pendingAdd

\* A worker whose funding failed gets into circulation some time, or the
\* process restarts without it: retryPendingAddWorkers tries it again in every
\* round.
UnfundedEventuallyAdded ==
    \A i \in Indexes :
        [](i \in pendingAdd \ signers => <>(i \in signers \union orphaned))

\* A wallet that was taken out of circulation stays out ("Identifies wallets
\* that need to be removed from circulation and replaces them", :547).
RetiredStaysOut == signers \intersect retired = {}

\* Only wallets that still have something to sweep are on the pending remove
\* list between wallet operations (the comment of the field).
PendingRemoveUnswept == phase = "round" => Pending \intersect swept = {}

\* A disposed wallet with tokens is on the pending remove list, or its sweep
\* failed four times (the comment of the field), in-flight trades or not.
NoHoldingStranded ==
    \A i \in holding \ Tracked : failures[i] > SWEEP_RETRY_COUNT
=============================================================================
