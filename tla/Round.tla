------------------------------- MODULE Round -------------------------------
(***************************************************************************)
(* The rounds of the solver (core/process/): the pairs of a round are      *)
(* taken one after the other, started as soon as the routers know their    *)
(* tokens, awaited in batches, and reported at the end.  A transaction     *)
(* that was sent is not awaited: its receipt frees the wallet and counts   *)
(* its gas while the batch, the round and the next rounds go on.           *)
(*                                                                         *)
(* The wallets' busy flags are the slots of TxSlot, which Signer           *)
(* implements.  What the searches find is free (TradeSearch).              *)
(***************************************************************************)
EXTENDS Integers, Sequences, FiniteSets, SequencesExt

CONSTANTS
    Pairs,
    Wallets,        \* worker wallets
    maxConcurrency,
    MaxRounds,      \* bound: rounds
    MaxBlock,       \* bound: block numbers
    NoWallet        \* no wallet, or no call

Rounds == 1 .. MaxRounds
Calls == Rounds \X Pairs    \* processOrderInit of a pair in a round

ASSUME RoundAssumption ==
    /\ Pairs # {}
    /\ maxConcurrency \in Nat \ {0}
    /\ MaxRounds \in Nat
    /\ MaxBlock \in Nat
    /\ NoWallet \notin Wallets /\ NoWallet \notin Calls

VARIABLES
    phase,          \* what the main loop awaits
    round,
    taken,          \* the pairs getNextRoundOrders gave
    todo,           \* those that iterOrders has still to yield
    maxConcurrencyCounter,
    batch,          \* concurrencyProcessBatch
    settlements,
    blockNumber,
    pools,          \* the block of the pool data, or Mixed
    stage,          \* where each call is
    wallet,         \* the signer it got
    readAt,         \* the block number it was started with
    gasCosts,       \* how many times its gas was counted
    cleared,        \* history: calls whose transaction succeeded
    holder, finished \* the slots of the wallets

loopVars == <<phase, round, taken, todo, maxConcurrencyCounter, batch,
              settlements, blockNumber, pools>>
callVars == <<stage, wallet, readAt>>
slotVars == <<holder, finished>>
vars == <<loopVars, callVars, gasCosts, cleared, slotVars>>

Slot == INSTANCE TxSlot WITH NoCall <- NoWallet

Mixed == -1         \* an update failed half way
Phases == {"idle", "update", "prepare", "gather", "last", "finalize", "crashed"}
Stages == {"none", "signer", "search", "found", "sending",
           "ready", "rejected"}

Init ==
    /\ phase = "idle" /\ round = 0
    /\ taken = {} /\ todo = {} /\ batch = {} /\ settlements = <<>>
    /\ maxConcurrencyCounter = maxConcurrency
    /\ blockNumber = 0 /\ pools = 0
    /\ stage = [c \in Calls |-> "none"]
    /\ wallet = [c \in Calls |-> NoWallet]
    /\ readAt = [c \in Calls |-> 0]
    /\ gasCosts = [c \in Calls |-> 0]
    /\ cleared = {}
    /\ Slot!SlotInit

Ready(c) == stage[c] = "ready"
LaterBlocks == blockNumber .. MaxBlock
-----------------------------------------------------------------------------
(***************************************************************************)
(* Seeded faults, for the mutation runs.                                   *)
(***************************************************************************)

\* The counter is looked at when the first order of the batch has changed it.
BugUpdatesLate(counter) == counter = maxConcurrency - 1

\* The batch vector is not reset.
BugKeepsBatch == batch

\* The settle function waits for the receipt and hands its gas cost on.
BugSettleHasGas(c) == c \in cleared

\* The signer is taken when it is picked; sendTx then waits for its own call.
BugReserves(c) ==
    /\ stage[c] = "signer"
    /\ stage' = [stage EXCEPT ![c] = "search"]
    /\ \E w \in Wallets :
         /\ Slot!Take(c, w)
         /\ wallet' = [wallet EXCEPT ![c] = w]
    /\ UNCHANGED <<readAt, gasCosts, cleared, loopVars>>
-----------------------------------------------------------------------------
(***************************************************************************)
(* The loop: initializeRound, finalizeRound and processNextRound           *)
(***************************************************************************)

startsBatch(counter) == counter = maxConcurrency

\* What the loop over the orders awaits next.
awaits(counter, rest) ==
    IF rest = {} THEN "last" ELSE IF startsBatch(counter) THEN "update" ELSE "prepare"

\* getNextRoundOrders and the first block number; without it the round ends
\* and the pairs have had their turn.
startRound ==
    /\ phase = "idle" /\ round < MaxRounds
    /\ round' = round + 1
    /\ taken' \in SUBSET Pairs /\ settlements' = <<>>
    /\ maxConcurrencyCounter' = maxConcurrency /\ batch' = {}
    /\ \/ /\ blockNumber' \in LaterBlocks /\ todo' = taken'
          /\ phase' = awaits(maxConcurrency, taken')
       \/ UNCHANGED <<blockNumber, phase>> /\ todo' = {}
    /\ UNCHANGED <<pools, callVars, gasCosts, cleared, slotVars>>

\* The update of the pools at the start of a batch; its failure is caught.
updatePools ==
    /\ phase = "update"
    /\ pools' \in {blockNumber, Mixed}
    /\ phase' = "prepare"
    /\ UNCHANGED <<round, taken, todo, maxConcurrencyCounter, batch, settlements,
                   blockNumber, callVars, gasCosts, cleared, slotVars>>

limitHit(counter) == counter = 0

\* prepareRouter is done: processOrderInit starts, and for a pair with an
\* empty vault or without addresses it ends at once.
processOrderInit(p) ==
    /\ phase = "prepare" /\ p \in todo
    /\ todo' = todo \ {p}
    /\ batch' = batch \union {<<round, p>>}
    /\ \/ /\ stage' = [stage EXCEPT ![<<round, p>>] = "signer"]
          /\ readAt' = [readAt EXCEPT ![<<round, p>>] = blockNumber]
          /\ UNCHANGED slotVars
       \/ /\ stage' = [stage EXCEPT ![<<round, p>>] = "ready"]
          /\ Slot!Abandon(<<round, p>>) /\ UNCHANGED readAt
    /\ maxConcurrencyCounter' = maxConcurrencyCounter - 1
    /\ phase' = IF limitHit(maxConcurrencyCounter') THEN "gather"
                ELSE awaits(maxConcurrencyCounter', todo')
    /\ UNCHANGED <<round, taken, settlements, blockNumber, pools, wallet, gasCosts,
                   cleared>>

emptyBatch == {}

\* Promise.all resolves.
gather ==
    /\ \A c \in batch : Ready(c)
    /\ settlements' = settlements \o SetToSeq(batch)
    /\ batch' = emptyBatch
    /\ maxConcurrencyCounter' = maxConcurrency
    /\ \/ /\ phase = "gather" /\ phase' = awaits(maxConcurrency, todo)
          /\ blockNumber' \in LaterBlocks
       \/ /\ phase = "last" /\ phase' = "finalize"
          /\ UNCHANGED blockNumber
    /\ UNCHANGED <<round, taken, todo, pools, callVars, gasCosts, cleared, slotVars>>

\* Promise.all rejects with the first of them, and the round with it; the
\* others run on, and those that were taken and not started are not.
roundThrows ==
    /\ phase \in {"gather", "last"}
    /\ \E c \in batch : stage[c] = "rejected"
    /\ phase' = "idle" /\ batch' = {} /\ todo' = {} /\ settlements' = <<>>
    /\ UNCHANGED <<round, taken, maxConcurrencyCounter, blockNumber, pools,
                   callVars, gasCosts, cleared, slotVars>>

\* A result has a gas cost only if it is that of a mined transaction, and
\* settle answers before there is one.
settleHasGas(c) == FALSE

finalizeRound ==
    /\ phase = "finalize"
    /\ phase' = "idle"
    /\ gasCosts' = [c \in Calls |->
         gasCosts[c] + Cardinality({i \in DOMAIN settlements :
                                      settlements[i] = c /\ settleHasGas(c)})]
    /\ UNCHANGED <<round, taken, todo, maxConcurrencyCounter, batch, settlements,
                   blockNumber, pools, callVars, cleared, slotVars>>
-----------------------------------------------------------------------------
(***************************************************************************)
(* A call: processOrder and processTransaction                             *)
(***************************************************************************)

goTo(c, s) == stage' = [stage EXCEPT ![c] = s]

\* The call is over: its signer and block number are of no more use.
conclude(c, s) ==
    /\ goTo(c, s)
    /\ wallet' = [wallet EXCEPT ![c] = NoWallet]
    /\ readAt' = [readAt EXCEPT ![c] = 0]

\* getRandomSigner: a signer that is not busy now.
getRandomSigner(c) ==
    /\ stage[c] = "signer" /\ goTo(c, "search")
    /\ \E w \in Wallets :
         /\ holder[w] = NoWallet
         /\ wallet' = [wallet EXCEPT ![c] = w]
    /\ UNCHANGED <<readAt, gasCosts, cleared, loopVars, slotVars>>

\* No quote, no price, or no opportunity.
noTrade(c) ==
    /\ stage[c] = "search" /\ conclude(c, "ready")
    /\ Slot!Abandon(c)
    /\ UNCHANGED <<gasCosts, cleared, loopVars>>

foundTrade(c) ==
    /\ stage[c] = "search" /\ goTo(c, "found")
    /\ UNCHANGED <<wallet, readAt, gasCosts, cleared, loopVars, slotVars>>

\* findBestTrade rejects.  While the loop awaits a router or a block number,
\* nothing has a handler for it, and Node ends the process.
rejects(c) ==
    /\ stage[c] = "search" /\ conclude(c, "rejected")
    /\ Slot!Abandon(c)
    /\ phase' = IF c \in batch /\ phase \notin {"gather", "last"} THEN "crashed"
                                                                  ELSE phase
    /\ UNCHANGED <<round, taken, todo, maxConcurrencyCounter, batch, settlements,
                   blockNumber, pools, gasCosts, cleared>>

\* sendTx waits until the wallet is free.
takeWallet(c) ==
    /\ stage[c] = "found" /\ goTo(c, "sending")
    /\ Slot!Take(c, wallet[c])
    /\ UNCHANGED <<wallet, readAt, gasCosts, cleared, loopVars>>

\* It is sent, or failed and has freed the wallet.
processTransaction(c) ==
    /\ stage[c] = "sending" /\ conclude(c, "ready")
    /\ UNCHANGED slotVars \/ Slot!Leave(wallet[c])
    /\ UNCHANGED <<gasCosts, cleared, loopVars>>

\* The receipt, or none in time, frees the wallet.
freeWallet(c, w) ==
    /\ Slot!Leave(w)
    /\ cleared' \in {cleared, cleared \union {c}}

\* processReceipt hands the gas cost of a success on, for that of a revert
\* nobody asks.
countGas(c) ==
    gasCosts' = IF c \in cleared' THEN [gasCosts EXCEPT ![c] = @ + 1] ELSE gasCosts

transactionSettlement(c) ==
    /\ Ready(c)
    /\ \E w \in Wallets : holder[w] = c /\ freeWallet(c, w)
    /\ countGas(c)
    /\ UNCHANGED <<callVars, loopVars>>
-----------------------------------------------------------------------------
Running == phase # "crashed"

loopStep ==
    \/ updatePools \/ \E p \in Pairs : processOrderInit(p)
    \/ gather \/ roundThrows \/ finalizeRound

callStep(c) ==
    \/ getRandomSigner(c) \/ noTrade(c) \/ foundTrade(c) \/ rejects(c)
    \/ takeWallet(c) \/ processTransaction(c)

Next ==
    /\ Running
    /\ \/ startRound \/ loopStep
       \/ \E c \in Calls : callStep(c) \/ transactionSettlement(c)

Spec == Init /\ [][Next]_vars

\* Awaits end: RPC calls and the receipt's poll have timeouts.
FairSpec ==
    /\ Spec
    /\ WF_vars(Running /\ loopStep)
    /\ \A c \in Calls : WF_vars(Running /\ callStep(c))
                        /\ WF_vars(Running /\ transactionSettlement(c))
-----------------------------------------------------------------------------
(***************************************************************************)
(* Properties                                                              *)
(***************************************************************************)

TypeOK ==
    /\ phase \in Phases /\ round \in 0 .. MaxRounds
    /\ taken \subseteq Pairs /\ todo \subseteq taken
    /\ maxConcurrencyCounter \in 0 .. maxConcurrency
    /\ batch \subseteq Calls /\ settlements \in Seq(Calls)
    /\ blockNumber \in 0 .. MaxBlock /\ pools \in {Mixed} \union 0 .. MaxBlock
    /\ stage \in [Calls -> Stages]
    /\ wallet \in [Calls -> Wallets \union {NoWallet}]
    /\ readAt \in [Calls -> 0 .. MaxBlock]
    /\ gasCosts \in [Calls -> Nat] /\ cleared \subseteq Calls
    /\ holder \in [Wallets -> Calls \union {NoWallet}] /\ finished \subseteq Calls

\* Every pair of a round that is finalized has one settlement, whatever the
\* batches were (initializeRound).
ReportedOnce ==
    phase = "finalize" =>
        /\ ToSet(settlements) = {<<round, p>> : p \in taken}
        /\ Len(settlements) = Cardinality(taken)

\* The calls of a batch search with the pool data of their own block, or with
\* what a failed update left (initializeRound: the update at each batch's
\* start, the block number after it).
BatchReadsItsPools ==
    \A c \in batch : stage[c] = "search" => pools \in {readAt[c], Mixed}

\* The gas of a transaction counts once if it succeeded and else never, in
\* the average that the wallets are assessed with (finalizeRound,
\* transactionSettlement).
GasOnce ==
    \A c \in Calls : gasCosts[c] = IF c \in cleared THEN 1 ELSE 0

\* A started round ends, however many orders wait for however few wallets.
RoundEnds == phase # "idle" ~> phase \in {"idle", "crashed"}

\* A pair has one transaction under way.
OneTradePerPair ==
    \A v, w \in Wallets :
        holder[v] # NoWallet /\ holder[w] # NoWallet /\ v # w
            => holder[v][2] # holder[w][2]

\* Every call searches with the pool data of its own block.
AllReadTheirPools ==
    \A c \in Calls : stage[c] = "search" => pools \in {readAt[c], Mixed}

\* A rejected order costs its round, not the process.
NoCrash == phase # "crashed"
=============================================================================
