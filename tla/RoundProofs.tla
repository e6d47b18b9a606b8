----------------------------- MODULE RoundProofs -----------------------------
(***************************************************************************)
(* Theorems about Round: whatever the pairs, wallets, rounds and batches   *)
(* are, a wallet serves one call at a time and the gas of a transaction    *)
(* counts once.                                                            *)
(***************************************************************************)
EXTENDS Round, FiniteSetTheorems, SequenceTheorems, TLAPS

\* A wallet's call is not finished and has no other wallet.
SlotInv ==
    /\ holder \in [Wallets -> Calls \union {NoWallet}]
    /\ \A w \in Wallets : holder[w] # NoWallet => holder[w] \notin finished
    /\ \A v, w \in Wallets : holder[v] = holder[w] /\ v # w => holder[v] = NoWallet

\* A call whose transaction succeeded has left its wallet.
GasInv ==
    /\ SlotInv
    /\ cleared \subseteq finished
    /\ gasCosts \in [Calls -> Nat]
    /\ GasOnce

LEMMA GasInvInit == Init => GasInv
  BY RoundAssumption DEF Init, GasInv, SlotInv, GasOnce, Slot!SlotInit

\* What a step of the slots keeps.
LEMMA TakeKeeps ==
    ASSUME SlotInv, NEW c \in Calls, NEW w \in Wallets, Slot!Take(c, w)
    PROVE  SlotInv' /\ finished' = finished
  BY RoundAssumption DEF SlotInv, Slot!Take

LEMMA LeaveKeeps ==
    ASSUME SlotInv, NEW w \in Wallets, Slot!Leave(w)
    PROVE  SlotInv' /\ finished' = finished \union {holder[w]}
  BY RoundAssumption DEF SlotInv, Slot!Leave

LEMMA AbandonKeeps ==
    ASSUME SlotInv, NEW c \in Calls, Slot!Abandon(c)
    PROVE  SlotInv' /\ finished \subseteq finished'
  BY RoundAssumption DEF SlotInv, Slot!Abandon

\* A step that leaves the gas and the history alone, and finishes calls only.
LEMMA QuietStep ==
    ASSUME GasInv, SlotInv', finished \subseteq finished',
           UNCHANGED <<gasCosts, cleared>>
    PROVE  GasInv'
  BY DEF GasInv, GasOnce

\* The steps of the loop.
LEMMA LoopKeepsGas ==
    ASSUME GasInv, startRound \/ loopStep
    PROVE  GasInv'
<1>1. ASSUME UNCHANGED slotVars
      PROVE  SlotInv' /\ finished \subseteq finished'
  BY <1>1 DEF slotVars, SlotInv, GasInv
<1>2. CASE startRound
  BY <1>1, <1>2, QuietStep DEF startRound
<1>3. CASE updatePools
  BY <1>1, <1>3, QuietStep DEF updatePools
<1>4. ASSUME NEW p \in Pairs, processOrderInit(p)
      PROVE  GasInv'
  <2>1. CASE UNCHANGED slotVars
    BY <1>1, <1>4, <2>1, QuietStep DEF processOrderInit
  <2>2. CASE Slot!Abandon(<<round, p>>)
    <3>1. SlotInv' /\ finished \subseteq finished'
      BY <2>2 DEF GasInv, SlotInv, Slot!Abandon
    <3>2. QED
      BY <1>4, <3>1, QuietStep DEF processOrderInit
  <2>3. QED
    BY <1>4, <2>1, <2>2 DEF processOrderInit
<1>5. CASE gather
  BY <1>1, <1>5, QuietStep DEF gather
<1>6. CASE roundThrows
  BY <1>1, <1>6, QuietStep DEF roundThrows
<1>7. CASE finalizeRound
  <2>1. gasCosts' = gasCosts
    <3>1. ASSUME NEW c \in Calls
          PROVE  gasCosts[c] + Cardinality({i \in DOMAIN settlements :
                                 settlements[i] = c /\ settleHasGas(c)}) = gasCosts[c]
      <4>1. {i \in DOMAIN settlements : settlements[i] = c /\ settleHasGas(c)} = {}
        BY DEF settleHasGas
      <4>2. QED
        BY <4>1, FS_EmptySet DEF GasInv
    <3>2. QED
      BY <1>7, <3>1 DEF finalizeRound, GasInv
  <2>2. QED
    BY <1>1, <1>7, <2>1, QuietStep DEF finalizeRound
<1>8. QED
  BY <1>2, <1>3, <1>4, <1>5, <1>6, <1>7 DEF loopStep

\* A call that searches or sends has a wallet.
WalletInv ==
    /\ stage \in [Calls -> Stages]
    /\ wallet \in [Calls -> Wallets \union {NoWallet}]
    /\ \A c \in Calls : stage[c] \in {"search", "found", "sending"} => wallet[c] \in Wallets

\* The loop starts calls without a wallet and leaves the others alone.
LEMMA LoopKeepsWallets ==
    ASSUME WalletInv, startRound \/ loopStep
    PROVE  WalletInv'
<1>1. ASSUME UNCHANGED callVars
      PROVE  WalletInv'
  BY <1>1 DEF callVars, WalletInv
<1>2. ASSUME NEW p \in Pairs, processOrderInit(p)
      PROVE  WalletInv'
  BY <1>2 DEF processOrderInit, WalletInv, Stages
<1>3. QED
  BY <1>1, <1>2 DEF startRound, loopStep, updatePools, gather, roundThrows, finalizeRound

\* The steps of a call before its receipt.
LEMMA CallKeepsWallets ==
    ASSUME WalletInv, NEW c \in Calls, callStep(c)
    PROVE  WalletInv'
<1> USE RoundAssumption DEF WalletInv, Stages, goTo
<1>1. CASE getRandomSigner(c)
  BY <1>1 DEF getRandomSigner
<1>2. CASE noTrade(c) \/ rejects(c) \/ processTransaction(c)
  BY <1>2 DEF noTrade, rejects, processTransaction, conclude
<1>3. CASE foundTrade(c) \/ takeWallet(c)
  BY <1>3 DEF foundTrade, takeWallet
<1>4. QED
  BY <1>1, <1>2, <1>3 DEF callStep

LEMMA CallKeepsGas ==
    ASSUME GasInv, WalletInv, NEW c \in Calls, callStep(c)
    PROVE  GasInv'
<1>1. ASSUME UNCHANGED slotVars
      PROVE  SlotInv' /\ finished \subseteq finished'
  BY <1>1 DEF slotVars, SlotInv, GasInv
<1>2. CASE getRandomSigner(c) \/ foundTrade(c)
  BY <1>1, <1>2, QuietStep DEF getRandomSigner, foundTrade
<1>3. CASE noTrade(c) \/ rejects(c)
  <2>1. SlotInv' /\ finished \subseteq finished'
    BY <1>3, AbandonKeeps DEF GasInv, noTrade, rejects
  <2>2. QED
    BY <1>3, <2>1, QuietStep DEF noTrade, rejects
<1>4. CASE takeWallet(c)
  <2>1. wallet[c] \in Wallets
    BY <1>4 DEF takeWallet, WalletInv
  <2>2. SlotInv' /\ finished' = finished
    BY <1>4, <2>1, TakeKeeps DEF GasInv, takeWallet
  <2>3. QED
    BY <1>4, <2>2, QuietStep DEF takeWallet
<1>5. CASE processTransaction(c)
  <2>1. wallet[c] \in Wallets
    BY <1>5 DEF processTransaction, WalletInv
  <2>2. SlotInv' /\ finished \subseteq finished'
    <3>1. CASE UNCHANGED slotVars
      BY <1>1, <3>1
    <3>2. CASE Slot!Leave(wallet[c])
      BY <2>1, <3>2, LeaveKeeps DEF GasInv
    <3>3. QED
      BY <1>5, <3>1, <3>2 DEF processTransaction
  <2>3. QED
    BY <1>5, <2>2, QuietStep DEF processTransaction
<1>6. QED
  BY <1>2, <1>3, <1>4, <1>5 DEF callStep

\* A receipt finishes a call whose gas was not counted.
LEMMA ReceiptKeepsGas ==
    ASSUME GasInv, NEW c \in Calls, transactionSettlement(c)
    PROVE  GasInv'
<1>1. PICK w \in Wallets : holder[w] = c /\ freeWallet(c, w)
  BY DEF transactionSettlement
<1>2. SlotInv' /\ finished' = finished \union {c}
  BY <1>1, LeaveKeeps DEF freeWallet, GasInv
<1>3. c \notin cleared
  BY <1>1, RoundAssumption DEF GasInv, SlotInv
<1>4. cleared' \in {cleared, cleared \union {c}}
  BY <1>1 DEF freeWallet
<1>5. gasCosts' = IF c \in cleared' THEN [gasCosts EXCEPT ![c] = @ + 1] ELSE gasCosts
  BY DEF transactionSettlement, countGas
<1>6. QED
  BY <1>2, <1>3, <1>4, <1>5 DEF GasInv, GasOnce

\* The two invariants hold in every state.
LEMMA RoundInvariant == Spec => [](GasInv /\ WalletInv)
<1>1. Init => GasInv /\ WalletInv
  BY GasInvInit DEF Init, WalletInv, Stages
<1>2. ASSUME GasInv, WalletInv, [Next]_vars
      PROVE  GasInv' /\ WalletInv'
  <2>1. CASE startRound \/ loopStep
    BY <1>2, <2>1, LoopKeepsGas, LoopKeepsWallets
  <2>2. ASSUME NEW c \in Calls, callStep(c)
        PROVE  GasInv' /\ WalletInv'
    BY <1>2, <2>2, CallKeepsGas, CallKeepsWallets
  <2>3. ASSUME NEW c \in Calls, transactionSettlement(c)
        PROVE  GasInv' /\ WalletInv'
    <3>1. WalletInv'
      BY <1>2, <2>3 DEF transactionSettlement, callVars, WalletInv
    <3>2. QED
      BY <1>2, <2>3, <3>1, ReceiptKeepsGas
  <2>4. CASE UNCHANGED vars
    BY <1>2, <2>4 DEF vars, slotVars, callVars, GasInv, GasOnce, SlotInv, WalletInv
  <2>5. QED
    BY <1>2, <2>1, <2>2, <2>3, <2>4 DEF Next
<1>3. QED
  BY <1>1, <1>2, PTL DEF Spec

\* The gas of every transaction that succeeds is counted once, in whatever
\* batch or round its receipt comes, and no other gas is (finalizeRound,
\* transactionSettlement).
THEOREM GasCountsOnce == Spec => []GasOnce
<1>1. GasInv => GasOnce
  BY DEF GasInv
<1>2. QED
  BY <1>1, RoundInvariant, PTL
-----------------------------------------------------------------------------
\* The loop starts calls of the current round only.
RoundInv ==
    /\ round \in 0 .. MaxRounds
    /\ taken \subseteq Pairs /\ todo \subseteq taken
    /\ todo # {} => round \in Rounds

LEMMA RoundInvariantHolds == Spec => []RoundInv
<1> USE RoundAssumption DEF RoundInv, Rounds
<1>1. Init => RoundInv
  BY DEF Init
<1>2. ASSUME RoundInv, [Next]_vars
      PROVE  RoundInv'
  <2>1. CASE startRound
    BY <1>2, <2>1 DEF startRound
  <2>2. ASSUME NEW p \in Pairs, processOrderInit(p)
        PROVE  RoundInv'
    BY <1>2, <2>2 DEF processOrderInit
  <2>3. CASE updatePools \/ gather \/ roundThrows \/ finalizeRound
    BY <1>2, <2>3 DEF updatePools, gather, roundThrows, finalizeRound
  <2>4. ASSUME NEW c \in Calls, callStep(c) \/ transactionSettlement(c)
        PROVE  RoundInv'
    BY <1>2, <2>4 DEF callStep, getRandomSigner, noTrade, foundTrade, rejects, takeWallet,
                      processTransaction, transactionSettlement, loopVars
  <2>5. CASE UNCHANGED vars
    BY <1>2, <2>5 DEF vars, loopVars
  <2>6. QED
    BY <1>2, <2>1, <2>2, <2>3, <2>4, <2>5 DEF Next, loopStep
<1>3. QED
  BY <1>1, <1>2, PTL DEF Spec

\* Every step takes, leaves or abandons a slot as TxSlot allows, or does
\* nothing to them: a round uses the wallets as Signer provides them
\* (getRandomSigner, sendTx, the receipt).
THEOREM RoundUsesSlots == Spec => Slot!SlotInit /\ [][Slot!SlotNext]_slotVars
<1>1. Init => Slot!SlotInit
  BY DEF Init
<1>2. ASSUME RoundInv, WalletInv, [Next]_vars
      PROVE  [Slot!SlotNext]_slotVars
  <2>1. ASSUME NEW p \in Pairs, processOrderInit(p)
        PROVE  [Slot!SlotNext]_slotVars
    <3>1. <<round, p>> \in Calls
      BY <1>2, <2>1 DEF processOrderInit, RoundInv, Calls
    <3>2. QED
      BY <2>1, <3>1 DEF processOrderInit, Slot!SlotNext
  <2>2. CASE startRound \/ updatePools \/ gather \/ roundThrows \/ finalizeRound
    BY <2>2 DEF startRound, updatePools, gather, roundThrows, finalizeRound
  <2>3. ASSUME NEW c \in Calls, callStep(c)
        PROVE  [Slot!SlotNext]_slotVars
    <3>1. CASE getRandomSigner(c) \/ foundTrade(c)
      BY <3>1 DEF getRandomSigner, foundTrade
    <3>2. CASE noTrade(c) \/ rejects(c)
      BY <3>2 DEF noTrade, rejects, Slot!SlotNext
    <3>3. CASE takeWallet(c) \/ processTransaction(c)
      <4>1. wallet[c] \in Wallets
        BY <1>2, <3>3 DEF takeWallet, processTransaction, WalletInv
      <4>2. QED
        BY <3>3, <4>1 DEF takeWallet, processTransaction, Slot!SlotNext
    <3>4. QED
      BY <2>3, <3>1, <3>2, <3>3 DEF callStep
  <2>4. ASSUME NEW c \in Calls, transactionSettlement(c)
        PROVE  [Slot!SlotNext]_slotVars
    BY <2>4 DEF transactionSettlement, freeWallet, Slot!SlotNext
  <2>5. CASE UNCHANGED vars
    BY <2>5 DEF vars
  <2>6. QED
    BY <1>2, <2>1, <2>2, <2>3, <2>4, <2>5 DEF Next, loopStep
<1>3. QED
  BY <1>1, <1>2, RoundInvariant, RoundInvariantHolds, PTL DEF Spec
-----------------------------------------------------------------------------
\* The pools are updated between the batches only, and the block number with
\* them: what the calls of the batch were started with is what there is.
BatchInv ==
    /\ maxConcurrencyCounter \in Int /\ maxConcurrencyCounter <= maxConcurrency
    /\ stage \in [Calls -> Stages] /\ DOMAIN readAt = Calls /\ batch \subseteq Calls
    /\ phase = "update" => batch = {}
    /\ phase = "prepare" \/ batch # {} => pools \in {blockNumber, Mixed}
    /\ \A c \in batch : stage[c] \in {"signer", "search"} => readAt[c] = blockNumber

\* A batch that starts has no calls.
LEMMA FreshBatch ==
    ASSUME BatchInv, batch' = {}, UNCHANGED callVars, phase' # "prepare",
           maxConcurrencyCounter' \in {maxConcurrencyCounter, maxConcurrency}
    PROVE  BatchInv'
  BY RoundAssumption DEF BatchInv, callVars

LEMMA LoopKeepsBatch ==
    ASSUME BatchInv, RoundInv, startRound \/ loopStep
    PROVE  BatchInv'
<1>1. awaits(maxConcurrency, taken') # "prepare" /\ awaits(maxConcurrency, todo) # "prepare"
  BY DEF awaits, startsBatch
<1>2. CASE startRound
  BY <1>1, <1>2, FreshBatch DEF startRound
<1>3. CASE updatePools
  BY <1>3 DEF updatePools, BatchInv, callVars
<1>4. ASSUME NEW p \in Pairs, processOrderInit(p)
      PROVE  BatchInv'
  <2> DEFINE c == <<round, p>>
  <2>1. c \in Calls
    BY <1>4 DEF processOrderInit, RoundInv, Calls
  <2>2. /\ maxConcurrencyCounter' \in Int /\ maxConcurrencyCounter' < maxConcurrency
        /\ phase' # "update"
    BY <1>4, RoundAssumption DEF processOrderInit, BatchInv, awaits, startsBatch
  <2>3. /\ batch' = batch \union {c} /\ blockNumber' = blockNumber /\ pools' = pools
        /\ pools \in {blockNumber, Mixed}
    BY <1>4 DEF processOrderInit, BatchInv
  <2> HIDE DEF c
  <2>4. /\ stage' \in [Calls -> Stages] /\ DOMAIN readAt' = Calls
        /\ stage'[c] \in {"signer", "search"} => readAt'[c] = blockNumber
        /\ \A d \in Calls : d # c => stage'[d] = stage[d] /\ readAt'[d] = readAt[d]
    <3>1. CASE /\ stage' = [stage EXCEPT ![c] = "signer"]
               /\ readAt' = [readAt EXCEPT ![c] = blockNumber]
      BY <2>1, <3>1 DEF BatchInv, Stages
    <3>2. CASE stage' = [stage EXCEPT ![c] = "ready"] /\ UNCHANGED readAt
      BY <2>1, <3>2 DEF BatchInv, Stages
    <3>3. QED
      BY <1>4, <3>1, <3>2 DEF processOrderInit, c
  <2>5. \A d \in batch' : stage'[d] \in {"signer", "search"} => readAt'[d] = blockNumber'
    BY <2>1, <2>3, <2>4 DEF BatchInv
  <2>6. QED
    BY <2>1, <2>2, <2>3, <2>4, <2>5, RoundAssumption DEF BatchInv
<1>5. CASE gather
  BY <1>1, <1>5, FreshBatch DEF gather, emptyBatch
<1>6. CASE roundThrows
  BY <1>6, FreshBatch DEF roundThrows
<1>7. CASE finalizeRound
  BY <1>7 DEF finalizeRound, BatchInv, callVars
<1>8. QED
  BY <1>2, <1>3, <1>4, <1>5, <1>6, <1>7 DEF loopStep

LEMMA CallKeepsBatch ==
    ASSUME BatchInv, NEW c \in Calls, callStep(c) \/ transactionSettlement(c)
    PROVE  BatchInv'
<1>1. ASSUME UNCHANGED <<callVars, loopVars>>
      PROVE  BatchInv'
  BY <1>1 DEF BatchInv, callVars, loopVars
<1>2. CASE getRandomSigner(c)
  BY <1>2 DEF getRandomSigner, goTo, BatchInv, loopVars, Stages
<1>3. CASE foundTrade(c) \/ takeWallet(c)
  BY <1>3 DEF foundTrade, takeWallet, goTo, BatchInv, loopVars, Stages
<1>4. CASE noTrade(c) \/ processTransaction(c)
  BY <1>4 DEF noTrade, processTransaction, conclude, goTo, BatchInv, loopVars, Stages
<1>5. CASE rejects(c)
  BY <1>5 DEF rejects, conclude, goTo, BatchInv, Stages
<1>6. QED
  BY <1>1, <1>2, <1>3, <1>4, <1>5 DEF callStep, transactionSettlement

LEMMA BatchInvariant == Spec => []BatchInv
<1>1. Init => BatchInv
  BY RoundAssumption DEF Init, BatchInv, Stages
<1>2. ASSUME BatchInv, RoundInv, [Next]_vars
      PROVE  BatchInv'
  <2>1. CASE UNCHANGED vars
    BY <1>2, <2>1 DEF vars, loopVars, callVars, BatchInv
  <2>2. QED
    BY <1>2, <2>1, LoopKeepsBatch, CallKeepsBatch DEF Next
<1>3. QED
  BY <1>1, <1>2, RoundInvariantHolds, PTL DEF Spec

\* Whatever the size of the batches, and however long the calls of earlier
\* batches or rounds go on, a call that its batch waits for searches with the
\* pool data of its own block, or what a failed update left (initializeRound).
THEOREM BatchesReadTheirPools == Spec => []BatchReadsItsPools
<1>1. BatchInv => BatchReadsItsPools
  BY DEF BatchInv, BatchReadsItsPools
<1>2. QED
  BY <1>1, BatchInvariant, PTL
-----------------------------------------------------------------------------
CallsOf(S) == {<<round, p>> : p \in S}

UnderWay == phase \notin {"idle", "crashed"}

\* The pairs that were yielded have a settlement or are in the batch, once.
ReportInv ==
    /\ RoundInv
    /\ batch \subseteq Calls /\ IsFiniteSet(batch)
    /\ settlements \in Seq(Calls)
    /\ UnderWay => /\ ToSet(settlements) \union batch = CallsOf(taken \ todo)
                   /\ ToSet(settlements) \cap batch = {}
                   /\ IsInjective(settlements)
    /\ phase = "finalize" => batch = {}
    /\ phase \in {"last", "finalize"} => todo = {}

\* What SetToSeq chooses exists.
LEMMA SetToSeqLists ==
    ASSUME NEW S, IsFiniteSet(S)
    PROVE  SetToSeq(S) \in Seq(S) /\ ToSet(SetToSeq(S)) = S /\ IsInjective(SetToSeq(S))
<1> DEFINE n == Cardinality(S)
           f == SetToSeq(S)
<1>1. n \in Nat /\ ExistsBijection(1 .. n, S)
  BY FS_CardinalityType
<1>2. PICK g : g \in Bijection(1 .. n, S)
  BY <1>1 DEF ExistsBijection
<1>3. g \in [1 .. n -> S] /\ IsInjective(g)
  BY <1>2 DEF Bijection, Injection
<1>4. f \in [1 .. n -> S] /\ IsInjective(f)
  BY <1>3 DEF SetToSeq
<1> HIDE DEF f
<1>5. f \in Surjection(1 .. n, S)
  <2>1. f \in Injection(1 .. n, S)
    BY <1>4 DEF Injection
  <2>2. Cardinality(1 .. n) = n
    BY <1>1, FS_Interval
  <2>3. QED
    BY <2>1, <2>2, FS_Injection
<1>6. ToSet(f) = S
  BY <1>4, <1>5 DEF ToSet, Surjection
<1>7. f \in Seq(S)
  BY <1>1, <1>4
<1>8. QED
  BY <1>4, <1>6, <1>7 DEF f

\* Two lists without an element in common.
LEMMA JoinedLists ==
    ASSUME NEW S, NEW s \in Seq(S), NEW t \in Seq(S), IsInjective(s), IsInjective(t),
           ToSet(s) \cap ToSet(t) = {}
    PROVE  /\ s \o t \in Seq(S) /\ ToSet(s \o t) = ToSet(s) \union ToSet(t)
           /\ IsInjective(s \o t)
<1> DEFINE m == Len(s)
           k == Len(t)
           u == s \o t
<1>1. /\ m \in Nat /\ k \in Nat /\ DOMAIN s = 1 .. m /\ DOMAIN t = 1 .. k
  BY LenProperties
<1>2. /\ u \in Seq(S) /\ Len(u) = m + k
      /\ \A i \in 1 .. m + k : u[i] = IF i <= m THEN s[i] ELSE t[i - m]
  BY ConcatProperties
<1>3. DOMAIN u = 1 .. m + k
  BY <1>2, LenProperties
<1> HIDE DEF m, k, u
<1>4. \A i \in 1 .. m + k : \/ i \in 1 .. m /\ u[i] = s[i] /\ u[i] \in ToSet(s)
                            \/ i - m \in 1 .. k /\ u[i] = t[i - m] /\ u[i] \in ToSet(t)
  <2>1. ASSUME NEW i \in 1 .. m + k
        PROVE  \/ i \in 1 .. m /\ u[i] = s[i] /\ u[i] \in ToSet(s)
               \/ i - m \in 1 .. k /\ u[i] = t[i - m] /\ u[i] \in ToSet(t)
    <3>1. CASE i <= m
      <4>1. i \in 1 .. m /\ u[i] = s[i]
        BY <1>1, <1>2, <3>1
      <4>2. QED
        BY <1>1, <4>1 DEF ToSet
    <3>2. CASE ~(i <= m)
      <4>1. i - m \in 1 .. k /\ u[i] = t[i - m]
        BY <1>1, <1>2, <3>2
      <4>2. QED
        BY <1>1, <4>1 DEF ToSet
    <3>3. QED
      BY <3>1, <3>2
  <2>2. QED
    BY <2>1
<1>5. IsInjective(u)
  <2>1. ASSUME NEW i \in 1 .. m + k, NEW j \in 1 .. m + k, u[i] = u[j]
        PROVE  i = j
    <3>1. CASE i \in 1 .. m /\ j \in 1 .. m /\ u[i] = s[i] /\ u[j] = s[j]
      BY <1>1, <2>1, <3>1 DEF IsInjective
    <3>2. CASE /\ i - m \in 1 .. k /\ j - m \in 1 .. k
               /\ u[i] = t[i - m] /\ u[j] = t[j - m]
      <4>1. i - m = j - m
        BY <1>1, <2>1, <3>2 DEF IsInjective
      <4>2. QED
        BY <1>1, <4>1
    <3>3. QED
      BY <1>4, <2>1, <3>1, <3>2
  <2>2. QED
    BY <1>3, <2>1 DEF IsInjective
<1>6. ToSet(u) = ToSet(s) \union ToSet(t)
  <2>1. ToSet(u) \subseteq ToSet(s) \union ToSet(t)
    BY <1>3, <1>4 DEF ToSet
  <2>2. ToSet(s) \subseteq ToSet(u)
    <3>1. \A i \in 1 .. m : i \in 1 .. m + k /\ u[i] = s[i]
      BY <1>1, <1>2
    <3>2. QED
      BY <1>1, <1>3, <3>1 DEF ToSet
  <2>3. ToSet(t) \subseteq ToSet(u)
    <3>1. \A i \in 1 .. k : m + i \in 1 .. m + k /\ u[m + i] = t[i]
      BY <1>1, <1>2
    <3>2. QED
      BY <1>1, <1>3, <3>1 DEF ToSet
  <2>4. QED
    BY <2>1, <2>2, <2>3
<1>7. QED
  BY <1>2, <1>5, <1>6 DEF u

LEMMA GatherKeepsReport ==
    ASSUME ReportInv, gather
    PROVE  ReportInv'
<1> DEFINE more == SetToSeq(batch)
<1>1. /\ phase \in {"gather", "last"} /\ UnderWay
      /\ settlements' = settlements \o more /\ batch' = {}
      /\ UNCHANGED <<round, taken, todo>>
  BY DEF gather, UnderWay, emptyBatch
<1>2. more \in Seq(Calls) /\ ToSet(more) = batch /\ IsInjective(more)
  BY SetToSeqLists, SeqMonotonic DEF ReportInv
<1> HIDE DEF more
<1>3. /\ settlements' \in Seq(Calls) /\ IsInjective(settlements')
      /\ ToSet(settlements') = ToSet(settlements) \union batch
  <2>1. /\ settlements \o more \in Seq(Calls) /\ IsInjective(settlements \o more)
        /\ ToSet(settlements \o more) = ToSet(settlements) \union ToSet(more)
    BY <1>1, <1>2, JoinedLists DEF ReportInv
  <2>2. QED
    BY <1>1, <1>2, <2>1
<1>4. phase' \in {"last", "finalize"} => todo' = {}
  BY <1>1 DEF gather, awaits, startsBatch, ReportInv
<1>5. RoundInv'
  BY <1>1 DEF ReportInv, RoundInv
<1>6. QED
  BY <1>1, <1>3, <1>4, <1>5, FS_EmptySet DEF ReportInv, CallsOf

LEMMA StartKeepsReport ==
    ASSUME ReportInv, startRound
    PROVE  ReportInv'
<1>1. RoundInv'
  BY RoundAssumption DEF startRound, ReportInv, RoundInv, Rounds
<1>2. /\ settlements' = <<>> /\ batch' = {} /\ phase' # "finalize"
      /\ UnderWay' => taken' \ todo' = {}
      /\ phase' = "last" => todo' = {}
  BY DEF startRound, awaits, startsBatch, UnderWay
<1>3. settlements' \in Seq(Calls) /\ ToSet(settlements') = {} /\ IsInjective(settlements')
  BY <1>2, EmptySeq DEF ToSet, IsInjective
<1>4. QED
  BY <1>1, <1>2, <1>3, FS_EmptySet DEF ReportInv, CallsOf

LEMMA YieldKeepsReport ==
    ASSUME ReportInv, NEW p \in Pairs, processOrderInit(p)
    PROVE  ReportInv'
<1> DEFINE c == <<round, p>>
<1>1. /\ phase = "prepare" /\ UnderWay /\ p \in todo /\ todo' = todo \ {p}
      /\ batch' = batch \union {c} /\ UNCHANGED <<round, taken, settlements>>
      /\ c \in Calls
  BY DEF processOrderInit, UnderWay, ReportInv, RoundInv, Calls
<1>2. phase' # "finalize" /\ (phase' = "last" => todo' = {})
  BY DEF processOrderInit, awaits, limitHit
<1>3. RoundInv'
  BY <1>1 DEF ReportInv, RoundInv
<1>4. IsFiniteSet(batch') /\ batch' \subseteq Calls
  BY <1>1, FS_AddElement DEF ReportInv
<1>5. c \notin CallsOf(taken \ todo)
  BY <1>1 DEF CallsOf
<1>6. CallsOf(taken \ todo)' = CallsOf(taken \ todo) \union {c}
  BY <1>1 DEF CallsOf, ReportInv, RoundInv
<1> HIDE DEF c
<1>7. ToSet(settlements') = ToSet(settlements)
  BY <1>1
<1>8. /\ ToSet(settlements') \union batch' = CallsOf(taken \ todo)'
      /\ ToSet(settlements') \cap batch' = {} /\ IsInjective(settlements')
      /\ settlements' \in Seq(Calls)
  BY <1>1, <1>5, <1>6, <1>7 DEF ReportInv
<1>9. QED
  BY <1>2, <1>3, <1>4, <1>8 DEF ReportInv

LEMMA OthersKeepReport ==
    ASSUME ReportInv,
           \/ updatePools \/ roundThrows \/ finalizeRound
           \/ \E c \in Calls : callStep(c) \/ transactionSettlement(c)
    PROVE  ReportInv'
<1>1. ASSUME UNCHANGED <<round, taken, todo, batch, settlements>>,
             \/ phase' = phase
             \/ phase' \in {"idle", "crashed"}
             \/ phase = "update" /\ phase' = "prepare"
      PROVE  ReportInv'
  BY <1>1 DEF ReportInv, RoundInv, UnderWay, CallsOf
<1>2. CASE updatePools \/ finalizeRound
  BY <1>1, <1>2 DEF updatePools, finalizeRound
<1>3. CASE roundThrows
  <2>1. RoundInv'
    BY <1>3 DEF roundThrows, ReportInv, RoundInv
  <2>2. QED
    BY <1>3, <2>1, FS_EmptySet, EmptySeq DEF roundThrows, ReportInv, UnderWay
<1>4. ASSUME NEW c \in Calls, callStep(c) \/ transactionSettlement(c)
      PROVE  ReportInv'
  <2>1. CASE rejects(c)
    BY <1>1, <2>1 DEF rejects
  <2>2. CASE ~rejects(c)
    <3>1. UNCHANGED loopVars
      BY <1>4, <2>2 DEF callStep, transactionSettlement, getRandomSigner, noTrade, foundTrade,
                        takeWallet, processTransaction
    <3>2. QED
      BY <1>1, <3>1 DEF loopVars
  <2>3. QED
    BY <2>1, <2>2
<1>5. QED
  BY <1>2, <1>3, <1>4

LEMMA ReportInvariant == Spec => []ReportInv
<1>1. ASSUME Init
      PROVE  ReportInv
  BY <1>1, RoundAssumption, FS_EmptySet, EmptySeq DEF Init, ReportInv, RoundInv, UnderWay
<1>2. ASSUME ReportInv, [Next]_vars
      PROVE  ReportInv'
  <2>1. CASE UNCHANGED vars
    BY <1>2, <2>1 DEF vars, loopVars, ReportInv, RoundInv, UnderWay, CallsOf
  <2>2. QED
    BY <1>2, <2>1, StartKeepsReport, YieldKeepsReport, GatherKeepsReport, OthersKeepReport
       DEF Next, loopStep
<1>3. QED
  BY <1>1, <1>2, PTL DEF Spec

\* As many as the list is long.
LEMMA ListedOnce ==
    ASSUME NEW S, NEW s \in Seq(S), IsInjective(s)
    PROVE  IsFiniteSet(ToSet(s)) /\ Cardinality(ToSet(s)) = Len(s)
<1>1. Len(s) \in Nat /\ s \in [1 .. Len(s) -> S] /\ DOMAIN s = 1 .. Len(s)
  BY LenProperties
<1>2. s \in Bijection(1 .. Len(s), ToSet(s))
  BY <1>1 DEF Bijection, Injection, Surjection, ToSet
<1>3. IsFiniteSet(1 .. Len(s)) /\ Cardinality(1 .. Len(s)) = Len(s)
  BY <1>1, FS_Interval
<1>4. ExistsBijection(1 .. Len(s), ToSet(s))
  BY <1>2 DEF ExistsBijection
<1>5. QED
  BY <1>3, <1>4, FS_Bijection

\* Whatever pairs a round takes and whatever its batches are, a round that is
\* finalized reports each of them once (initializeRound, finalizeRound).
THEOREM RoundReportsEachPair == Spec => []ReportedOnce
<1>1. ASSUME ReportInv, phase = "finalize"
      PROVE  /\ ToSet(settlements) = {<<round, p>> : p \in taken}
             /\ Len(settlements) = Cardinality(taken)
  <2> DEFINE C == CallsOf(taken)
             f == [c \in C |-> c[2]]
  <2>1. ToSet(settlements) = C /\ settlements \in Seq(Calls) /\ IsInjective(settlements)
    BY <1>1 DEF ReportInv, UnderWay, CallsOf
  <2>2. IsFiniteSet(C) /\ Cardinality(C) = Len(settlements)
    BY <2>1, ListedOnce
  <2>3. f \in Bijection(C, taken)
    <3>1. \A c \in C : \E p \in taken : c = <<round, p>> /\ c[2] = p
      BY DEF CallsOf
    <3>2. f \in [C -> taken] /\ DOMAIN f = C
      BY <3>1
    <3>3. \A c, d \in C : f[c] = f[d] => c = d
      BY <3>1
    <3>4. ASSUME NEW p \in taken
          PROVE  \E c \in C : f[c] = p
      <4>1. <<round, p>> \in C
        BY DEF CallsOf
      <4>2. f[<<round, p>>] = p
        BY <4>1
      <4>3. QED
        BY <4>1, <4>2
    <3> HIDE DEF f, C
    <3>5. IsInjective(f)
      BY <3>2, <3>3 DEF IsInjective
    <3>6. QED
      BY <3>2, <3>4, <3>5 DEF Bijection, Injection, Surjection
  <2>4. ExistsBijection(C, taken)
    BY <2>3 DEF ExistsBijection
  <2>5. Cardinality(taken) = Cardinality(C)
    BY <2>2, <2>4, FS_Bijection
  <2>6. QED
    BY <2>1, <2>2, <2>5 DEF CallsOf
<1>2. ReportInv => ReportedOnce
  BY <1>1 DEF ReportedOnce
<1>3. QED
  BY <1>2, ReportInvariant, PTL
=============================================================================
