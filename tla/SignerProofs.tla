---------------------------- MODULE SignerProofs ----------------------------
(***************************************************************************)
(* Proofs about Signer for any wallets, any calls, any schedule:           *)
(*   - the type invariant;                                                 *)
(*   - a sendTx call executes its transaction at most once, whatever the   *)
(*     network and the configuration do;                                   *)
(*   - when nothing bypasses the busy flag (no write RPC, no writeContract)*)
(*     and the flag is not freed early (receipts in time, no lost answers),*)
(*     a wallet has one transaction at a time, nonces never conflict, and  *)
(*     every step is one of the abstract slot's.                           *)
(***************************************************************************)
EXTENDS Signer, TLAPS

\* A call that has fetched its nonce keeps it, its transactions carry that
\* nonce, and once one of them was mined the nonce is used up.
NonceInv ==
    /\ \A c \in Calls :
          pc[c] \in {"idle", "picked", "waiting", "counting"} => nonce[c] = Undefined
    /\ \A t \in pool : t.nonce = nonce[t.call] /\ t.nonce >= count[wallet[t.call]]
    /\ \A c \in Calls : executed[c] > 0 =>
          executed[c] = 1 /\ nonce[c] \in Nat /\ nonce[c] < count[wallet[c]]

USE DEF Undefined, Calls

LEMMA ClientType ==
    ASSUME TypeOK, NEW c \in Calls
    PROVE  Client(c) \in Clients /\ wallet[c] \in Clients
BY DEF TypeOK, Client, asWriteSigner, Clients

\* The variables of Signer always have the values their comments say.
THEOREM TypeCorrect == Spec => []TypeOK
<1>1. Init => TypeOK
  BY WalletsAssumption, HomeAssumption
     DEF Init, TypeOK, PcValues, Submitted, Concluded, Clients
<1>2. TypeOK /\ [Next]_vars => TypeOK'
  <2> SUFFICES ASSUME TypeOK, [Next]_vars
               PROVE  TypeOK'
    OBVIOUS
  <2> USE DEF TypeOK, PcValues, Submitted, Concluded
  <2>1. ASSUME NEW c \in Calls, getRandomSigner(c)
        PROVE  TypeOK'
    <3>1. PICK w \in Wallets : wallet' = [wallet EXCEPT ![c] = w]
      BY <2>1, WalletsAssumption DEF getRandomSigner
    <3>2. QED
      BY <2>1, <3>1 DEF getRandomSigner, chainVars
  <2>2. ASSUME NEW c \in Calls, noOpportunity(c) \/ beginDirect(c) \/ waitUntilFree(c) \/ retry(c)
        PROVE  TypeOK'
    BY <2>2 DEF noOpportunity, beginDirect, waitUntilFree, retry, chainVars
  <2>3. ASSUME NEW c \in Calls, acquire(c)
        PROVE  TypeOK'
    BY <2>3, ClientType DEF acquire, chainVars
  <2>4. ASSUME NEW c \in Calls, attemptFailed(c)
        PROVE  /\ pc' \in [Calls -> PcValues]
               /\ nonce' \in [Calls -> Nat \union {Undefined}]
               /\ attempt' \in [Calls -> {1, 2}]
               /\ busy' \in [Clients -> BOOLEAN]
    BY <2>4, ClientType DEF attemptFailed
  <2>5. ASSUME NEW c \in Calls, getTransactionCount(c)
        PROVE  TypeOK'
    <3>1. CASE attemptFailed(c)
      BY <2>4, <2>5, <3>1 DEF getTransactionCount, chainVars
    <3>2. CASE ~attemptFailed(c)
      <4>1. PICK n \in LatestCount(wallet[c]) : nonce' = [nonce EXCEPT ![c] = n]
        BY <2>5, <3>2 DEF getTransactionCount
      <4>2. n \in Nat
        BY DEF LatestCount
      <4>3. QED
        BY <2>5, <3>2, <4>1, <4>2 DEF getTransactionCount, chainVars
    <3>3. QED
      BY <3>1, <3>2
  <2>6. ASSUME NEW c \in Calls, sendAccepted(c)
        PROVE  TypeOK'
    BY <2>6 DEF sendAccepted, startPolling, Tx
  <2>7. ASSUME NEW c \in Calls, sendThrows(c)
        PROVE  TypeOK'
    BY <2>4, <2>7 DEF sendThrows, Tx
  <2>8. ASSUME NEW c \in Calls, writeContract(c)
        PROVE  TypeOK'
    <3>1. ASSUME NEW n \in PendingCount(wallet[c])
          PROVE  n \in Nat
      BY DEF PendingCount, Pending
    <3>2. QED
      BY <2>8, <3>1 DEF writeContract, startPolling
  <2>9. ASSUME NEW c \in Calls, receiptFound(c) \/ receiptTimeout(c)
        PROVE  TypeOK'
    <3>1. PICK outcome \in {"mined", "timedout"} : endPolling(c, outcome)
      BY <2>9 DEF receiptFound, receiptTimeout
    <3>2. older' \in [Calls -> SUBSET Calls]
      <4>1. \A d \in Calls : (IF d = c THEN {} ELSE older[d] \ {c}) \in SUBSET Calls
        OBVIOUS
      <4>2. QED
        BY <3>1, <4>1 DEF endPolling
    <3>3. /\ pc' \in [Calls -> PcValues]
          /\ busy' \in [Clients -> BOOLEAN]
      BY <3>1, ClientType DEF endPolling
    <3>4. UNCHANGED <<wallet, nonce, attempt, count, pool, executed>>
      BY <2>9 DEF receiptFound, receiptTimeout, chainVars
    <3>5. QED
      BY <3>2, <3>3, <3>4
  <2>10. ASSUME NEW t \in pool, mine(t)
         PROVE  TypeOK'
    BY <2>10 DEF mine
  <2>11. ASSUME NEW t \in pool, drop(t)
         PROVE  TypeOK'
    BY <2>11 DEF drop
  <2>12. CASE UNCHANGED vars
    BY <2>12 DEF vars
  <2>13. QED
    BY <2>1, <2>2, <2>3, <2>5, <2>6, <2>7, <2>8, <2>9, <2>10, <2>11, <2>12
       DEF Next, callStep, chainStep
<1>3. QED
  BY <1>1, <1>2, PTL DEF Spec
-----------------------------------------------------------------------------
LEMMA NonceInvInit == Init => NonceInv
BY DEF Init, NonceInv

\* The catch blocks of sendTx never touch the nonce.
LEMMA AttemptFailedFacts ==
    ASSUME TypeOK, NEW c \in Calls, attemptFailed(c)
    PROVE  /\ UNCHANGED nonce
           /\ pc'[c] \in {"backoff", "failed"}
           /\ \A d \in Calls : d # c => pc'[d] = pc[d]
BY DEF TypeOK, attemptFailed

LEMMA NonceInvStep == TypeOK /\ NonceInv /\ [Next]_vars => NonceInv'
<1> SUFFICES ASSUME TypeOK, NonceInv, [Next]_vars
             PROVE  NonceInv'
  OBVIOUS
<1> USE DEF TypeOK, NonceInv
<1>1. ASSUME NEW c \in Calls, getRandomSigner(c)
      PROVE  NonceInv'
  <2>1. PICK w \in Wallets : wallet' = [wallet EXCEPT ![c] = w]
    BY <1>1, WalletsAssumption DEF getRandomSigner
  <2>2. /\ nonce[c] = Undefined
        /\ executed[c] = 0
        /\ \A t \in pool : t.call # c
    BY <1>1 DEF getRandomSigner
  <2>3. /\ \A d \in Calls : d # c => wallet'[d] = wallet[d]
        /\ \A d \in Calls : d # c => pc'[d] = pc[d]
        /\ UNCHANGED <<nonce, count, pool, executed>>
    BY <1>1, <2>1 DEF getRandomSigner, chainVars
  <2>4. \A t \in pool : t.call \in Calls /\ wallet'[t.call] = wallet[t.call]
    BY <2>2, <2>3
  <2>5. pc'[c] = "picked"
    BY <1>1 DEF getRandomSigner
  <2>6. QED
    BY <2>2, <2>3, <2>4, <2>5
<1>2. ASSUME NEW c \in Calls, noOpportunity(c) \/ beginDirect(c) \/ waitUntilFree(c) \/ acquire(c)
      PROVE  NonceInv'
  BY <1>2 DEF noOpportunity, beginDirect, waitUntilFree, acquire, chainVars
<1>3. ASSUME NEW c \in Calls, retry(c)
      PROVE  NonceInv'
  BY <1>3 DEF retry, chainVars
<1>4. ASSUME NEW c \in Calls, getTransactionCount(c)
      PROVE  NonceInv'
  <2>1. CASE attemptFailed(c)
    BY <1>4, <2>1, AttemptFailedFacts DEF getTransactionCount, chainVars
  <2>2. CASE ~attemptFailed(c)
    <3>1. /\ nonce[c] = Undefined
          /\ executed[c] = 0
          /\ \A t \in pool : t.call # c
      BY <1>4 DEF getTransactionCount
    <3>2. PICK n \in LatestCount(wallet[c]) : nonce' = [nonce EXCEPT ![c] = n]
      BY <1>4, <2>2 DEF getTransactionCount
    <3>3. pc' = [pc EXCEPT ![c] = "sending"] /\ UNCHANGED <<wallet, count, pool, executed>>
      BY <1>4, <2>2 DEF getTransactionCount, chainVars
    <3>4. QED
      BY <3>1, <3>2, <3>3
  <2>3. QED
    BY <2>1, <2>2
<1>5. ASSUME NEW c \in Calls, sendAccepted(c)
      PROVE  NonceInv'
  BY <1>5 DEF sendAccepted, startPolling, Tx
<1>6. ASSUME NEW c \in Calls, sendThrows(c)
      PROVE  NonceInv'
  <2>1. pool' = pool \/ (nonce[c] >= count[wallet[c]] /\ pool' = pool \union {Tx(c)})
    BY <1>6 DEF sendThrows
  <2>2. UNCHANGED <<wallet, count, executed>>
    BY <1>6 DEF sendThrows
  <2>3. /\ UNCHANGED nonce
        /\ pc'[c] \in {"backoff", "failed"}
        /\ \A d \in Calls : d # c => pc'[d] = pc[d]
    BY <1>6, AttemptFailedFacts DEF sendThrows
  <2>4. QED
    BY <2>1, <2>2, <2>3 DEF Tx
<1>7. ASSUME NEW c \in Calls, writeContract(c)
      PROVE  NonceInv'
  <2>1. /\ nonce[c] = Undefined
        /\ executed[c] = 0
        /\ \A t \in pool : t.call # c
    BY <1>7 DEF writeContract
  <2>2. CASE UNCHANGED <<nonce, pool, older>>
    BY <1>7, <2>2 DEF writeContract, startPolling
  <2>3. ASSUME NEW n \in PendingCount(wallet[c]),
               nonce' = [nonce EXCEPT ![c] = n],
               pool' = pool \union {[call |-> c, nonce |-> n]},
               startPolling(c)
        PROVE  NonceInv'
    <3>1. n \in Nat /\ n >= count[wallet[c]]
      BY DEF PendingCount, Pending
    <3>2. UNCHANGED <<wallet, count, executed>>
      BY <1>7 DEF writeContract
    <3>3. QED
      BY <2>1, <2>3, <3>1, <3>2 DEF startPolling
  <2>4. QED
    BY <1>7, <2>2, <2>3 DEF writeContract
<1>8. ASSUME NEW c \in Calls, receiptFound(c) \/ receiptTimeout(c)
      PROVE  NonceInv'
  BY <1>8 DEF receiptFound, receiptTimeout, endPolling, chainVars
<1>9. ASSUME NEW t \in pool, mine(t)
      PROVE  NonceInv'
  <2>1. t.call \in Calls /\ t.nonce \in Nat /\ t.nonce = nonce[t.call]
    OBVIOUS
  <2>2. executed[t.call] = 0
    BY <1>9, <2>1 DEF mine
  <2>3. /\ count' = [count EXCEPT ![wallet[t.call]] = @ + 1]
        /\ executed' = [executed EXCEPT ![t.call] = @ + 1]
        /\ \A u \in pool' : u \in pool /\ (wallet[u.call] # wallet[t.call] \/ u.nonce # t.nonce)
        /\ UNCHANGED <<pc, wallet, nonce>>
        /\ t.nonce = count[wallet[t.call]]
    BY <1>9 DEF mine
  <2>4. \A u \in pool' : u.nonce = nonce'[u.call] /\ u.nonce >= count'[wallet'[u.call]]
    BY <2>1, <2>3
  <2>5. \A c \in Calls : executed'[c] > 0 =>
          executed'[c] = 1 /\ nonce'[c] \in Nat /\ nonce'[c] < count'[wallet'[c]]
    BY <2>1, <2>2, <2>3
  <2>6. QED
    BY <2>3, <2>4, <2>5
<1>10. ASSUME NEW t \in pool, drop(t)
       PROVE  NonceInv'
  BY <1>10 DEF drop
<1>11. CASE UNCHANGED vars
  BY <1>11 DEF vars
<1>12. QED
  BY <1>1, <1>2, <1>3, <1>4, <1>5, <1>6, <1>7, <1>8, <1>9, <1>10, <1>11
     DEF Next, callStep, chainStep

\* Whatever the configuration, the network, the schedule and the number of
\* calls: no sendTx or writeContract call executes its transaction twice.
THEOREM SendAtMostOnce == Spec => []AtMostOnce
<1>1. TypeOK /\ NonceInv => AtMostOnce
  BY DEF TypeOK, NonceInv, AtMostOnce
<1>2. QED
  BY <1>1, TypeCorrect, NonceInvInit, NonceInvStep, PTL DEF Spec
-----------------------------------------------------------------------------
(***************************************************************************)
(* The configuration in which the busy flag can do its work.               *)
(***************************************************************************)
Tracked == ~WriteRpc /\ ~SlowReceipt /\ ~LostResponse /\ Raw = {}

LEMMA OwnClient ==
    ASSUME Tracked, TypeOK, NEW c \in Calls
    PROVE  Client(c) = wallet[c] /\ wallet[c] \in Wallets /\ wallet[c] \in Clients
BY DEF Tracked, TypeOK, Client, asWriteSigner, Clients

LEMMA OneTransactionInit == Init => OneTransactionPerWallet
BY DEF Init, OneTransactionPerWallet, Holds, Clients

\* What a call does to the flag while it keeps working with its wallet.
LEMMA HolderKeeps ==
    ASSUME Tracked, TypeOK, OneTransactionPerWallet, NEW c \in Calls,
           Holds(c), pc'[c] \in {"counting", "sending", "backoff", "sent"},
           \A d \in Calls : d # c => pc'[d] = pc[d],
           UNCHANGED <<wallet, busy>>
    PROVE  /\ \A d, e \in Calls : (Holds(d)' /\ Holds(e)' /\ wallet'[d] = wallet'[e]) => d = e
           /\ \A w \in Wallets : busy'[w] <=> \E d \in Calls : Holds(d)' /\ wallet'[d] = w
<1>1. \A d \in Calls : Holds(d)' <=> Holds(d)
  BY DEF Holds, Tracked
<1>2. QED
  BY <1>1 DEF OneTransactionPerWallet

\* A call that leaves its wallet leaves it free.
LEMMA HolderLeaves ==
    ASSUME Tracked, TypeOK, OneTransactionPerWallet, NEW c \in Calls,
           Holds(c), pc'[c] \in Concluded,
           \A d \in Calls : d # c => pc'[d] = pc[d],
           UNCHANGED wallet, busy' = [busy EXCEPT ![wallet[c]] = FALSE]
    PROVE  /\ \A d, e \in Calls : (Holds(d)' /\ Holds(e)' /\ wallet'[d] = wallet'[e]) => d = e
           /\ \A w \in Wallets : busy'[w] <=> \E d \in Calls : Holds(d)' /\ wallet'[d] = w
<1>1. ~Holds(c)' /\ \A d \in Calls : d # c => (Holds(d)' <=> Holds(d))
  BY DEF Holds, Concluded
<1>2. \A d \in Calls : d # c /\ Holds(d) => wallet[d] # wallet[c]
  BY DEF OneTransactionPerWallet
<1>3. ASSUME NEW w \in Wallets
      PROVE  busy'[w] <=> \E d \in Calls : Holds(d)' /\ wallet'[d] = w
  <2>1. CASE w = wallet[c]
    BY <1>1, <1>2, <2>1, OwnClient DEF TypeOK
  <2>2. CASE w # wallet[c]
    <3>1. busy'[w] = busy[w]
      BY <2>2 DEF TypeOK, Clients
    <3>2. QED
      BY <1>1, <2>2, <3>1 DEF OneTransactionPerWallet
  <2>3. QED
    BY <2>1, <2>2
<1>4. QED
  BY <1>1, <1>3 DEF OneTransactionPerWallet

LEMMA OneTransactionStep ==
    Tracked /\ TypeOK /\ NonceInv /\ OneTransactionPerWallet /\ [Next]_vars
        => OneTransactionPerWallet'
<1> SUFFICES ASSUME Tracked, TypeOK, NonceInv, OneTransactionPerWallet, [Next]_vars
             PROVE  OneTransactionPerWallet'
  OBVIOUS
<1>0. \A t \in pool : t.call \in Calls /\ t.nonce \in Nat /\ t = [call |-> t.call, nonce |-> t.nonce]
  BY DEF TypeOK
<1>1. ASSUME NEW c \in Calls, getRandomSigner(c)
      PROVE  OneTransactionPerWallet'
  <2>1. PICK w \in Wallets : wallet' = [wallet EXCEPT ![c] = w]
    BY <1>1, WalletsAssumption DEF getRandomSigner
  <2>2. /\ pc[c] = "idle" /\ pc'[c] = "picked"
        /\ \A d \in Calls : d # c => pc'[d] = pc[d] /\ wallet'[d] = wallet[d]
        /\ UNCHANGED <<nonce, busy, pool>>
    BY <1>1, <2>1 DEF getRandomSigner, chainVars, TypeOK
  <2>3. ~Holds(c) /\ ~Holds(c)' /\ \A d \in Calls : d # c => (Holds(d)' <=> Holds(d))
    BY <2>2 DEF Holds
  <2>4. \A t \in pool : t.call # c
    BY <2>2 DEF OneTransactionPerWallet
  <2>5. QED
    BY <1>0, <2>2, <2>3, <2>4 DEF OneTransactionPerWallet
<1>2. ASSUME NEW c \in Calls, noOpportunity(c) \/ beginDirect(c) \/ waitUntilFree(c)
      PROVE  OneTransactionPerWallet'
  <2>1. /\ pc[c] \in {"idle", "picked"} /\ pc'[c] \in {"skipped", "picked", "waiting"}
        /\ \A d \in Calls : d # c => pc'[d] = pc[d]
        /\ UNCHANGED <<wallet, nonce, busy, pool>>
    BY <1>2 DEF noOpportunity, beginDirect, waitUntilFree, chainVars, TypeOK
  <2>2. \A d \in Calls : Holds(d)' <=> Holds(d)
    BY <2>1 DEF Holds
  <2>3. \A t \in pool : t.call # c
    BY <2>1 DEF OneTransactionPerWallet
  <2>4. QED
    BY <1>0, <2>1, <2>2, <2>3 DEF OneTransactionPerWallet
<1>3. ASSUME NEW c \in Calls, acquire(c)
      PROVE  OneTransactionPerWallet'
  <2>1. /\ pc[c] \in {"picked", "waiting"} /\ pc'[c] = "counting"
        /\ \A d \in Calls : d # c => pc'[d] = pc[d]
        /\ UNCHANGED <<wallet, nonce, pool>>
        /\ ~busy[wallet[c]]
        /\ busy' = [busy EXCEPT ![wallet[c]] = TRUE]
    BY <1>3, OwnClient DEF acquire, chainVars, TypeOK
  <2>2. ~Holds(c) /\ Holds(c)' /\ \A d \in Calls : d # c => (Holds(d)' <=> Holds(d))
    BY <2>1 DEF Holds, Tracked
  <2>3. \A d \in Calls : Holds(d) => wallet[d] # wallet[c]
    BY <2>1, OwnClient DEF OneTransactionPerWallet
  <2>4. \A w \in Wallets : busy'[w] <=> \E d \in Calls : Holds(d)' /\ wallet'[d] = w
    <3> SUFFICES ASSUME NEW w \in Wallets
                 PROVE  busy'[w] <=> \E d \in Calls : Holds(d)' /\ wallet'[d] = w
      OBVIOUS
    <3>1. CASE w = wallet[c]
      BY <2>1, <2>2, <3>1, OwnClient DEF TypeOK
    <3>2. CASE w # wallet[c]
      <4>1. busy'[w] = busy[w]
        BY <2>1, <3>2 DEF TypeOK, Clients
      <4>2. QED
        BY <2>1, <2>2, <3>2, <4>1 DEF OneTransactionPerWallet
    <3>3. QED
      BY <3>1, <3>2
  <2>5. \A t \in pool : t.call # c
    BY <2>1 DEF OneTransactionPerWallet
  <2>6. QED
    BY <1>0, <2>1, <2>2, <2>3, <2>4, <2>5 DEF OneTransactionPerWallet
<1>4. ASSUME NEW c \in Calls, pc[c] \in {"counting", "sending"}, attemptFailed(c),
             UNCHANGED <<wallet, pool>>
      PROVE  OneTransactionPerWallet'
  <2>1. Holds(c)
    BY <1>4 DEF Holds, Tracked
  <2>2. /\ \A d \in Calls : d # c => pc'[d] = pc[d]
        /\ UNCHANGED nonce
    BY <1>4, AttemptFailedFacts
  <2>3. \A t \in pool : t.call # c
    BY <1>4 DEF OneTransactionPerWallet
  <2>4. CASE attempt[c] = 1
    <3>1. pc'[c] = "backoff" /\ UNCHANGED busy
      BY <1>4, <2>4 DEF attemptFailed, TypeOK
    <3>2. QED
      BY <1>0, <1>4, <2>1, <2>2, <2>3, <3>1, HolderKeeps DEF OneTransactionPerWallet
  <2>5. CASE attempt[c] = 2
    <3>1. pc'[c] = "failed" /\ busy' = [busy EXCEPT ![wallet[c]] = FALSE]
      BY <1>4, <2>5, OwnClient DEF attemptFailed, TypeOK
    <3>2. QED
      BY <1>0, <1>4, <2>1, <2>2, <2>3, <3>1, HolderLeaves
         DEF OneTransactionPerWallet, Concluded
  <2>6. QED
    BY <2>4, <2>5 DEF TypeOK
<1>5. ASSUME NEW c \in Calls, getTransactionCount(c)
      PROVE  OneTransactionPerWallet'
  <2>1. CASE attemptFailed(c)
    BY <1>4, <1>5, <2>1 DEF getTransactionCount, chainVars
  <2>2. CASE ~attemptFailed(c)
    <3>1. /\ pc[c] = "counting" /\ pc'[c] = "sending"
          /\ \A d \in Calls : d # c => pc'[d] = pc[d] /\ nonce'[d] = nonce[d]
          /\ UNCHANGED <<wallet, busy, pool>>
      BY <1>5, <2>2 DEF getTransactionCount, chainVars, TypeOK
    <3>2. Holds(c) /\ \A t \in pool : t.call # c
      BY <3>1 DEF OneTransactionPerWallet, Holds, Tracked
    <3>3. QED
      BY <1>0, <3>1, <3>2, HolderKeeps DEF OneTransactionPerWallet
  <2>3. QED
    BY <2>1, <2>2
<1>6. ASSUME NEW c \in Calls, sendAccepted(c)
      PROVE  OneTransactionPerWallet'
  <2>1. /\ pc[c] = "sending" /\ pc'[c] = "sent"
        /\ \A d \in Calls : d # c => pc'[d] = pc[d]
        /\ UNCHANGED <<wallet, nonce, busy>>
        /\ pool' = pool \union {Tx(c)}
    BY <1>6 DEF sendAccepted, startPolling, TypeOK
  <2>2. Holds(c)
    BY <2>1 DEF Holds, Tracked
  <2>3. QED
    BY <1>0, <2>1, <2>2, HolderKeeps DEF OneTransactionPerWallet, Tx
<1>7. ASSUME NEW c \in Calls, sendThrows(c)
      PROVE  OneTransactionPerWallet'
  BY <1>4, <1>7 DEF sendThrows, Tracked
<1>8. ASSUME NEW c \in Calls, retry(c)
      PROVE  OneTransactionPerWallet'
  <2>1. /\ pc[c] = "backoff" /\ pc'[c] \in {"counting", "sending"}
        /\ \A d \in Calls : d # c => pc'[d] = pc[d]
        /\ UNCHANGED <<wallet, nonce, busy, pool>>
    BY <1>8 DEF retry, chainVars, TypeOK
  <2>2. Holds(c) /\ \A t \in pool : t.call # c
    BY <2>1 DEF OneTransactionPerWallet, Holds, Tracked
  <2>3. QED
    BY <1>0, <2>1, <2>2, HolderKeeps DEF OneTransactionPerWallet
<1>9. ASSUME NEW c \in Calls, receiptFound(c) \/ receiptTimeout(c)
      PROVE  OneTransactionPerWallet'
  <2>1. /\ pc[c] = "sent" /\ pc'[c] \in Concluded
        /\ \A d \in Calls : d # c => pc'[d] = pc[d]
        /\ UNCHANGED <<wallet, nonce, pool>>
        /\ busy' = [busy EXCEPT ![wallet[c]] = FALSE]
    BY <1>9 DEF receiptFound, receiptTimeout, endPolling, chainVars, TypeOK, Concluded
  <2>2. Holds(c)
    BY <2>1 DEF Holds, Tracked
  <2>3. Tx(c) \notin pool
    <3>1. CASE receiptFound(c)
      <4>1. executed[c] > 0
        BY <3>1 DEF receiptFound
      <4>2. nonce[c] < count[wallet[c]] /\ nonce[c] \in Nat /\ count[wallet[c]] \in Nat
        BY <4>1 DEF NonceInv, TypeOK
      <4>3. ASSUME Tx(c) \in pool PROVE nonce[c] >= count[wallet[c]]
        BY <4>3 DEF NonceInv, Tx
      <4>4. QED
        BY <4>2, <4>3
    <3>2. CASE receiptTimeout(c)
      BY <3>2 DEF receiptTimeout, Tracked
    <3>3. QED
      BY <1>9, <3>1, <3>2
  <2>4. \A t \in pool : t.call # c
    BY <1>0, <2>3 DEF OneTransactionPerWallet, Tx
  <2>5. QED
    BY <1>0, <2>1, <2>2, <2>4, HolderLeaves DEF OneTransactionPerWallet
<1>10. ASSUME NEW t \in pool, mine(t) \/ drop(t)
       PROVE  OneTransactionPerWallet'
  <2>1. pool' \subseteq pool /\ UNCHANGED <<pc, wallet, nonce, busy>>
    BY <1>10 DEF mine, drop
  <2>2. QED
    BY <2>1 DEF OneTransactionPerWallet, Holds
<1>11. CASE UNCHANGED vars
  BY <1>11 DEF vars, OneTransactionPerWallet, Holds
<1>12. ASSUME NEW c \in Calls, writeContract(c)
       PROVE  OneTransactionPerWallet'
  BY <1>12 DEF writeContract, Tracked
<1>13. QED
  BY <1>1, <1>2, <1>3, <1>5, <1>6, <1>7, <1>8, <1>9, <1>10, <1>11, <1>12
     DEF Next, callStep, chainStep

\* When the flag covers every transaction from before its nonce is read
\* until its fate is known, a wallet has one transaction at a time.
THEOREM SerialWallets ==
    ASSUME Tracked
    PROVE  Spec => []OneTransactionPerWallet
<1>1. TypeOK /\ NonceInv /\ OneTransactionPerWallet /\ [Next]_vars
        => OneTransactionPerWallet'
  BY OneTransactionStep
<1>2. QED
  BY <1>1, TypeCorrect, NonceInvInit, NonceInvStep, OneTransactionInit, PTL DEF Spec

\* And so no two transactions that may still be mined have the same nonce.
THEOREM NonceSafety ==
    ASSUME Tracked
    PROVE  Spec => []NoNonceConflict
<1>1. TypeOK /\ OneTransactionPerWallet => NoNonceConflict
  BY DEF Tracked, TypeOK, OneTransactionPerWallet, NoNonceConflict, Holds
<1>2. QED
  BY <1>1, TypeCorrect, SerialWallets, PTL
-----------------------------------------------------------------------------
(***************************************************************************)
(* The refinement: what a wallet's busy flag does is what TxSlot allows.   *)
(***************************************************************************)
Finished == {c \in Calls : pc[c] \in Concluded}

\* The slot of a wallet has the call that works with the wallet.
HolderInv ==
    /\ SlotHolder \in [Wallets -> Calls \union {NoCall}]
    /\ \A w \in Wallets : \A c \in Calls : SlotHolder[w] = c <=> Holds(c) /\ wallet[c] = w
    /\ \A w \in Wallets : SlotHolder[w] = NoCall <=> ~busy[w]

LEMMA HolderIsUnique == TypeOK /\ OneTransactionPerWallet => HolderInv
<1> SUFFICES ASSUME TypeOK, OneTransactionPerWallet
             PROVE  HolderInv
  OBVIOUS
<1>1. ASSUME NEW w \in Wallets
      PROVE  \/ /\ SlotHolder[w] \in Calls /\ busy[w]
                /\ Holds(SlotHolder[w]) /\ wallet[SlotHolder[w]] = w
             \/ /\ SlotHolder[w] = NoCall /\ ~busy[w]
                /\ ~ \E c \in Calls : Holds(c) /\ wallet[c] = w
  <2>1. busy[w] <=> \E c \in Calls : Holds(c) /\ wallet[c] = w
    BY DEF OneTransactionPerWallet
  <2>2. CASE \E c \in Calls : Holds(c) /\ wallet[c] = w
    <3>1. SlotHolder[w] = CHOOSE c \in Calls : Holds(c) /\ wallet[c] = w
      BY <2>2 DEF SlotHolder
    <3>2. QED
      BY <2>1, <2>2, <3>1
  <2>3. CASE ~ \E c \in Calls : Holds(c) /\ wallet[c] = w
    BY <2>1, <2>3 DEF SlotHolder
  <2>4. QED
    BY <2>2, <2>3
<1>2. DOMAIN SlotHolder = Wallets /\ SlotHolder = [w \in Wallets |-> SlotHolder[w]]
  BY DEF SlotHolder
<1>3. SlotHolder \in [Wallets -> Calls \union {NoCall}]
  BY <1>1, <1>2
<1>4. \A c, d \in Calls : (Holds(c) /\ Holds(d) /\ wallet[c] = wallet[d]) => c = d
  BY DEF OneTransactionPerWallet
<1>5. NoCall \notin Calls
  BY KindsAssumption
<1>6. QED
  BY <1>1, <1>3, <1>4, <1>5 DEF HolderInv

\* One call changes its place, and its wallet only while it has no slot.
OneCallMoves(c) ==
    /\ pc' = [pc EXCEPT ![c] = pc'[c]]
    /\ \A d \in Calls : d # c => wallet'[d] = wallet[d]

LEMMA SlotUnchanged ==
    ASSUME HolderInv, HolderInv', TypeOK, NEW c \in Calls, OneCallMoves(c),
           \/ Holds(c) /\ Holds(c)' /\ wallet'[c] = wallet[c]
           \/ ~Holds(c) /\ ~Holds(c)',
           pc[c] \in Concluded <=> pc'[c] \in Concluded
    PROVE  UNCHANGED <<SlotHolder, Finished>>
<1>1. \A d \in Calls : d # c => pc'[d] = pc[d] /\ wallet'[d] = wallet[d]
  BY DEF OneCallMoves, TypeOK
<1>2. \A d \in Calls : (Holds(d) <=> Holds(d)') /\ (Holds(d) => wallet'[d] = wallet[d])
  BY <1>1 DEF Holds
<1>3. \A d \in Calls : pc[d] \in Concluded <=> pc'[d] \in Concluded
  BY <1>1
<1>4. ASSUME NEW w \in Wallets
      PROVE  SlotHolder'[w] = SlotHolder[w]
  <2>1. /\ SlotHolder[w] \in Calls \union {NoCall} /\ SlotHolder'[w] \in Calls \union {NoCall}
        /\ \A d \in Calls : SlotHolder[w] = d <=> SlotHolder'[w] = d
    BY <1>2 DEF HolderInv
  <2>2. QED
    BY <2>1
<1>5. SlotHolder' = SlotHolder
  BY <1>4 DEF HolderInv
<1>6. Finished' = Finished
  BY <1>3 DEF Finished
<1>7. QED
  BY <1>5, <1>6

\* The slot of the call's wallet changes hands, the others do not.
LEMMA SlotChanges ==
    ASSUME HolderInv, HolderInv', TypeOK, NEW c \in Calls, OneCallMoves(c),
           wallet'[c] = wallet[c],
           NEW h \in {c, NoCall}, SlotHolder[wallet[c]] \in {c, NoCall},
           IF h = c THEN Holds(c)' ELSE ~Holds(c)'
    PROVE  SlotHolder' = [SlotHolder EXCEPT ![wallet[c]] = h]
<1> DEFINE v == wallet[c]
<1>1. v \in Wallets /\ NoCall \notin Calls
  BY KindsAssumption DEF TypeOK
<1>2. \A d \in Calls : d # c => (Holds(d) <=> Holds(d)') /\ wallet'[d] = wallet[d]
  BY DEF OneCallMoves, TypeOK, Holds
<1>3. ASSUME NEW w \in Wallets, w # v
      PROVE  SlotHolder'[w] = SlotHolder[w]
  <2>1. /\ SlotHolder[w] \in Calls \union {NoCall} /\ SlotHolder'[w] \in Calls \union {NoCall}
        /\ \A d \in Calls : SlotHolder[w] = d <=> SlotHolder'[w] = d
    BY <1>2, <1>3 DEF HolderInv
  <2>2. QED
    BY <2>1
<1>4. SlotHolder'[v] = h
  <2>1. CASE h = c
    BY <1>1, <2>1 DEF HolderInv
  <2>2. CASE h = NoCall
    <3>1. \A d \in Calls : SlotHolder'[v] # d
      <4>1. \A d \in Calls : d # c => SlotHolder[v] # d
        BY <1>1
      <4>2. QED
        BY <1>1, <1>2, <2>2, <4>1 DEF HolderInv
    <3>2. SlotHolder'[v] \in Calls \union {NoCall}
      BY <1>1 DEF HolderInv
    <3>3. QED
      BY <2>2, <3>1, <3>2
  <2>3. QED
    BY <2>1, <2>2
<1> HIDE DEF v
<1>5. /\ SlotHolder \in [Wallets -> Calls \union {NoCall}]
      /\ SlotHolder' \in [Wallets -> Calls \union {NoCall}]
  BY DEF HolderInv
<1>6. SlotHolder' = [SlotHolder EXCEPT ![v] = h]
  BY <1>1, <1>3, <1>4, <1>5
<1>7. QED
  BY <1>6 DEF v

\* A call takes the free slot of its wallet, leaves it, or is over without one.
LEMMA TakesSlot ==
    ASSUME HolderInv, HolderInv', TypeOK, NEW c \in Calls, OneCallMoves(c),
           wallet' = wallet, pc[c] \notin Concluded, ~Holds(c), Holds(c)', ~busy[wallet[c]]
    PROVE  Slot!Take(c, wallet[c])
<1>1. wallet[c] \in Wallets /\ SlotHolder[wallet[c]] = NoCall
  BY DEF HolderInv, TypeOK
<1>2. \A v \in Wallets : SlotHolder[v] # c
  BY DEF HolderInv
<1>3. SlotHolder' = [SlotHolder EXCEPT ![wallet[c]] = c]
  BY <1>1, SlotChanges
<1>4. pc'[c] \notin Concluded
  BY DEF Holds, Concluded
<1>5. Finished' = Finished
  BY <1>4 DEF Finished, OneCallMoves, TypeOK
<1>6. QED
  BY <1>1, <1>2, <1>3, <1>5 DEF Slot!Take, Finished

LEMMA LeavesSlot ==
    ASSUME HolderInv, HolderInv', TypeOK, NEW c \in Calls, OneCallMoves(c),
           wallet' = wallet, Holds(c), pc'[c] \in Concluded
    PROVE  \E w \in Wallets : Slot!Leave(w)
<1>1. wallet[c] \in Wallets /\ SlotHolder[wallet[c]] = c /\ c # NoCall
  BY KindsAssumption DEF HolderInv, TypeOK
<1>2. ~Holds(c)'
  BY DEF Holds, Concluded
<1>3. SlotHolder' = [SlotHolder EXCEPT ![wallet[c]] = NoCall]
  BY <1>1, <1>2, SlotChanges
<1>4. Finished' = Finished \union {c}
  BY DEF Finished, OneCallMoves, TypeOK
<1>5. QED
  BY <1>1, <1>3, <1>4 DEF Slot!Leave, Finished

LEMMA AbandonsSlot ==
    ASSUME HolderInv, HolderInv', TypeOK, NEW c \in Calls, OneCallMoves(c),
           wallet' = wallet, pc[c] \notin Concluded, ~Holds(c), pc'[c] \in Concluded
    PROVE  Slot!Abandon(c)
<1>1. \A v \in Wallets : SlotHolder[v] # c
  BY DEF HolderInv
<1>2. /\ SlotHolder \in [Wallets -> Calls \union {NoCall}]
      /\ SlotHolder' \in [Wallets -> Calls \union {NoCall}]
  BY DEF HolderInv
<1>3. ~Holds(c)'
  BY DEF Holds, Concluded
<1>4. \A d \in Calls : (Holds(d) <=> Holds(d)') /\ wallet'[d] = wallet[d]
  BY <1>3 DEF OneCallMoves, TypeOK, Holds
<1>5. ASSUME NEW w \in Wallets
      PROVE  SlotHolder'[w] = SlotHolder[w]
  <2>1. /\ SlotHolder[w] \in Calls \union {NoCall} /\ SlotHolder'[w] \in Calls \union {NoCall}
        /\ \A d \in Calls : SlotHolder[w] = d <=> SlotHolder'[w] = d
    BY <1>4 DEF HolderInv
  <2>2. QED
    BY <2>1
<1>6. SlotHolder' = SlotHolder
  BY <1>2, <1>5
<1>7. Finished' = Finished \union {c}
  BY DEF Finished, OneCallMoves, TypeOK
<1>8. QED
  BY <1>1, <1>6, <1>7 DEF Slot!Abandon, Finished

SlotStep == [Slot!SlotNext]_(Slot!slotVars)

LEMMA CallStepIsSlotStep ==
    ASSUME Tracked, TypeOK, HolderInv, HolderInv', NEW c \in Calls, callStep(c)
    PROVE  SlotStep
<1>1. ASSUME UNCHANGED <<SlotHolder, Finished>>
      PROVE  SlotStep
  BY <1>1 DEF SlotStep, Slot!slotVars, Finished
<1>2. ASSUME NEW w \in Wallets, Slot!Take(c, w) \/ Slot!Leave(w) \/ Slot!Abandon(c)
      PROVE  SlotStep
  BY <1>2 DEF SlotStep, Slot!SlotNext
<1>3. Client(c) = wallet[c] /\ wallet[c] \in Wallets
  BY OwnClient
<1>4. c \notin Raw
  BY DEF Tracked
<1> USE DEF OneCallMoves, Holds, Concluded, TypeOK
<1>5. CASE getRandomSigner(c) \/ beginDirect(c)
  BY <1>1, <1>5, SlotUnchanged DEF getRandomSigner, beginDirect
<1>6. CASE waitUntilFree(c) \/ retry(c)
  BY <1>1, <1>4, <1>6, SlotUnchanged DEF waitUntilFree, retry
<1>7. CASE sendAccepted(c)
  BY <1>1, <1>4, <1>7, SlotUnchanged DEF sendAccepted, startPolling
<1>8. ASSUME Holds(c), attemptFailed(c), UNCHANGED wallet
      PROVE  SlotStep
  <2>1. CASE pc' = [pc EXCEPT ![c] = "backoff"]
    BY <1>1, <1>4, <1>8, <2>1, SlotUnchanged
  <2>2. CASE pc' = [pc EXCEPT ![c] = "failed"]
    <3>1. OneCallMoves(c) /\ Holds(c) /\ pc'[c] \in Concluded /\ wallet' = wallet
      BY <1>8, <2>2
    <3> HIDE DEF OneCallMoves, Holds, Concluded
    <3>2. \E w \in Wallets : Slot!Leave(w)
      BY <3>1, LeavesSlot
    <3>3. QED
      BY <1>2, <3>2
  <2>3. QED
    BY <1>8, <2>1, <2>2 DEF attemptFailed
<1>9. CASE getTransactionCount(c)
  <2>1. CASE pc' = [pc EXCEPT ![c] = "sending"]
    BY <1>1, <1>4, <1>9, <2>1, SlotUnchanged DEF getTransactionCount
  <2>2. CASE attemptFailed(c)
    BY <1>4, <1>8, <1>9, <2>2 DEF getTransactionCount
  <2>3. QED
    BY <1>9, <2>1, <2>2 DEF getTransactionCount
<1>10. CASE sendThrows(c)
  BY <1>4, <1>8, <1>10 DEF sendThrows
<1>11. CASE acquire(c)
  BY <1>2, <1>3, <1>4, <1>11, TakesSlot DEF acquire
<1>12. CASE receiptFound(c) \/ receiptTimeout(c)
  <2>1. OneCallMoves(c) /\ Holds(c) /\ pc'[c] \in Concluded /\ wallet' = wallet
    BY <1>4, <1>12 DEF receiptFound, receiptTimeout, endPolling
  <2> HIDE DEF OneCallMoves, Holds, Concluded
  <2>2. \E w \in Wallets : Slot!Leave(w)
    BY <2>1, LeavesSlot
  <2>3. QED
    BY <1>2, <2>2
<1>13. CASE noOpportunity(c)
  BY <1>2, <1>3, <1>13, AbandonsSlot DEF noOpportunity
<1>14. CASE writeContract(c)
  BY <1>4, <1>14 DEF writeContract
<1>15. QED
  BY <1>5, <1>6, <1>7, <1>9, <1>10, <1>11, <1>12, <1>13, <1>14 DEF callStep

LEMMA OtherStepIsSlotStep ==
    ASSUME HolderInv, HolderInv', UNCHANGED <<pc, wallet>>
    PROVE  SlotStep
<1>1. ASSUME NEW w \in Wallets
      PROVE  SlotHolder'[w] = SlotHolder[w]
  <2>1. /\ SlotHolder[w] \in Calls \union {NoCall} /\ SlotHolder'[w] \in Calls \union {NoCall}
        /\ \A d \in Calls : SlotHolder[w] = d <=> SlotHolder'[w] = d
    BY DEF HolderInv, Holds
  <2>2. QED
    BY <2>1
<1>2. SlotHolder' = SlotHolder
  BY <1>1 DEF HolderInv
<1>3. QED
  BY <1>2 DEF SlotStep, Slot!slotVars

\* In every execution the busy flags do what the slots of TxSlot do: a wallet
\* serves one call at a time, which keeps it until its outcome is known and is
\* served once (sendTx, tryGetReceipt).  This is ImplementsTxSlot but for its
\* fairness.
THEOREM FlagImplementsSlot ==
    ASSUME Tracked
    PROVE  Spec => Slot!SlotInit /\ [][Slot!SlotNext]_(Slot!slotVars)
<1>1. Init => Slot!SlotInit
  BY DEF Init, Slot!SlotInit, SlotHolder, Holds, Concluded
<1>2. ASSUME TypeOK, HolderInv, HolderInv', [Next]_vars
      PROVE  SlotStep
  <2>1. CASE \E c \in Calls : callStep(c)
    BY <1>2, <2>1, CallStepIsSlotStep
  <2>2. CASE chainStep \/ UNCHANGED vars
    BY <1>2, <2>2, OtherStepIsSlotStep DEF chainStep, mine, drop, vars
  <2>3. QED
    BY <1>2, <2>1, <2>2 DEF Next
<1>3. Spec => []HolderInv
  BY TypeCorrect, SerialWallets, HolderIsUnique, PTL
<1>4. QED
  BY <1>1, <1>2, <1>3, TypeCorrect, PTL DEF Spec, SlotStep
=============================================================================
