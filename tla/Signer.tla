------------------------------- MODULE Signer -------------------------------
(***************************************************************************)
(* The life of the transactions the solver sends: getRandomSigner picks a  *)
(* free wallet, sendTx waits for the wallet's busy flag, fetches a nonce,  *)
(* submits with one retry, and tryGetReceipt polls for the receipt and     *)
(* clears the flag.  writeContract sends without the flag, and with a      *)
(* write RPC configured every order transaction goes through a client of   *)
(* its own.                                                                *)
(*                                                                         *)
(* The event loop runs one continuation at a time, so an action is what    *)
(* happens between two awaits.  The chain and the mempool of each wallet   *)
(* are the environment.                                                    *)
(***************************************************************************)
EXTENDS Integers, FiniteSets

CONSTANTS
    Wallets,        \* accounts that can send: the main wallet and the workers
    Main,           \* the main wallet
    Workers,        \* circulating worker wallets ({} = single wallet mode)
    Orders,         \* calls of processOrderInit: quote, trade, maybe sendTx
    Direct,         \* calls of signer.sendTx by wallet operations
    Raw,            \* calls of signer.writeContract by wallet operations
    Home,           \* the wallet of each Direct and Raw call
    Stage,          \* position of each call in the main loop, see Ready
    NoCall,         \* a value that is no call
    WriteRpc,       \* is a write RPC configured
    SlowReceipt,    \* may a receipt take longer than the 60s timeout
    LostResponse,   \* may a node accept a transaction and the answer be lost
    StaleNonce      \* may a node that answers getTransactionCount lag behind

Calls == Orders \union Direct \union Raw

ASSUME KindsAssumption ==
    /\ Orders \intersect Direct = {}
    /\ Orders \intersect Raw = {}
    /\ Direct \intersect Raw = {}
    /\ NoCall \notin Calls
    /\ Wallets \intersect Calls = {}
ASSUME WalletsAssumption == Main \in Wallets /\ Workers \subseteq Wallets
ASSUME HomeAssumption == Home \in [Direct \union Raw -> Wallets]
ASSUME StageAssumption == Stage \in [Calls -> Nat]
ASSUME FlagsAssumption ==
    /\ WriteRpc \in BOOLEAN
    /\ SlowReceipt \in BOOLEAN
    /\ LostResponse \in BOOLEAN
    /\ StaleNonce \in BOOLEAN

VARIABLES
    pc,             \* where each call is
    wallet,         \* the wallet a call works with
    nonce,          \* sendTx's retained nonce, Undefined until fetched
    attempt,        \* sendTx's submission attempts so far
    busy,           \* the busy flag of each client object
    older,          \* running receipt polls that began before a call's poll
    count,          \* chain: transactions mined per wallet
    pool,           \* chain: accepted transactions that may still be mined
    executed        \* chain: how many times a call's transaction was mined

chainVars == <<count, pool, executed>>
vars == <<pc, wallet, nonce, attempt, busy, older, count, pool, executed>>

Undefined == -1

Concluded == {"skipped", "mined", "timedout", "failed"}
Submitted == {"sent"} \union Concluded
PcValues  == {"idle", "picked", "waiting", "counting", "sending", "backoff"}
                \union Submitted

(***************************************************************************)
(* Client objects.  A wallet has one client that lives as long as the      *)
(* wallet; asWriteSigner makes a fresh client, with a fresh busy flag, for *)
(* each order transaction when a write RPC is configured.                  *)
(***************************************************************************)
Clients == Wallets \union Calls

asWriteSigner(c) == IF WriteRpc THEN c ELSE wallet[c]

Client(c) == IF c \in Orders THEN asWriteSigner(c) ELSE wallet[c]

Tx(c) == [call |-> c, nonce |-> nonce[c]]

(***************************************************************************)
(* The main loop: the orders of a batch run concurrently and the next      *)
(* batch, or the wallet operations, start when each has a settle function, *)
(* that is when its transaction is submitted; the receipt is awaited in    *)
(* the background.  Wallet operations run one after the other and await    *)
(* their receipts.                                                         *)
(***************************************************************************)
Ready(c) ==
    \A d \in Calls : Stage[d] < Stage[c] =>
        pc[d] \in IF d \in Orders THEN Submitted ELSE Concluded

Init ==
    /\ pc = [c \in Calls |-> "idle"]
    /\ wallet = [c \in Calls |-> IF c \in Orders THEN Main ELSE Home[c]]
    /\ nonce = [c \in Calls |-> Undefined]
    /\ attempt = [c \in Calls |-> 1]
    /\ busy = [k \in Clients |-> FALSE]
    /\ older = [c \in Calls |-> {}]
    /\ count = [w \in Wallets |-> 0]
    /\ pool = {}
    /\ executed = [c \in Calls |-> 0]

\* The hash is known: the poll for its receipt begins.
startPolling(c) ==
    /\ pc' = [pc EXCEPT ![c] = "sent"]
    /\ older' = [older EXCEPT ![c] = {d \in Calls : pc[d] = "sent"}]

\* The poll ends, and with it the wallet's client is free.
endPolling(c, outcome) ==
    /\ pc[c] = "sent"
    /\ pc' = [pc EXCEPT ![c] = outcome]
    /\ busy' = [busy EXCEPT ![wallet[c]] = FALSE]
    /\ older' = [d \in Calls |-> IF d = c THEN {} ELSE older[d] \ {c}]
-----------------------------------------------------------------------------
(***************************************************************************)
(* Seeded faults: the mutated forms that the project's mutation runs       *)
(* substitute for the definitions below.                                   *)
(***************************************************************************)

\* sendTx takes the signer without looking at the flag.
BugAcquireIgnoresBusy(c) ==
    /\ c \notin Raw
    /\ pc[c] \in {"picked", "waiting"}
    /\ pc' = [pc EXCEPT ![c] = "counting"]
    /\ busy' = [busy EXCEPT ![Client(c)] = TRUE]
    /\ UNCHANGED <<wallet, nonce, attempt, older, chainVars>>

\* The catch of the first attempt forgets the nonce.
BugForgetsNonce(c) ==
    \/ /\ attempt[c] = 1
       /\ pc' = [pc EXCEPT ![c] = "backoff"]
       /\ attempt' = [attempt EXCEPT ![c] = 2]
       /\ nonce' = [nonce EXCEPT ![c] = Undefined]
       /\ UNCHANGED busy
    \/ /\ attempt[c] = 2
       /\ pc' = [pc EXCEPT ![c] = "failed"]
       /\ busy' = [busy EXCEPT ![Client(c)] = FALSE]
       /\ UNCHANGED <<nonce, attempt>>

\* The catch of the second attempt leaves the flag set.
BugKeepsBusy(c) ==
    \/ /\ attempt[c] = 1
       /\ pc' = [pc EXCEPT ![c] = "backoff"]
       /\ attempt' = [attempt EXCEPT ![c] = 2]
       /\ UNCHANGED <<nonce, busy>>
    \/ /\ attempt[c] = 2
       /\ pc' = [pc EXCEPT ![c] = "failed"]
       /\ UNCHANGED <<nonce, attempt, busy>>

\* The first failed attempt already frees the signer.
BugFreesBeforeRetry(c) ==
    \/ /\ attempt[c] = 1
       /\ pc' = [pc EXCEPT ![c] = "backoff"]
       /\ attempt' = [attempt EXCEPT ![c] = 2]
       /\ busy' = [busy EXCEPT ![Client(c)] = FALSE]
       /\ UNCHANGED nonce
    \/ /\ attempt[c] = 2
       /\ pc' = [pc EXCEPT ![c] = "failed"]
       /\ busy' = [busy EXCEPT ![Client(c)] = FALSE]
       /\ UNCHANGED <<nonce, attempt>>

\* The flag is cleared as soon as the hash is known.
BugFreesOnSubmit(c) ==
    /\ pc[c] = "sending"
    /\ nonce[c] >= count[wallet[c]]
    /\ pool' = pool \union {Tx(c)}
    /\ startPolling(c)
    /\ busy' = [busy EXCEPT ![Client(c)] = FALSE]
    /\ UNCHANGED <<wallet, nonce, attempt, count, executed>>
-----------------------------------------------------------------------------
(***************************************************************************)
(* Orders: pick a wallet, look for a trade.                                *)
(***************************************************************************)

\* getRandomSigner: the main wallet, busy or not, when there are no workers;
\* otherwise poll until some worker is not busy and return it unreserved.
getRandomSigner(c) ==
    /\ c \in Orders
    /\ pc[c] = "idle"
    /\ Ready(c)
    /\ \E w \in (IF Workers = {} THEN {Main} ELSE {v \in Workers : ~busy[v]}) :
         wallet' = [wallet EXCEPT ![c] = w]
    /\ pc' = [pc EXCEPT ![c] = "picked"]
    /\ UNCHANGED <<nonce, attempt, busy, older, chainVars>>

\* processOrder returns without a transaction (no quote, price or trade).
noOpportunity(c) ==
    /\ c \in Orders
    /\ pc[c] = "picked"
    /\ pc' = [pc EXCEPT ![c] = "skipped"]
    /\ UNCHANGED <<wallet, nonce, attempt, busy, older, chainVars>>

\* A wallet operation reaches its sendTx.
beginDirect(c) ==
    /\ c \in Direct
    /\ pc[c] = "idle"
    /\ Ready(c)
    /\ pc' = [pc EXCEPT ![c] = "picked"]
    /\ UNCHANGED <<wallet, nonce, attempt, busy, older, chainVars>>
-----------------------------------------------------------------------------
(***************************************************************************)
(* sendTx                                                                  *)
(***************************************************************************)

\* if (signer.busy) await signer.waitUntilFree()
waitUntilFree(c) ==
    /\ c \notin Raw
    /\ pc[c] = "picked"
    /\ busy[Client(c)]
    /\ pc' = [pc EXCEPT ![c] = "waiting"]
    /\ UNCHANGED <<wallet, nonce, attempt, busy, older, chainVars>>

\* The flag is seen clear and set in one turn of the event loop.
acquire(c) ==
    /\ c \notin Raw
    /\ pc[c] \in {"picked", "waiting"}
    /\ ~busy[Client(c)]
    /\ busy' = [busy EXCEPT ![Client(c)] = TRUE]
    /\ pc' = [pc EXCEPT ![c] = "counting"]
    /\ UNCHANGED <<wallet, nonce, attempt, older, chainVars>>

\* The two catch blocks: keep the nonce and the flag and retry once after
\* retryDelay, then free the signer and throw.
attemptFailed(c) ==
    \/ /\ attempt[c] = 1
       /\ pc' = [pc EXCEPT ![c] = "backoff"]
       /\ attempt' = [attempt EXCEPT ![c] = 2]
       /\ UNCHANGED <<nonce, busy>>
    \/ /\ attempt[c] = 2
       /\ pc' = [pc EXCEPT ![c] = "failed"]
       /\ busy' = [busy EXCEPT ![Client(c)] = FALSE]
       /\ UNCHANGED <<nonce, attempt>>

\* What getTransactionCount(latest) may answer.
LatestCount(w) ==
    {count[w]} \union
        (IF StaleNonce /\ count[w] > 0 THEN {count[w] - 1} ELSE {})

getTransactionCount(c) ==
    /\ pc[c] = "counting"
    /\ \/ /\ \E n \in LatestCount(wallet[c]) : nonce' = [nonce EXCEPT ![c] = n]
          /\ pc' = [pc EXCEPT ![c] = "sending"]
          /\ UNCHANGED <<attempt, busy>>
       \/ attemptFailed(c)
    /\ UNCHANGED <<wallet, older, chainVars>>

\* A node takes a transaction whose nonce is not used up yet.
sendAccepted(c) ==
    /\ pc[c] = "sending"
    /\ nonce[c] >= count[wallet[c]]
    /\ pool' = pool \union {Tx(c)}
    /\ startPolling(c)
    /\ UNCHANGED <<wallet, nonce, attempt, busy, count, executed>>

\* sendTransaction throws: rejected by the node, or accepted and the answer
\* lost on the way back.
sendThrows(c) ==
    /\ pc[c] = "sending"
    /\ \/ UNCHANGED pool
       \/ /\ LostResponse
          /\ nonce[c] >= count[wallet[c]]
          /\ pool' = pool \union {Tx(c)}
    /\ attemptFailed(c)
    /\ UNCHANGED <<wallet, older, count, executed>>

\* send() again: the nonce is fetched only if the first try never got one.
retry(c) ==
    /\ pc[c] = "backoff"
    /\ pc' = [pc EXCEPT ![c] =
                IF nonce[c] = Undefined THEN "counting" ELSE "sending"]
    /\ UNCHANGED <<wallet, nonce, attempt, busy, older, chainVars>>
-----------------------------------------------------------------------------
(***************************************************************************)
(* writeContract: viem numbers the transaction after the wallet's pending  *)
(* ones and submits it; the busy flag is neither read nor set.             *)
(***************************************************************************)
Pending(w) == {t \in pool : wallet[t.call] = w}

\* getTransactionCount(pending): the first nonce that is neither used nor
\* taken by a pending transaction.
PendingCount(w) ==
    {n \in {count[w]} \union {t.nonce + 1 : t \in Pending(w)} :
        /\ \A m \in count[w] .. n - 1 : \E t \in Pending(w) : t.nonce = m
        /\ \A t \in Pending(w) : t.nonce # n}

writeContract(c) ==
    /\ c \in Raw
    /\ pc[c] = "idle"
    /\ Ready(c)
    /\ \/ \E n \in PendingCount(wallet[c]) :
            /\ nonce' = [nonce EXCEPT ![c] = n]
            /\ pool' = pool \union {[call |-> c, nonce |-> n]}
            /\ startPolling(c)
       \/ /\ pc' = [pc EXCEPT ![c] = "failed"]
          /\ UNCHANGED <<nonce, pool, older>>
    /\ UNCHANGED <<wallet, attempt, busy, count, executed>>
-----------------------------------------------------------------------------
(***************************************************************************)
(* tryGetReceipt: both outcomes clear the flag of the wallet's own client, *)
(* which is the client the transaction was sent with except for an order   *)
(* transaction sent through a write RPC.  All polls have the same timeout, *)
(* so they expire in the order they began.                                 *)
(***************************************************************************)
receiptFound(c) ==
    /\ executed[c] > 0
    /\ endPolling(c, "mined")
    /\ UNCHANGED <<wallet, nonce, attempt, chainVars>>

receiptTimeout(c) ==
    /\ SlowReceipt \/ Tx(c) \notin pool
    /\ older[c] = {}
    /\ endPolling(c, "timedout")
    /\ UNCHANGED <<wallet, nonce, attempt, chainVars>>
-----------------------------------------------------------------------------
(***************************************************************************)
(* The chain (external): it mines a wallet's transactions in nonce order,  *)
(* at most one per nonce, and may drop a pending one.                      *)
(***************************************************************************)
mine(t) ==
    /\ t \in pool
    /\ t.nonce = count[wallet[t.call]]
    /\ count' = [count EXCEPT ![wallet[t.call]] = @ + 1]
    /\ executed' = [executed EXCEPT ![t.call] = @ + 1]
    /\ pool' = {u \in pool : wallet[u.call] # wallet[t.call] \/ u.nonce # t.nonce}
    /\ UNCHANGED <<pc, wallet, nonce, attempt, busy, older>>

drop(t) ==
    /\ t \in pool
    /\ pool' = pool \ {t}
    /\ UNCHANGED <<pc, wallet, nonce, attempt, busy, older, count, executed>>

callStep(c) ==
    \/ getRandomSigner(c) \/ noOpportunity(c) \/ beginDirect(c)
    \/ waitUntilFree(c) \/ acquire(c)
    \/ getTransactionCount(c) \/ sendAccepted(c) \/ sendThrows(c) \/ retry(c)
    \/ writeContract(c)
    \/ receiptFound(c) \/ receiptTimeout(c)

chainStep == \E t \in pool : mine(t) \/ drop(t)

Next == (\E c \in Calls : callStep(c)) \/ chainStep

Spec == Init /\ [][Next]_vars

(***************************************************************************)
(* Fairness.  Timers, polling loops and awaited RPC calls (each has a      *)
(* transport timeout) always make a further step, so every call does; and  *)
(* the chain decides about a pending transaction.                          *)
(***************************************************************************)
FairSpec == Spec /\ (\A c \in Calls : WF_vars(callStep(c))) /\ WF_vars(chainStep)
-----------------------------------------------------------------------------
(***************************************************************************)
(* Properties                                                              *)
(***************************************************************************)

TypeOK ==
    /\ pc \in [Calls -> PcValues]
    /\ wallet \in [Calls -> Wallets]
    /\ nonce \in [Calls -> Nat \union {Undefined}]
    /\ attempt \in [Calls -> {1, 2}]
    /\ busy \in [Clients -> BOOLEAN]
    /\ older \in [Calls -> SUBSET Calls]
    /\ count \in [Wallets -> Nat]
    /\ pool \subseteq [call : Calls, nonce : Nat]
    /\ executed \in [Calls -> Nat]

\* One sendTx call never executes its transaction twice, although it may
\* submit it twice, the first answer may be lost, other calls may use the
\* same wallet without the flag, and the flag may be freed too early: the
\* retry reuses the nonce it already has (signer/actions.ts, send()).
AtMostOnce == \A c \in Calls : executed[c] <= 1

\* Two transactions of one wallet that may both still be mined never compete
\* for one nonce: what tryGetReceipt frees the signer late for ("to not
\* cause nonce conflicts").
NoNonceConflict ==
    \A t, u \in pool :
        (wallet[t.call] = wallet[u.call] /\ t.nonce = u.nonce) => t = u

\* A call that sendTx reported as failed has no transaction on the chain or
\* on its way there (round.ts reports it as "failed to submit the tx to
\* mempool").
FailedMeansNotSubmitted ==
    \A c \in Calls : pc[c] = "failed" =>
        executed[c] = 0 /\ \A t \in pool : t.call # c

\* The call works under the flag it took.
Holds(c) == c \notin Raw /\ pc[c] \in {"counting", "sending", "backoff", "sent"}

\* The busy flag of a wallet is set exactly while one call works with the
\* wallet, and every transaction of the wallet that can still be mined is
\* the one that call waits for.
OneTransactionPerWallet ==
    /\ \A c, d \in Calls : (Holds(c) /\ Holds(d) /\ wallet[c] = wallet[d]) => c = d
    /\ \A w \in Wallets : busy[w] <=> \E c \in Calls : Holds(c) /\ wallet[c] = w
    /\ \A t \in pool : pc[t.call] = "sent" /\ t.nonce = nonce[t.call]

\* Every call that starts gets an outcome: no lost wake-up, no flag left set
\* by a failed send, no wait for a receipt that never comes.
EveryCallConcludes == \A c \in Calls : pc[c] # "idle" ~> pc[c] \in Concluded

\* The refinement mapping to the abstract transaction slot.
SlotHolder ==
    [w \in Wallets |->
        IF \E c \in Calls : Holds(c) /\ wallet[c] = w
        THEN CHOOSE c \in Calls : Holds(c) /\ wallet[c] = w
        ELSE NoCall]

Slot == INSTANCE TxSlot WITH
            holder   <- SlotHolder,
            finished <- {c \in Calls : pc[c] \in Concluded}

\* The busy flag implements the one-slot-per-wallet discipline of TxSlot.
ImplementsTxSlot == Slot!SlotSpec
=============================================================================
