---------------------------- MODULE VaultFunding ----------------------------
(***************************************************************************)
(* One vault that the main wallet owns: fundOwnedVaults tops it up at the  *)
(* start of a round when it is below its threshold (wallet/fundVault.ts),  *)
(* and convertHoldingsToGas sells the tokens that are left over            *)
(* (wallet/sweep.ts).  Orders take from the vault all the time.            *)
(*                                                                         *)
(* A transaction succeeds, reverts, is not accepted, or has no receipt in  *)
(* time; the last kind may be mined later.  Those of writeContract are     *)
(* numbered after the pending ones of the wallet, those of sendTx take the *)
(* place of the first of them or are refused (Signer).                     *)
(***************************************************************************)
EXTENDS Integers

CONSTANTS
    threshold,      \* the vault is funded below it
    topupAmount,
    swapped,        \* what a swap of gas yields: 105% of topupAmount
    MaxFailures     \* bound: calls that fail and receipts that are given up

ASSUME VaultFundingAssumption ==
    /\ threshold \in Nat /\ topupAmount \in Nat \ {0}
    /\ swapped \in Nat /\ swapped >= topupAmount
    /\ MaxFailures \in Nat

VARIABLES
    fundStage,      \* what the funding does next
    vault,          \* chain: balance of the vault
    tokens,         \* chain: the wallet's balance of the vault's token
    approved,       \* chain: the orderbook may take it
    unsettled,      \* transactions whose receipt was given up, by kind
    doubled,        \* history: kinds that were given up
    fundFailures    \* history: how much failed so far

fundVars == <<fundStage, vault, tokens, approved, unsettled, doubled, fundFailures>>

FundStages == {"idle", "balance", "swap", "allowance", "approve", "deposit"}
TxKinds == {"swap", "approve", "deposit", "sell"}

FundInit ==
    /\ fundStage = "idle" /\ vault \in 0 .. threshold
    /\ tokens = 0 /\ approved = FALSE
    /\ unsettled = [k \in TxKinds |-> 0] /\ doubled = {} /\ fundFailures = 0

NoneLate == \A k \in TxKinds : unsettled[k] = 0

\* What a transaction does when it is mined.
takesEffect(kind) ==
    \/ /\ kind = "swap" /\ tokens' = tokens + swapped
       /\ UNCHANGED <<vault, approved>>
    \/ /\ kind = "approve" /\ approved' = TRUE
       /\ UNCHANGED <<vault, tokens>>
    \/ /\ kind = "deposit"
       /\ IF approved /\ tokens >= topupAmount
            THEN tokens' = tokens - topupAmount /\ vault' = vault + topupAmount
            ELSE UNCHANGED <<tokens, vault>>
       /\ UNCHANGED approved
    \/ /\ kind = "sell" /\ tokens > 0 /\ tokens' \in 0 .. tokens - 1
       /\ UNCHANGED <<vault, approved>>

reverted == UNCHANGED <<vault, tokens, approved>>

failing == fundFailures < MaxFailures /\ fundFailures' = fundFailures + 1
-----------------------------------------------------------------------------
(***************************************************************************)
(* Seeded faults, for the mutation runs.                                   *)
(***************************************************************************)

\* Each round acquires what it deposits, whatever the wallet has.
BugAlwaysSwaps == TRUE

\* An allowance that does not suffice is not increased.
BugSkipsApprove == "deposit"
-----------------------------------------------------------------------------
goTo(s) == fundStage' = s

\* Its receipt came; a transaction with a later number than a pending one has
\* to wait for it.
succeeds(kind) ==
    /\ NoneLate /\ takesEffect(kind)
    /\ UNCHANGED <<unsettled, doubled, fundFailures>>

\* It reverted, was refused, or could not be sent.
fails == failing /\ reverted /\ UNCHANGED <<unsettled, doubled>>

givenUp(kind) ==
    /\ failing
    /\ unsettled' = [unsettled EXCEPT ![kind] = @ + 1]
    /\ doubled' = doubled \union {kind}
    /\ UNCHANGED <<vault, tokens, approved>>

\* A transaction of sendTx with the number of a pending one takes its place.
succeedsInPlace(kind) ==
    \E k \in TxKinds :
        /\ unsettled[k] > 0
        /\ unsettled' = [unsettled EXCEPT ![k] = @ - 1]
        /\ takesEffect(kind)
        /\ UNCHANGED <<doubled, fundFailures>>

givenUpInPlace(kind) ==
    \E k \in TxKinds :
        /\ unsettled[k] > 0
        /\ unsettled' = [[unsettled EXCEPT ![k] = @ - 1] EXCEPT ![kind] = @ + 1]
        /\ failing
        /\ doubled' = doubled \union {kind}
        /\ UNCHANGED <<vault, tokens, approved>>

\* The ends of a transaction of sendTx that was accepted.
sentInTime(kind) == succeeds(kind) \/ succeedsInPlace(kind)
sentTooLate(kind) == (NoneLate /\ givenUp(kind)) \/ givenUpInPlace(kind)

\* vaultBalance
fundVault ==
    /\ fundStage = "idle" /\ vault < threshold
    /\ goTo("balance")
    /\ UNCHANGED <<vault, tokens, approved, unsettled, doubled, fundFailures>>

mustSwap == topupAmount > tokens

\* balanceOf; a read that fails ends the funding of this round.
readBalance ==
    /\ fundStage = "balance"
    /\ \/ goTo(IF mustSwap THEN "swap" ELSE "allowance") /\ UNCHANGED fundFailures
       \/ goTo("idle") /\ failing
    /\ UNCHANGED <<vault, tokens, approved, unsettled, doubled>>

\* sendTx
swap ==
    /\ fundStage = "swap"
    /\ \/ sentInTime("swap") /\ goTo("allowance")
       \/ (fails \/ sentTooLate("swap")) /\ goTo("idle")

notAllowed == "approve"

allowance ==
    /\ fundStage = "allowance"
    /\ \/ goTo(IF approved THEN "deposit" ELSE notAllowed) /\ UNCHANGED fundFailures
       \/ goTo("idle") /\ failing
    /\ UNCHANGED <<vault, tokens, approved, unsettled, doubled>>

\* writeContract
approve ==
    /\ fundStage = "approve"
    /\ \/ succeeds("approve") /\ goTo("deposit")
       \/ (fails \/ givenUp("approve")) /\ goTo("idle")

deposit ==
    /\ fundStage = "deposit" /\ goTo("idle")
    /\ succeeds("deposit") \/ fails \/ givenUp("deposit")

\* Once a day, after a round: all of the token, if that is worth its gas.
convertHoldingsToGas ==
    /\ fundStage = "idle" /\ tokens > 0
    /\ (sentInTime("sell") /\ tokens' = 0) \/ sentTooLate("sell")
    /\ UNCHANGED fundStage

(***************************************************************************)
(* The chain: late transactions, and orders that take from the vault.      *)
(***************************************************************************)

mineLate(kind) ==
    /\ unsettled[kind] > 0
    /\ unsettled' = [unsettled EXCEPT ![kind] = @ - 1]
    /\ takesEffect(kind) \/ reverted
    /\ UNCHANGED <<fundStage, doubled, fundFailures>>

takeFromVault ==
    /\ vault > 0 /\ vault' = vault - 1
    /\ UNCHANGED <<fundStage, tokens, approved, unsettled, doubled, fundFailures>>

fundStep ==
    \/ fundVault \/ readBalance \/ swap \/ allowance \/ approve \/ deposit

FundNext ==
    \/ fundStep \/ convertHoldingsToGas \/ takeFromVault
    \/ \E kind \in TxKinds : mineLate(kind)

FundSpec == FundInit /\ [][FundNext]_fundVars
-----------------------------------------------------------------------------
(***************************************************************************)
(* Properties                                                              *)
(***************************************************************************)

FundTypeOK ==
    /\ fundStage \in FundStages
    /\ vault \in Nat /\ tokens \in Nat /\ approved \in BOOLEAN
    /\ unsettled \in [TxKinds -> 0 .. MaxFailures] /\ doubled \subseteq TxKinds
    /\ fundFailures \in 0 .. MaxFailures

\* Whatever fails on the way, the vault is filled and tokens are bought only
\* once for each time that the vault is low, unless the receipt of such a
\* transaction was given up (fundVault).
FundedOnce ==
    /\ "deposit" \notin doubled => vault < threshold + topupAmount
    /\ "swap" \notin doubled => tokens < topupAmount + swapped

\* A vault below its threshold is funded in the end, whatever failed on the
\* way and whatever was sold meanwhile.
VaultFunded == vault < threshold ~> vault >= threshold

\* Not so if receipts come late: the next round deposits again.
NeverFundedTwice == vault < threshold + topupAmount
=============================================================================
