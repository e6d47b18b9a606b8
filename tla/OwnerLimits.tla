----------------------------- MODULE OwnerLimits -----------------------------
(***************************************************************************)
(* The limits of the owners of an orderbook: OrderManager.                 *)
(* downscaleProtection resets them every 250 rounds and divides them by    *)
(* what downscaleProtection of order/protection.ts computes from the       *)
(* vaults, as the event feed knows them, and from the orderbook's balances *)
(* on chain, which it reads.                                               *)
(*                                                                         *)
(* An owner that spreads its tokens over many vaults gets fewer turns      *)
(* (OwnerCursor), a configured limit is never touched.                     *)
(***************************************************************************)
EXTENDS Integers, FiniteSets, FiniteSetsExt

CONSTANTS
    Owners, Tokens, Vaults,
    Configured,         \* the owners with a limit in ownerLimits
    DEFAULT_OWNER_LIMIT,
    MaxBalance,         \* bound: balance of a vault
    Unread              \* the answer of a read that failed

ASSUME OwnerLimitsAssumption ==
    /\ IsFiniteSet(Tokens) /\ IsFiniteSet(Vaults) /\ Vaults # {}
    /\ Configured \subseteq Owners
    /\ DEFAULT_OWNER_LIMIT \in Nat \ {0}
    /\ MaxBalance \in Nat
    /\ Unread \notin Int

VARIABLES
    vaults,             \* ownerTokenVaultMap: balances by owner and token
    ownerLimit,         \* OwnerProfile.limit
    behind              \* history: the owners whose last evaluation used a
                        \* balance of the orderbook below the sum of its vaults

limitVars == <<vaults, ownerLimit, behind>>

Balances == 0 .. MaxBalance

LimitsInit ==
    /\ vaults = [o \in Owners |-> [t \in Tokens |-> [v \in Vaults |-> 0]]]
    /\ ownerLimit = [o \in Owners |-> DEFAULT_OWNER_LIMIT]
    /\ behind = {}

Total(f) == MapThenSumSet(LAMBDA x : f[x], DOMAIN f)

ownerTotalBalance(o, t) == Total(vaults[o][t])
avgBalance(o, t) == ownerTotalBalance(o, t) \div Cardinality(Vaults)
-----------------------------------------------------------------------------
(***************************************************************************)
(* Seeded faults, for the mutation runs.                                   *)
(***************************************************************************)

\* The limits are not reset before they are divided.
BugNoReset(o) == ownerLimit[o]
-----------------------------------------------------------------------------
Absolute(n) == IF n < 0 THEN -n ELSE n

\* Division of bigint: towards zero.
Quotient(a, b) == IF (a < 0) = (b < 0) THEN Absolute(a) \div Absolute(b) ELSE -(Absolute(a) \div Absolute(b))

balanceRatioPercent(avg, others) ==
    IF others = 0 THEN 100 ELSE Quotient(avg * 100, others)

\* 4, 3, 2 or 1 by quarters.
ownerLimitDivideFactor(ratioPercent) == Absolute(Min({Quotient(ratioPercent, 25), 3}) - 4)

\* The factors of the tokens whose balance could be read.
cuts(o, obTokenBalance) ==
    [t \in {t \in Tokens : obTokenBalance[t] # Unread} |->
       ownerLimitDivideFactor(
         balanceRatioPercent(avgBalance(o, t), obTokenBalance[t] - ownerTotalBalance(o, t)))]

\* Math.max(Math.round(limit / avgCut), 1), avgCut = sum / n; half goes up.
Downscaled(limit, sum, n) ==
    Max({(2 * limit * n + sum) \div (2 * sum), 1})

\* The limit before it is divided: resetLimits.
resetLimit(o) == DEFAULT_OWNER_LIMIT

newLimit(o, obTokenBalance) ==
    LET cut == cuts(o, obTokenBalance)
    IN  IF DOMAIN cut = {} THEN resetLimit(o)
        ELSE Downscaled(resetLimit(o), Total(cut), Cardinality(DOMAIN cut))

downscaleProtection(obTokenBalance) ==
    /\ ownerLimit' = [o \in Owners |->
         IF o \in Configured THEN ownerLimit[o] ELSE newLimit(o, obTokenBalance)]
    /\ behind' = {o \in Owners : \E t \in Tokens :
         obTokenBalance[t] # Unread /\ obTokenBalance[t] < ownerTotalBalance(o, t)}
    /\ UNCHANGED vaults

\* updateVault of the sync.
updateVault(o, t, v, balance) ==
    /\ vaults' = [vaults EXCEPT ![o][t][v] = balance]
    /\ UNCHANGED <<ownerLimit, behind>>

\* All tokens of the orderbook on chain: they may be those of other owners,
\* too, and the vaults may have changed since the last sync.
OrderbookBalances == 0 .. 2 * Cardinality(Owners) * Cardinality(Vaults) * MaxBalance

LimitsNext ==
    \/ \E obTokenBalance \in [Tokens -> OrderbookBalances \union {Unread}] :
         downscaleProtection(obTokenBalance)
    \/ \E o \in Owners, t \in Tokens, v \in Vaults, balance \in Balances :
         updateVault(o, t, v, balance)

LimitsSpec == LimitsInit /\ [][LimitsNext]_limitVars
-----------------------------------------------------------------------------
(***************************************************************************)
(* Properties                                                              *)
(***************************************************************************)

LimitsTypeOK ==
    /\ vaults \in [Owners -> [Tokens -> [Vaults -> Balances]]]
    /\ ownerLimit \in [Owners -> 1 .. DEFAULT_OWNER_LIMIT]
    /\ behind \subseteq Owners

\* However often it is evaluated and whatever it holds, an owner keeps at
\* least a quarter of the default limit (rounded), unless the orderbook's
\* balance was read before the vaults it is compared with were known to
\* shrink (downscaleProtection).
QuarterKept ==
    \A o \in Owners \ (Configured \union behind) :
        4 * ownerLimit[o] + 2 >= DEFAULT_OWNER_LIMIT

\* Not so if the balances do not fit: the share turns negative and the limit
\* goes down to 1, most of all for an owner that holds nearly everything.
QuarterAlwaysKept ==
    \A o \in Owners \ Configured : 4 * ownerLimit[o] + 2 >= DEFAULT_OWNER_LIMIT
=============================================================================
