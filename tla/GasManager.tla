----------------------------- MODULE GasManager -----------------------------
(***************************************************************************)
(* The gas price and its multiplier (gas/index.ts): slow transactions      *)
(* raise the multiplier and set a deadline, the first fast one after the   *)
(* deadline resets it, and an interval timer reads the price with the      *)
(* multiplier of its start, whatever became of the read before.            *)
(*                                                                         *)
(* Time is counted in ticks and timers are exact.  The watcher is always   *)
(* on: only the sweep command stops it, and starts another at once.        *)
(***************************************************************************)
EXTENDS Integers, FiniteSets

CONSTANTS
    baseGasPriceMultiplier,
    maxGasPriceMultiplier,
    gasIncreasePointsPerStep,
    gasIncreaseStepTime,
    ReadInterval,   \* ticks between two reads of the watcher
    ReadLife        \* ticks in which a read is answered or has failed

ASSUME GasAssumption ==
    /\ baseGasPriceMultiplier \in Nat \ {0}
    /\ maxGasPriceMultiplier \in Nat
    /\ maxGasPriceMultiplier >= baseGasPriceMultiplier
    /\ gasIncreasePointsPerStep \in Nat
    /\ gasIncreaseStepTime \in Nat \ {0}
    /\ ReadInterval \in Nat \ {0}
    /\ ReadLife \in Nat

VARIABLES
    gasPriceMultiplier,
    deadline,       \* ticks until the deadline, or Unset
    sinceRead,      \* ticks since it last started a read
    reads,          \* reads in flight: their age and their multiplier
    gasPrice,       \* the read it comes from: multiplier and age
    missed,         \* history: a read failed since the price was set
    sinceSlow       \* history: ticks since the last slow transaction

gasVars == <<gasPriceMultiplier, deadline, sinceRead, reads, gasPrice, missed,
             sinceSlow>>

Unset == -1
MaxAge == ReadInterval + 2 * ReadLife  \* bound: ages count to one more

\* init has read the price once.
GasInit ==
    /\ gasPriceMultiplier = baseGasPriceMultiplier
    /\ deadline = Unset
    /\ sinceRead = 0
    /\ reads = {}
    /\ gasPrice = [mult |-> baseGasPriceMultiplier, age |-> 0]
    /\ missed = FALSE
    /\ sinceSlow = gasIncreaseStepTime
-----------------------------------------------------------------------------
(***************************************************************************)
(* Seeded faults, for the mutation runs.                                   *)
(***************************************************************************)

\* At the maximum there is nothing to raise and the deadline stays.
BugKeepsDeadline ==
    /\ gasPriceMultiplier' = maxGasPriceMultiplier
    /\ deadline' = IF gasPriceMultiplier = maxGasPriceMultiplier
                     THEN deadline ELSE gasIncreaseStepTime

\* The maximum is compared before the step is added.
BugPassesMaximum ==
    /\ deadline' = gasIncreaseStepTime
    /\ gasPriceMultiplier' =
         IF gasPriceMultiplier < maxGasPriceMultiplier
           THEN gasPriceMultiplier + gasIncreasePointsPerStep ELSE gasPriceMultiplier

\* The guard of watchGasPrice stands in the timer's callback.
BugReturnsEarly ==
    /\ sinceRead = ReadInterval
    /\ sinceRead' = 0
    /\ UNCHANGED reads
-----------------------------------------------------------------------------
\* onTransactionMine, for a transaction at or above txTimeThreshold (among
\* them every one whose receipt was not found in time).
raise ==
    /\ deadline' = gasIncreaseStepTime
    /\ gasPriceMultiplier' =
         IF gasPriceMultiplier + gasIncreasePointsPerStep < maxGasPriceMultiplier
           THEN gasPriceMultiplier + gasIncreasePointsPerStep
           ELSE maxGasPriceMultiplier

slowTransaction ==
    /\ raise
    /\ sinceSlow' = 0
    /\ UNCHANGED <<sinceRead, reads, gasPrice, missed>>

\* onTransactionMine, for one below it.
fastTransaction ==
    /\ deadline = 0
    /\ gasPriceMultiplier' = baseGasPriceMultiplier
    /\ deadline' = Unset
    /\ UNCHANGED <<sinceRead, reads, gasPrice, missed, sinceSlow>>

\* watchGasPrice: the timer starts a read.
startRead ==
    /\ sinceRead = ReadInterval
    /\ sinceRead' = 0
    /\ reads' = reads \union {[age |-> 0, mult |-> gasPriceMultiplier]}

readGasPrice ==
    /\ startRead
    /\ UNCHANGED <<gasPriceMultiplier, deadline, gasPrice, missed, sinceSlow>>

\* The answer, in any order; a failed read leaves the price as it is.
readAnswered(r) ==
    /\ reads' = reads \ {r}
    /\ \/ gasPrice' = r /\ missed' = FALSE
       \/ missed' = TRUE /\ UNCHANGED gasPrice
    /\ UNCHANGED <<gasPriceMultiplier, deadline, sinceRead, sinceSlow>>

older(n) == IF n > MaxAge THEN n ELSE n + 1

gasTick ==
    /\ \A r \in reads : r.age < ReadLife
    /\ sinceRead < ReadInterval
    /\ reads' = {[r EXCEPT !.age = @ + 1] : r \in reads}
    /\ sinceRead' = sinceRead + 1
    /\ deadline' = IF deadline > 0 THEN deadline - 1 ELSE deadline
    /\ gasPrice' = [gasPrice EXCEPT !.age = older(@)]
    /\ sinceSlow' = IF sinceSlow < gasIncreaseStepTime THEN sinceSlow + 1 ELSE sinceSlow
    /\ UNCHANGED <<gasPriceMultiplier, missed>>

GasNext ==
    \/ slowTransaction \/ fastTransaction
    \/ readGasPrice \/ \E r \in reads : readAnswered(r)
    \/ gasTick

GasSpec == GasInit /\ [][GasNext]_gasVars

\* Timers go off, reads are answered, time goes on.
gasProgress == readGasPrice \/ (\E r \in reads : readAnswered(r)) \/ gasTick
GasFairSpec == GasSpec /\ WF_gasVars(gasProgress)
-----------------------------------------------------------------------------
(***************************************************************************)
(* Properties                                                              *)
(***************************************************************************)

GasType ==
    /\ gasPriceMultiplier \in baseGasPriceMultiplier .. maxGasPriceMultiplier
    /\ deadline \in Unset .. gasIncreaseStepTime
    /\ missed \in BOOLEAN
    /\ sinceSlow \in 0 .. gasIncreaseStepTime
    /\ sinceRead \in 0 .. ReadInterval
    /\ reads \subseteq [age : 0 .. ReadLife,
                        mult : baseGasPriceMultiplier .. maxGasPriceMultiplier]
    /\ gasPrice \in [age : Nat, mult : baseGasPriceMultiplier .. maxGasPriceMultiplier]

\* A raised multiplier has a deadline: there is a way back to the base
\* (onTransactionMine sets both, and resets both).
RaisedHasDeadline == gasPriceMultiplier > baseGasPriceMultiplier => deadline # Unset

\* The price comes from a read that started at most an interval and two
\* lives of a read ago, unless one failed since, although a late answer may
\* overwrite a newer one: no answer is late by more than its life
\* (watchGasPrice starts reads whatever became of the ones before).
PriceFresh ==
    ~missed => gasPrice.age <= MaxAge

\* The multiplier falls only when no transaction was slow for the whole step
\* time, however many were while it stood at its maximum (onTransactionMine).
QuietBeforeReset ==
    [][gasPriceMultiplier' < gasPriceMultiplier
         => sinceSlow = gasIncreaseStepTime]_gasVars
=============================================================================
