------------------------- MODULE WalletManagerProofs -------------------------
(***************************************************************************)
(* Theorems about WalletManager, for every number of workers and of        *)
(* replacements, with and without restarts, and about VaultFunding, for any *)
(* amounts and any number of failures.                                     *)
(***************************************************************************)
EXTENDS WalletManager, VaultFunding, FiniteSetTheorems, TLAPS
-----------------------------------------------------------------------------
(***************************************************************************)
(* WalletManager.                                                          *)
(***************************************************************************)

\* The indexes handed out, and room for the replacements of an assessment.
IndexInv ==
    /\ lastUsed \in Nat /\ Count <= lastUsed
    /\ signers \union pendingAdd \union Pending \union retired \subseteq 1 .. lastUsed
    /\ holding \union inflight \subseteq Indexes
    /\ lastUsed <= MaxIndex
    /\ phase = "replace" => lastUsed + Cardinality(todo) <= MaxIndex

\* Which workers the main loop handles, and when it handles one.
ControlInv ==
    /\ phase \in Phases /\ step \in Steps
    /\ step = "next" <=> cur = NoWorker
    /\ step # "next" => phase \in {"replace", "retryRemove", "sweepAll"} /\ cur \in todo
    /\ step = "fund" => phase = "replace"
    /\ step = "gas" => phase # "sweepAll"
    /\ phase = "retryAdd" => todo \subseteq pendingAdd
    /\ phase = "replace" => todo \subseteq 1 .. lastUsed
    /\ phase = "retryRemove" => todo \subseteq Pending
    /\ phase = "sweepAll" => todo \subseteq signers

CirculationInv == IndexInv /\ ControlInv /\ NoIndexReuse

\* What excuses that a wallet with tokens is not known any more.
Excused(i) == failures[i] > SWEEP_RETRY_COUNT \/ i \in late \/ i \in orphaned

\* A wallet that is left, its sweep done or given up, has nothing and awaits
\* nothing; what is in flight counts as what it may still get.
CustodyInv ==
    /\ failures \in [Indexes -> Nat]
    /\ \A i \in Pending : pendingRemove[i] \in 1 .. SWEEP_RETRY_COUNT
                          /\ pendingRemove[i] <= failures[i]
    /\ \A i \in (holding \union inflight) \ Tracked : Excused(i)
    /\ step = "gas" /\ cur \notin late => cur \notin inflight
    /\ step = "gas" /\ ~failed /\ cur \notin late => cur \notin holding
    /\ step = "fund" => \/ cur \in Pending \/ Excused(cur)
                        \/ cur \notin holding \union inflight

\* The workers of a running assessment are finitely many.
LEMMA TodoFinite ==
    ASSUME CirculationInv, phase = "replace"
    PROVE  IsFiniteSet(todo) /\ Cardinality(todo) \in Nat
<1>1. todo \subseteq 1 .. lastUsed /\ lastUsed \in Nat
  BY DEF CirculationInv, ControlInv, IndexInv
<1>2. IsFiniteSet(1 .. lastUsed)
  BY <1>1, FS_Interval
<1>3. IsFiniteSet(todo)
  BY <1>1, <1>2, FS_Subset
<1>4. QED
  BY <1>3, FS_CardinalityType

\* tryAddWorker adds to one of the two lists and takes from none.
LEMMA AddingAdds ==
    ASSUME NEW i, tryAddWorker(i)
    PROVE  /\ signers \subseteq signers' /\ pendingAdd \subseteq pendingAdd'
           /\ signers' \union pendingAdd' = signers \union pendingAdd \union {i}
BY DEF tryAddWorker

\* The replacement has an index of its own, for which there is room.
LEMMA ReplacementKeeps ==
    ASSUME CountAssumption, CirculationInv, addReplacement
    PROVE  CirculationInv'
<1>1. /\ phase = "replace" /\ phase' = "replace" /\ step = "fund" /\ step' = "next"
      /\ cur' = NoWorker /\ lastUsed' = lastUsed + 1 /\ todo' = todo \ {cur}
      /\ UNCHANGED <<pendingRemove, holding, inflight, retired>>
  BY DEF addReplacement
<1>2. tryAddWorker(lastUsed + 1)
  BY DEF addReplacement
<1>3. lastUsed \in Nat /\ cur \in todo /\ todo \subseteq 1 .. lastUsed
  BY <1>1 DEF CirculationInv, IndexInv, ControlInv
<1>4. /\ signers \subseteq signers' /\ pendingAdd \subseteq pendingAdd'
      /\ signers' \union pendingAdd' = signers \union pendingAdd \union {lastUsed + 1}
  BY <1>2, AddingAdds
<1>5. Cardinality(todo') = Cardinality(todo) - 1 /\ Cardinality(todo) \in Nat
  BY <1>1, <1>3, TodoFinite, FS_RemoveElement
<1>6. Cardinality(todo') \in Nat
  BY <1>1, <1>3, <1>5, TodoFinite, FS_RemoveElement, FS_CardinalityType
<1>7. IndexInv'
  <2>1. lastUsed + Cardinality(todo) <= MaxIndex /\ MaxIndex \in Nat
    BY <1>1, MaxIndexAssumption DEF CirculationInv, IndexInv
  <2>2. lastUsed' <= MaxIndex /\ lastUsed' + Cardinality(todo') <= MaxIndex
    BY <1>1, <1>3, <1>5, <1>6, <2>1
  <2>3. /\ signers' \union pendingAdd' \subseteq 1 .. lastUsed'
        /\ Pending' \union retired' \subseteq 1 .. lastUsed'
    BY <1>1, <1>3, <1>4 DEF CirculationInv, IndexInv, Pending
  <2>4. QED
    BY <1>1, <1>3, <2>2, <2>3, CountAssumption DEF CirculationInv, IndexInv, Indexes
<1>8. ControlInv'
  BY <1>1, <1>3 DEF CirculationInv, ControlInv, Phases, Steps
<1>9. NoIndexReuse'
  <2>1. lastUsed + 1 \notin retired
    BY <1>3 DEF CirculationInv, IndexInv
  <2>2. signers' \subseteq signers \union {lastUsed + 1}
    BY <1>2 DEF tryAddWorker
  <2>3. QED
    BY <1>1, <1>4, <2>1, <2>2 DEF CirculationInv, NoIndexReuse
<1>10. QED
  BY <1>7, <1>8, <1>9 DEF CirculationInv

\* The invariant holds initially and in every step.
LEMMA CirculationInductive ==
    /\ Init => CirculationInv
    /\ CirculationInv /\ [Next]_vars => CirculationInv'
<1> USE CountAssumption, MaxIndexAssumption
    DEF CirculationInv, IndexInv, ControlInv, NoIndexReuse, Phases, Steps, Indexes,
        NoWorker, Pending
<1>1. Init => CirculationInv
  BY DEF Init
<1>2. ASSUME CirculationInv, [Next]_vars
      PROVE  CirculationInv'
  <2> USE <1>2 DEF mgr, control, chain, history
  <2>1. ASSUME NEW i \in Indexes, trade(i)
        PROVE  CirculationInv'
    BY <2>1 DEF trade
  <2>2. ASSUME NEW i \in Indexes, settle(i)
        PROVE  CirculationInv'
    BY <2>2 DEF settle
  <2>3. CASE startWalletOps
    BY <2>3 DEF startWalletOps
  <2>4. ASSUME NEW i \in Indexes, retryPendingAdd(i)
        PROVE  CirculationInv'
    <3>1. i \in pendingAdd /\ phase = "retryAdd" /\ phase' = phase /\ todo' = todo \ {i}
      BY <2>4 DEF retryPendingAdd
    <3>2. pendingAdd' = pendingAdd /\ signers' \in {signers, signers \union {i}}
      BY <2>4, <3>1 DEF retryPendingAdd, tryAddWorker
    <3>3. UNCHANGED <<pendingRemove, lastUsed, cur, step, holding, inflight, retired>>
      BY <2>4 DEF retryPendingAdd
    <3>4. QED
      BY <3>1, <3>2, <3>3
  <2>5. CASE retryPendingAddDone
    BY <2>5 DEF retryPendingAddDone
  <2>6. CASE assessWorkers
    BY <2>6 DEF assessWorkers
  <2>7. ASSUME NEW i \in Indexes, removeFromCirculation(i)
        PROVE  CirculationInv'
    BY <2>7 DEF removeFromCirculation
  <2>8. CASE addReplacement
    BY <2>8, ReplacementKeeps
  <2>9. ASSUME NEW i \in Indexes, beginSweep(i)
        PROVE  CirculationInv'
    BY <2>9 DEF beginSweep
  <2>10. CASE sweepTokens
    BY <2>10 DEF sweepTokens
  <2>11. CASE sweepGas
    <3>1. Pending' \subseteq Pending \union {cur} /\ Pending \subseteq Pending' \union {cur}
      BY <2>11 DEF sweepGas, noteSweep, countFailure
    <3>2. UNCHANGED <<signers, pendingAdd, lastUsed, phase, holding, inflight, retired>>
      BY <2>11 DEF sweepGas
    <3>3. \/ phase = "replace" /\ step' = "fund" /\ UNCHANGED <<cur, todo>>
          \/ phase # "replace" /\ step' = "next" /\ cur' = NoWorker /\ todo' = todo \ {cur}
      BY <2>11 DEF sweepGas
    <3>4. step = "gas" /\ cur \in todo /\ cur \in 1 .. lastUsed
      BY <2>11 DEF sweepGas
    <3>5. QED
      BY <3>1, <3>2, <3>3, <3>4
  <2>12. CASE nextPhase
    BY <2>12 DEF nextPhase
  <2>13. CASE restart
    BY <2>13 DEF restart
  <2>14. CASE UNCHANGED vars
    BY <2>14 DEF vars
  <2>15. QED
    BY <2>1, <2>2, <2>3, <2>4, <2>5, <2>6, <2>7, <2>8, <2>9, <2>10, <2>11, <2>12,
       <2>13, <2>14 DEF Next, loopStep
<1>3. QED
  BY <1>1, <1>2

\* A worker comes back into circulation only from the pending add list:
\* replacements never get an index that was used, whatever fails
\* (assessWorkers).
THEOREM IndexesAreFresh == Spec => []NoIndexReuse
<1>1. CirculationInv => NoIndexReuse
  BY DEF CirculationInv
<1>2. QED
  BY <1>1, CirculationInductive, PTL DEF Spec

-----------------------------------------------------------------------------
\* The workers in circulation or on their way into it.
Fleet == signers \union pendingAdd

\* They are finitely many, and so are they after a step.
LEMMA FleetFinite ==
    ASSUME CirculationInv
    PROVE  IsFiniteSet(Fleet) /\ Cardinality(Fleet) \in Nat
<1>1. Fleet \subseteq 1 .. lastUsed /\ lastUsed \in Nat
  BY DEF Fleet, CirculationInv, IndexInv
<1>2. IsFiniteSet(1 .. lastUsed)
  BY <1>1, FS_Interval
<1>3. IsFiniteSet(Fleet)
  BY <1>1, <1>2, FS_Subset
<1>4. QED
  BY <1>3, FS_CardinalityType

\* A fleet that keeps its members keeps its size.
LEMMA FleetStays ==
    ASSUME FleetSize, CirculationInv, CirculationInv', Fleet \subseteq Fleet',
           Replacing' = Replacing
    PROVE  FleetSize'
<1>1. IsFiniteSet(Fleet') /\ Cardinality(Fleet') \in Nat
  <2>1. Fleet' \subseteq 1 .. lastUsed' /\ lastUsed' \in Nat
    BY DEF Fleet, CirculationInv, IndexInv
  <2>2. IsFiniteSet(1 .. lastUsed')
    BY <2>1, FS_Interval
  <2>3. IsFiniteSet(Fleet')
    BY <2>1, <2>2, FS_Subset
  <2>4. QED
    BY <2>3, FS_CardinalityType
<1>2. Cardinality(Fleet) <= Cardinality(Fleet')
  BY <1>1, FS_Subset
<1>3. Cardinality(Fleet) \in Nat
  BY FleetFinite
<1>4. QED
  BY <1>1, <1>2, <1>3, CountAssumption DEF FleetSize, Fleet, Replacing

\* One worker out, and one replacement due.
LEMMA FleetAfterRemoval ==
    ASSUME FleetSize, CirculationInv, NEW i \in Indexes, removeFromCirculation(i)
    PROVE  FleetSize'
<1>1. signers' = signers \ {i} /\ pendingAdd' = pendingAdd
  BY DEF removeFromCirculation
<1>2. Replacing = 0 /\ Replacing' = 1
  BY DEF removeFromCirculation, Replacing
<1>3. IsFiniteSet(Fleet) /\ Cardinality(Fleet) \in Nat
  BY FleetFinite
<1>4. /\ IsFiniteSet(Fleet \ {i}) /\ Cardinality(Fleet \ {i}) \in Nat
      /\ Cardinality(Fleet \ {i}) >= Cardinality(Fleet) - 1
  <2>1. /\ IsFiniteSet(Fleet \ {i})
        /\ Cardinality(Fleet \ {i}) \in {Cardinality(Fleet), Cardinality(Fleet) - 1}
    BY <1>3, FS_RemoveElement
  <2>2. Cardinality(Fleet \ {i}) \in Nat
    BY <2>1, FS_CardinalityType
  <2>3. QED
    BY <1>3, <2>1, <2>2
<1>5. Fleet \ {i} \subseteq Fleet' /\ Fleet' \subseteq Fleet
  BY <1>1 DEF Fleet
<1>6. IsFiniteSet(Fleet')
  BY <1>3, <1>5, FS_Subset
<1>7. Cardinality(Fleet \ {i}) <= Cardinality(Fleet') /\ Cardinality(Fleet') \in Nat
  BY <1>5, <1>6, FS_Subset, FS_CardinalityType
<1>8. QED
  BY <1>2, <1>3, <1>4, <1>7, CountAssumption DEF FleetSize, Fleet

\* The replacement is not of the fleet before.
LEMMA FleetAfterReplacement ==
    ASSUME FleetSize, CirculationInv, addReplacement
    PROVE  FleetSize'
<1>1. Fleet' = Fleet \union {lastUsed + 1}
  BY AddingAdds DEF addReplacement, Fleet
<1>2. lastUsed + 1 \notin Fleet
  BY DEF CirculationInv, IndexInv, Fleet
<1>3. Replacing = 1 /\ Replacing' = 0
  BY DEF addReplacement, Replacing
<1>4. IsFiniteSet(Fleet) /\ Cardinality(Fleet) \in Nat
  BY FleetFinite
<1>5. Cardinality(Fleet') = Cardinality(Fleet) + 1
  BY <1>1, <1>2, <1>4, FS_AddElement
<1>6. QED
  BY <1>3, <1>4, <1>5, CountAssumption DEF FleetSize, Fleet

\* The configured workers are as many as configured.
LEMMA FleetOfCount == Cardinality((1 .. Count) \union {}) = Count
<1>1. Cardinality(1 .. Count) = Count
  BY CountAssumption, FS_Interval
<1>2. (1 .. Count) \union {} = 1 .. Count
  OBVIOUS
<1>3. QED
  BY <1>1, <1>2

\* FleetSize holds initially and in every step.
LEMMA FleetInductive ==
    /\ Init => FleetSize
    /\ CirculationInv /\ CirculationInv' /\ FleetSize /\ [Next]_vars => FleetSize'
<1>1. Init => FleetSize
  <2>1. ASSUME Init
        PROVE  Cardinality(signers \union pendingAdd) = Count /\ Replacing = 0
    BY <2>1, FleetOfCount DEF Init, Replacing
  <2>2. QED
    BY <2>1, CountAssumption DEF FleetSize
<1>2. ASSUME CirculationInv, CirculationInv', FleetSize, [Next]_vars
      PROVE  FleetSize'
  <2>1. ASSUME NEW i \in Indexes, removeFromCirculation(i)
        PROVE  FleetSize'
    BY <1>2, <2>1, FleetAfterRemoval
  <2>2. CASE addReplacement
    BY <1>2, <2>2, FleetAfterReplacement
  <2>3. CASE restart
    <3>1. Cardinality(signers' \union pendingAdd') = Count /\ Replacing' = 0
      BY <2>3, FleetOfCount DEF restart, Replacing
    <3>2. QED
      BY <3>1, CountAssumption DEF FleetSize
  <2>4. CASE \/ UNCHANGED vars
             \/ \E i \in Indexes : trade(i) \/ settle(i) \/ beginSweep(i)
             \/ startWalletOps \/ retryPendingAddDone \/ assessWorkers
             \/ sweepTokens \/ sweepGas \/ nextPhase
    <3>1. Fleet \subseteq Fleet'
      BY <2>4 DEF vars, mgr, control, chain, trade, settle, beginSweep, startWalletOps,
                  retryPendingAddDone, assessWorkers, sweepTokens, sweepGas, nextPhase, Fleet
    <3>2. Replacing' = Replacing
      BY <1>2, <2>4 DEF vars, mgr, control, chain, trade, settle, beginSweep, startWalletOps,
                  retryPendingAddDone, assessWorkers, sweepTokens, sweepGas, nextPhase,
                  Replacing, CirculationInv, ControlInv
    <3>3. QED
      BY <1>2, <3>1, <3>2, FleetStays
  <2>5. ASSUME NEW i \in Indexes, retryPendingAdd(i)
        PROVE  FleetSize'
    <3>1. Fleet \subseteq Fleet' /\ Replacing' = Replacing
      BY <2>5, AddingAdds DEF retryPendingAdd, Fleet, Replacing
    <3>2. QED
      BY <1>2, <3>1, FleetStays
  <2>6. QED
    BY <1>2, <2>1, <2>2, <2>3, <2>4, <2>5 DEF Next, loopStep
<1>3. QED
  BY <1>1, <1>2

\* Every worker that is taken out is replaced: the workers in circulation and
\* those that wait for their funding are as many as configured, but for the
\* one in hand, whatever fails on the way (assessWorkers).
THEOREM FleetKeepsItsSize == Spec => []FleetSize
BY CirculationInductive, FleetInductive, PTL DEF Spec

-----------------------------------------------------------------------------
\* What a removal sweep notes: a worker that failed is on the list, or has
\* failed more often than it is retried.
LEMMA NotingNotes ==
    ASSUME CustodyInv, NEW i \in Indexes, NEW error \in BOOLEAN, noteSweep(i, error)
    PROVE  /\ failures' \in [Indexes -> Nat]
           /\ \A j \in Indexes : failures[j] <= failures'[j]
           /\ \A j \in Pending' \intersect Indexes :
                 /\ pendingRemove'[j] \in 1 .. SWEEP_RETRY_COUNT
                 /\ pendingRemove'[j] <= failures'[j]
           /\ Pending' \subseteq Pending \union {i} /\ Pending \ {i} \subseteq Pending'
           /\ error => i \in Pending' \/ failures'[i] > SWEEP_RETRY_COUNT
           /\ ~error => Pending' = Pending
<1> USE DEF CustodyInv, noteSweep, SWEEP_RETRY_COUNT
<1>1. CASE ~error
  BY <1>1 DEF Pending
<1>2. CASE error
  <2>1. failures' = [failures EXCEPT ![i] = IF @ <= 3 THEN @ + 1 ELSE @]
    BY <1>2
  <2>2. /\ failures' \in [Indexes -> Nat]
        /\ \A j \in Indexes : failures[j] <= failures'[j]
        /\ failures'[i] > failures[i] \/ failures'[i] > 3
    BY <2>1
  <2>3. CASE i \in Pending /\ pendingRemove[i] >= 3
    <3>1. pendingRemove' = [j \in Pending \ {i} |-> pendingRemove[j]]
      BY <1>2, <2>3 DEF countFailure
    <3>2. failures'[i] > 3
      BY <2>2, <2>3
    <3>3. QED
      BY <1>2, <2>2, <3>1, <3>2 DEF Pending
  <2>4. CASE ~(i \in Pending /\ pendingRemove[i] >= 3)
    <3>1. pendingRemove' = [j \in Pending \union {i} |->
            IF j # i THEN pendingRemove[j]
            ELSE IF i \in Pending THEN pendingRemove[i] + 1 ELSE 1]
      BY <1>2, <2>4 DEF countFailure
    <3>2. pendingRemove'[i] \in 1 .. 3 /\ pendingRemove'[i] <= failures'[i]
      BY <2>2, <2>4, <3>1 DEF Pending
    <3>3. QED
      BY <1>2, <2>2, <3>1, <3>2 DEF Pending
  <2>5. QED
    BY <2>3, <2>4
<1>3. QED
  BY <1>1, <1>2

\* The sweep of the gas leaves the wallet swept, listed or given up.
LEMMA GasSweepKeeps ==
    ASSUME CirculationInv, CustodyInv, sweepGas
    PROVE  CustodyInv'
<1>1. /\ step = "gas" /\ cur \in todo /\ cur \in 1 .. lastUsed /\ cur \in Indexes
      /\ phase \in {"replace", "retryRemove"}
      /\ phase = "retryRemove" => cur \in Pending
      /\ Pending \subseteq Indexes /\ holding \union inflight \subseteq Indexes
  BY MaxIndexAssumption DEF sweepGas, CirculationInv, IndexInv, ControlInv, Indexes, NoWorker
<1>2. UNCHANGED <<signers, pendingAdd, holding, inflight, late, orphaned>>
  BY DEF sweepGas
<1>3. \/ phase = "replace" /\ step' = "fund" /\ cur' = cur
      \/ phase = "retryRemove" /\ step' = "next" /\ cur' = NoWorker
  BY <1>1 DEF sweepGas
<1>4. PICK error \in BOOLEAN : noteSweep(cur, failed \/ error)
  BY DEF sweepGas
<1> DEFINE hadError == (failed \/ error) = TRUE
<1>5. (hadError <=> (failed \/ error)) /\ hadError \in BOOLEAN /\ noteSweep(cur, hadError)
  BY <1>4 DEF noteSweep
<1>6. /\ failures' \in [Indexes -> Nat]
      /\ \A j \in Indexes : failures[j] <= failures'[j]
      /\ \A j \in Pending' \intersect Indexes :
            pendingRemove'[j] \in 1 .. SWEEP_RETRY_COUNT /\ pendingRemove'[j] <= failures'[j]
      /\ Pending' \subseteq Pending \union {cur} /\ Pending \ {cur} \subseteq Pending'
      /\ hadError => cur \in Pending' \/ failures'[cur] > SWEEP_RETRY_COUNT
      /\ ~hadError => Pending' = Pending
  <2> HIDE DEF hadError
  <2>1. QED
    BY <1>1, <1>5, NotingNotes
<1> HIDE DEF hadError
<1>7. \/ cur \in Pending' \/ failures'[cur] > SWEEP_RETRY_COUNT \/ cur \in late
      \/ cur \notin holding \union inflight
  BY <1>1, <1>5, <1>6 DEF CustodyInv
<1>8. ASSUME NEW j \in (holding \union inflight) \ Tracked, j # cur
      PROVE  Excused(j)'
  <2>1. j \in Indexes /\ failures[j] \in Nat /\ failures'[j] \in Nat
    BY <1>1, <1>6 DEF CustodyInv
  <2>2. Excused(j)
    BY DEF CustodyInv
  <2>3. QED
    BY <1>2, <1>6, <2>1, <2>2 DEF Excused, SWEEP_RETRY_COUNT
<1>9. ASSUME NEW j \in ((holding \union inflight) \ Tracked)'
      PROVE  Excused(j)'
  <2>1. CASE j # cur
    <3>1. j \notin Tracked
      BY <1>2, <1>6, <2>1 DEF Tracked
    <3>2. QED
      BY <1>2, <1>8, <2>1, <3>1
  <2>2. CASE j = cur
    <3>1. j \notin Pending'
      BY DEF Tracked
    <3>2. QED
      BY <1>2, <1>7, <2>2, <3>1 DEF Excused
  <2>3. QED
    BY <2>1, <2>2
<1>10. step' = "fund" => \/ (cur \in Pending)' \/ Excused(cur)'
                         \/ (cur \notin holding \union inflight)'
  BY <1>2, <1>3, <1>7 DEF Excused, NoWorker
<1>11. QED
  BY <1>1, <1>3, <1>6, <1>9, <1>10 DEF CustodyInv

\* The sweep of the tokens: what it misses is late or its own failure.
LEMMA TokenSweepKeeps ==
    ASSUME CirculationInv, CustodyInv, sweepTokens
    PROVE  CustodyInv'
<1>1. /\ step = "tokens" /\ cur # NoWorker
      /\ phase = "sweepAll" => cur \in signers
  BY DEF sweepTokens, CirculationInv, ControlInv
<1>2. UNCHANGED <<signers, pendingAdd, pendingRemove, inflight, failures, orphaned>>
  BY DEF sweepTokens, mgr
<1>3. PICK error \in BOOLEAN :
        failed' = error /\ holding' \in IF error THEN {holding, holding \ {cur}}
                                                  ELSE {holding \ {cur}}
  BY DEF sweepTokens
<1>4. late' = IF cur \in inflight THEN late \union {cur} ELSE late \ {cur}
  BY DEF sweepTokens
<1>5. \/ phase = "sweepAll" /\ step' = "next" /\ cur' = NoWorker
      \/ step' = "gas" /\ cur' = cur
  BY DEF sweepTokens
<1>6. Tracked \subseteq Tracked' \union {NoWorker} /\ cur \in Tracked'
  BY <1>1, <1>2, <1>5 DEF Tracked, Pending
<1>7. ASSUME NEW j \in ((holding \union inflight) \ Tracked)'
      PROVE  Excused(j)'
  <2>1. j # cur /\ j \in holding \union inflight
    BY <1>2, <1>3, <1>6
  <2>2. j # NoWorker
    BY <2>1 DEF CirculationInv, IndexInv, Indexes, NoWorker
  <2>3. j \notin Tracked
    BY <1>6, <2>2
  <2>4. Excused(j)
    BY <2>1, <2>3 DEF CustodyInv
  <2>5. QED
    BY <1>2, <1>4, <2>1, <2>4 DEF Excused
<1>8. QED
  BY <1>2, <1>3, <1>4, <1>5, <1>7 DEF CustodyInv, Pending

\* The next worker takes the place of a wallet that may be left.
LEMMA ReplacementKeepsCustody ==
    ASSUME CirculationInv, CustodyInv, addReplacement
    PROVE  CustodyInv'
<1>1. /\ step = "fund" /\ step' = "next"
      /\ orphaned' = orphaned \ {lastUsed + 1}
      /\ UNCHANGED <<pendingRemove, holding, inflight, failures, late>>
  BY DEF addReplacement
<1>2. signers' \union pendingAdd' = signers \union pendingAdd \union {lastUsed + 1}
  BY AddingAdds DEF addReplacement
<1>3. ASSUME NEW j \in ((holding \union inflight) \ Tracked)'
      PROVE  Excused(j)'
  <2>1. /\ j \in holding \union inflight /\ j # lastUsed + 1
        /\ j \notin signers \union pendingAdd \union Pending
    BY <1>1, <1>2 DEF Tracked, Pending
  <2>2. Excused(j)
    BY <1>1, <2>1 DEF CustodyInv, Tracked
  <2>3. QED
    BY <1>1, <2>1, <2>2 DEF Excused
<1>4. QED
  BY <1>1, <1>3 DEF CustodyInv, Pending

\* CustodyInv holds initially and in every step.
LEMMA CustodyInductive ==
    /\ Init => CustodyInv
    /\ CirculationInv /\ CustodyInv /\ [Next]_vars => CustodyInv'
<1>1. Init => CustodyInv
  BY DEF Init, CustodyInv, Pending
<1>2. ASSUME CirculationInv, CustodyInv, [Next]_vars
      PROVE  CustodyInv'
  <2> USE <1>2 DEF mgr, control, chain, history
  <2>1. ASSUME NEW i \in Indexes, trade(i)
        PROVE  CustodyInv'
    BY <2>1 DEF trade, CustodyInv, CirculationInv, ControlInv, Tracked, Excused, Pending
  <2>2. ASSUME NEW i \in Indexes, settle(i)
        PROVE  CustodyInv'
    BY <2>2 DEF settle, CustodyInv, Tracked, Excused, Pending
  <2>3. CASE startWalletOps \/ retryPendingAddDone \/ assessWorkers \/ nextPhase
    BY <2>3 DEF startWalletOps, retryPendingAddDone, assessWorkers, nextPhase, CustodyInv,
                Tracked, Excused, Pending
  <2>4. ASSUME NEW i \in Indexes, retryPendingAdd(i)
        PROVE  CustodyInv'
    <3>1. /\ signers \subseteq signers' /\ pendingAdd \subseteq pendingAdd'
          /\ UNCHANGED <<pendingRemove, cur, step, failed, holding, inflight, failures, late,
                          orphaned>>
      BY <2>4, AddingAdds DEF retryPendingAdd
    <3>2. QED
      BY <3>1 DEF CustodyInv, Tracked, Excused, Pending
  <2>5. ASSUME NEW i \in Indexes, removeFromCirculation(i)
        PROVE  CustodyInv'
    <3>1. /\ cur = NoWorker /\ cur' = i /\ step' = "tokens" /\ signers' = signers \ {i}
          /\ UNCHANGED <<pendingAdd, pendingRemove, holding, inflight, failures, late, orphaned>>
      BY <2>5 DEF removeFromCirculation, CirculationInv, ControlInv
    <3>2. holding \union inflight \subseteq Indexes /\ NoWorker \notin Indexes
      BY DEF CirculationInv, IndexInv, Indexes, NoWorker
    <3>3. QED
      BY <3>1, <3>2 DEF CustodyInv, Tracked, Excused, Pending
  <2>6. CASE addReplacement
    BY <2>6, ReplacementKeepsCustody
  <2>7. ASSUME NEW i \in Indexes, beginSweep(i)
        PROVE  CustodyInv'
    <3>1. /\ cur = NoWorker /\ cur' = i /\ step' = "tokens"
          /\ UNCHANGED <<signers, pendingAdd, pendingRemove, holding, inflight, failures, late,
                          orphaned>>
      BY <2>7 DEF beginSweep, CirculationInv, ControlInv
    <3>2. holding \union inflight \subseteq Indexes /\ NoWorker \notin Indexes
      BY DEF CirculationInv, IndexInv, Indexes, NoWorker
    <3>3. QED
      BY <3>1, <3>2 DEF CustodyInv, Tracked, Excused, Pending
  <2>8. CASE sweepTokens
    BY <2>8, TokenSweepKeeps
  <2>9. CASE sweepGas
    BY <2>9, GasSweepKeeps
  <2>10. CASE restart
    BY <2>10, CountAssumption, MaxIndexAssumption
    DEF restart, CustodyInv, CirculationInv, IndexInv, Tracked, Excused, Pending, Indexes
  <2>11. CASE UNCHANGED vars
    BY <2>11 DEF vars, CustodyInv, Tracked, Excused, Pending
  <2>12. QED
    BY <2>1, <2>2, <2>3, <2>4, <2>5, <2>6, <2>7, <2>8, <2>9, <2>10, <2>11
    DEF Next, loopStep
<1>3. QED
  BY <1>1, <1>2

\* The manager forgets no wallet that holds tokens before its sweep failed
\* four times, except when the tokens came after the sweep or a restart lost
\* the lists (tryRemoveWorker, retryPendingRemoveWorkers).
THEOREM WalletsAreKept == Spec => []NoWalletForgotten
<1>1. CustodyInv => NoWalletForgotten
  BY DEF CustodyInv, NoWalletForgotten, Excused
<1>2. QED
  BY <1>1, CirculationInductive, CustodyInductive, PTL DEF Spec
-----------------------------------------------------------------------------
(***************************************************************************)
(* VaultFunding.                                                           *)
(***************************************************************************)

\* Only transactions whose receipt was given up come late, and without a late
\* one vault and wallet are at most what they were when the stage was decided.
FundInv ==
    /\ fundStage \in FundStages /\ vault \in Nat /\ tokens \in Nat
    /\ unsettled \in [TxKinds -> Nat]
    /\ \A k \in TxKinds : unsettled[k] > 0 => k \in doubled
    /\ fundStage # "idle" /\ "deposit" \notin doubled => vault < threshold
    /\ fundStage = "swap" /\ "swap" \notin doubled => tokens < topupAmount
    /\ FundedOnce

\* A mined transaction moves vault and tokens by its kind alone.
LEMMA EffectBounds ==
    ASSUME vault \in Nat, tokens \in Nat, NEW kind \in TxKinds, takesEffect(kind)
    PROVE  /\ vault' \in Nat /\ tokens' \in Nat
           /\ kind # "deposit" => vault' = vault
           /\ vault' <= vault + topupAmount
           /\ kind # "swap" => tokens' <= tokens
           /\ tokens' <= tokens + swapped
<1> USE VaultFundingAssumption DEF takesEffect, TxKinds
<1>1. CASE kind = "swap"
  BY <1>1
<1>2. CASE kind = "approve"
  BY <1>2
<1>3. CASE kind = "deposit"
  BY <1>3
<1>4. CASE kind = "sell"
  BY <1>4
<1>5. QED
  BY <1>1, <1>2, <1>3, <1>4

\* How a transaction that is waited for ends: it takes effect, or it may come
\* late and is remembered.
LEMMA TransactionEnds ==
    ASSUME FundInv, NEW kind \in TxKinds,
           sentInTime(kind) \/ sentTooLate(kind) \/ givenUp(kind) \/ fails
    PROVE  /\ unsettled' \in [TxKinds -> Nat] /\ doubled \subseteq doubled'
           /\ \A k \in TxKinds : unsettled'[k] > 0 => k \in doubled'
           /\ takesEffect(kind) \/ UNCHANGED <<vault, tokens>>
<1> USE DEF FundInv
<1>1. CASE succeeds(kind)
  BY <1>1 DEF succeeds
<1>2. CASE succeedsInPlace(kind)
  <2>1. PICK other \in TxKinds :
            /\ unsettled[other] > 0
            /\ unsettled' = [unsettled EXCEPT ![other] = @ - 1]
            /\ takesEffect(kind)
            /\ UNCHANGED doubled
    BY <1>2 DEF succeedsInPlace
  <2>2. /\ unsettled' \in [TxKinds -> Nat]
        /\ \A k \in TxKinds : unsettled'[k] > 0 => unsettled[k] > 0
    BY <2>1
  <2>3. QED
    BY <2>1, <2>2
<1>3. CASE givenUp(kind)
  BY <1>3 DEF givenUp
<1>4. CASE givenUpInPlace(kind)
  BY <1>4 DEF givenUpInPlace
<1>5. CASE fails
  BY <1>5 DEF fails, reverted
<1>6. QED
  BY <1>1, <1>2, <1>3, <1>4, <1>5 DEF sentInTime, sentTooLate

\* The invariant holds initially and in every step.
LEMMA FundInvInductive ==
    /\ FundInit => FundInv
    /\ FundInv /\ [FundNext]_fundVars => FundInv'
<1> USE VaultFundingAssumption
<1>1. FundInit => FundInv
  BY DEF FundInit, FundInv, FundedOnce, FundStages
<1>2. ASSUME FundInv, [FundNext]_fundVars
      PROVE  FundInv'
  <2>1. CASE fundVault
    BY <1>2, <2>1 DEF fundVault, goTo, FundInv, FundedOnce, FundStages
  <2>2. CASE readBalance
    BY <1>2, <2>2 DEF readBalance, goTo, mustSwap, failing, FundInv, FundedOnce, FundStages
  <2>3. CASE swap
    <3>1. /\ unsettled' \in [TxKinds -> Nat] /\ doubled \subseteq doubled'
          /\ \A k \in TxKinds : unsettled'[k] > 0 => k \in doubled'
          /\ takesEffect("swap") \/ UNCHANGED <<vault, tokens>>
      BY <1>2, <2>3, TransactionEnds DEF swap, TxKinds
    <3>2. fundStage = "swap" /\ fundStage' \in {"allowance", "idle"}
      BY <2>3 DEF swap, goTo
    <3>3. /\ vault' = vault /\ tokens' \in Nat
          /\ tokens' = tokens \/ tokens' <= tokens + swapped
      BY <1>2, <3>1, EffectBounds DEF FundInv, TxKinds
    <3>4. QED
      BY <1>2, <3>1, <3>2, <3>3 DEF FundInv, FundedOnce, FundStages
  <2>4. CASE allowance
    BY <1>2, <2>4 DEF allowance, goTo, notAllowed, failing, FundInv, FundedOnce, FundStages
  <2>5. CASE approve
    <3>1. succeeds("approve") \/ givenUp("approve") \/ fails
      BY <2>5 DEF approve
    <3>2. /\ unsettled' \in [TxKinds -> Nat] /\ doubled \subseteq doubled'
          /\ \A k \in TxKinds : unsettled'[k] > 0 => k \in doubled'
          /\ takesEffect("approve") \/ UNCHANGED <<vault, tokens>>
      BY <1>2, <3>1, TransactionEnds DEF sentInTime, TxKinds
    <3>3. vault' = vault /\ tokens' = tokens
      BY <3>2 DEF takesEffect
    <3>4. fundStage = "approve" /\ fundStage' \in {"deposit", "idle"}
      BY <2>5 DEF approve, goTo
    <3>5. QED
      BY <1>2, <3>2, <3>3, <3>4 DEF FundInv, FundedOnce, FundStages
  <2>6. CASE deposit
    <3>1. succeeds("deposit") \/ givenUp("deposit") \/ fails
      BY <2>6 DEF deposit
    <3>2. /\ unsettled' \in [TxKinds -> Nat] /\ doubled \subseteq doubled'
          /\ \A k \in TxKinds : unsettled'[k] > 0 => k \in doubled'
          /\ takesEffect("deposit") \/ UNCHANGED <<vault, tokens>>
      BY <1>2, <3>1, TransactionEnds DEF sentInTime, TxKinds
    <3>3. /\ vault' \in Nat /\ tokens' \in Nat /\ tokens' <= tokens
          /\ vault' <= vault + topupAmount
      BY <1>2, <3>2, EffectBounds DEF FundInv, TxKinds
    <3>4. fundStage = "deposit" /\ fundStage' = "idle"
      BY <2>6 DEF deposit, goTo
    <3>5. QED
      BY <1>2, <3>2, <3>3, <3>4 DEF FundInv, FundedOnce, FundStages
  <2>7. CASE convertHoldingsToGas
    <3>1. /\ unsettled' \in [TxKinds -> Nat] /\ doubled \subseteq doubled'
          /\ \A k \in TxKinds : unsettled'[k] > 0 => k \in doubled'
          /\ takesEffect("sell") \/ UNCHANGED <<vault, tokens>>
      BY <1>2, <2>7, TransactionEnds DEF convertHoldingsToGas, TxKinds
    <3>2. vault' = vault /\ tokens' \in Nat /\ tokens' <= tokens
      BY <1>2, <3>1, EffectBounds DEF FundInv, TxKinds
    <3>3. fundStage = "idle" /\ fundStage' = "idle"
      BY <2>7 DEF convertHoldingsToGas
    <3>4. QED
      BY <1>2, <3>1, <3>2, <3>3 DEF FundInv, FundedOnce, FundStages
  <2>8. CASE takeFromVault
    BY <1>2, <2>8 DEF takeFromVault, FundInv, FundedOnce
  <2>9. ASSUME NEW kind \in TxKinds, mineLate(kind)
        PROVE  FundInv'
    <3>1. /\ kind \in doubled /\ UNCHANGED <<fundStage, doubled>>
          /\ unsettled' = [unsettled EXCEPT ![kind] = @ - 1]
          /\ takesEffect(kind) \/ UNCHANGED <<vault, tokens>>
      BY <1>2, <2>9 DEF mineLate, reverted, FundInv
    <3>2. /\ unsettled' \in [TxKinds -> Nat]
          /\ \A k \in TxKinds : unsettled'[k] > 0 => k \in doubled'
      BY <1>2, <2>9, <3>1 DEF mineLate, FundInv
    <3>3. /\ vault' \in Nat /\ tokens' \in Nat
          /\ kind # "deposit" => vault' = vault
          /\ kind # "swap" => tokens' <= tokens
      BY <1>2, <3>1, EffectBounds DEF FundInv
    <3>4. QED
      BY <1>2, <3>1, <3>2, <3>3 DEF FundInv, FundedOnce
  <2>10. CASE UNCHANGED fundVars
    BY <1>2, <2>10 DEF fundVars, FundInv, FundedOnce
  <2>11. QED
    BY <1>2, <2>1, <2>2, <2>3, <2>4, <2>5, <2>6, <2>7, <2>8, <2>9, <2>10
    DEF FundNext, fundStep
<1>3. QED
  BY <1>1, <1>2

\* The main wallet buys and deposits at most once for each time that the vault
\* is low, whatever fails, as long as no receipt of these transactions is given
\* up (fundVault).
THEOREM VaultIsFundedOnce == FundSpec => []FundedOnce
<1>1. FundInv => FundedOnce
  BY DEF FundInv
<1>2. QED
  BY <1>1, FundInvInductive, PTL DEF FundSpec
=============================================================================
