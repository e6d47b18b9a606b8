----------------------------- MODULE TradeProofs -----------------------------
(***************************************************************************)
(* Theorems about TradeSearch, for any counterparties, prices, estimates   *)
(* and settings, about RouteCache, for any routes and any number of        *)
(* overlapping quotes, and about TradeSize, for any amounts and any number *)
(* of halvings.                                                            *)
(***************************************************************************)
EXTENDS MCTradeSearch, SequenceTheorems, WellFoundedInduction, TLAPS

\* What the second dry run and the last task ask for at a cost.
WithHeadroom(cost) == (cost * coverage * Headroom) \div 10000
Covering(cost) == (cost * coverage) \div 100

\* The minimum that a simulation asks for, at each turn.
MinInv(s) ==
    /\ s.at = "route" => s.turn = 1
    /\ s.at = "dryrun" => s.turn # 3
    /\ s.at \in {"route", "task", "dryrun"} /\ s.turn = 1 => s.min = 0 /\ s.cost = 0
    /\ s.at = "task" /\ s.turn = 2 => s.min = 0 /\ s.tried = 0
    /\ s.at = "dryrun" /\ s.turn = 2 => coverage # 0 /\ s.min = WithHeadroom(s.cost)
    /\ s.at = "task" /\ s.turn = 3 => coverage # 0 /\ s.tried = WithHeadroom(s.was)
    /\ s.at = "ok" => s.min <= s.tried \/ s.cost > s.was

\* And what its cost is made of.
CostInv(s) ==
    /\ (s.at = "task" /\ s.turn # 1) \/ s.at = "ok" => s.gas > 0 /\ s.cost = s.gas * s.seen
    /\ s.at = "ok" /\ coverage # 0 => s.min = Covering(s.cost)

\* What is sent succeeded, and nothing is simulated after it.
PickedInv ==
    /\ result \in {"found", "cleared", "reverted"} => sim[pick].at = "ok"
    /\ BestIsPicked

\* A simulation as it may be.
Sound(s) ==
    s \in SimType /\ MinInv(s) /\ CostInv(s)

SearchInv ==
    /\ TypeOK
    /\ \A s \in Sims : Sound(sim[s])
    /\ PickedInv
    /\ FinalMinWasSimulated
    /\ UnderpaysOnlyWhenStale

\* A cost that has not risen is covered by the minimum with the headroom.
LEMMA HeadroomSuffices ==
    ASSUME NEW a \in Nat, NEW b \in Nat, a <= b, coverage \in Nat
    PROVE  Covering(a) <= WithHeadroom(b)
<1> DEFINE x == a * coverage
           y == b * coverage
           z == b * coverage * Headroom
<1>1. x \in Nat /\ y \in Nat /\ z \in Nat /\ Headroom \in Nat /\ Headroom >= 100
  BY SettingsAssumption
<1>2. x <= y
  OBVIOUS
<1>3. y * 100 <= z
  <2>1. z = y * Headroom
    OBVIOUS
  <2> HIDE DEF y, z
  <2>2. QED
    BY <1>1, <2>1
<1> HIDE DEF x, y, z
<1>4. x \div 100 <= z \div 10000
  BY <1>1, <1>2, <1>3
<1>5. QED
  BY <1>4 DEF x, z, Covering, WithHeadroom

\* What exceeds the covering minimum pays for the cost.
LEMMA ExceedingPays ==
    ASSUME NEW x \in Nat, NEW b \in Int, b > x \div 100
    PROVE  100 * b >= x
OBVIOUS

\* Where simulations begin and end.
LEMMA BeginningsAreSound ==
    ASSUME TypeOK
    PROVE  /\ Sound(NoSim) /\ Sound(Failed) /\ Sound(prepared)
           /\ Sound([prepared EXCEPT !.at = "route"])
           /\ Sound([prepared EXCEPT !.at = "route", !.full = FALSE])
<1>1. gasPrice \in Nat
  BY NumbersAssumption DEF TypeOK
<1>2. ASSUME NEW at \in {"idle", "err", "task", "route"}, NEW full \in BOOLEAN,
             NEW price \in Nat
      PROVE  Sound([at |-> at, turn |-> 1, full |-> full, price |-> price, seen |-> 0,
                    gas |-> 0, cost |-> 0, was |-> 0, min |-> 0, tried |-> 0, profit |-> 0])
  <2> DEFINE r == [at |-> at, turn |-> 1, full |-> full, price |-> price, seen |-> 0,
                   gas |-> 0, cost |-> 0, was |-> 0, min |-> 0, tried |-> 0, profit |-> 0]
  <2>1. r \in SimType
    BY DEF SimType
  <2>2. r.at = at /\ r.turn = 1 /\ r.min = 0 /\ r.cost = 0
    OBVIOUS
  <2> HIDE DEF r
  <2>3. MinInv(r) /\ CostInv(r)
    BY <2>2 DEF MinInv, CostInv
  <2>4. QED
    BY <2>1, <2>3 DEF Sound, r
<1>3. Sound(NoSim)
  BY <1>2 DEF NoSim
<1>4. Failed = [NoSim EXCEPT !.at = "err"] /\ prepared = [NoSim EXCEPT !.at = "task",
                                                         !.price = gasPrice]
  BY DEF Failed, prepared
<1>5. Sound(Failed)
  BY <1>2, <1>4 DEF NoSim
<1>6. Sound(prepared)
  <2>1. prepared = [at |-> "task", turn |-> 1, full |-> TRUE, price |-> gasPrice, seen |-> 0,
                    gas |-> 0, cost |-> 0, was |-> 0, min |-> 0, tried |-> 0, profit |-> 0]
    BY <1>4 DEF NoSim
  <2>2. QED
    BY <1>1, <1>2, <2>1
<1>7. ASSUME NEW r \in SimType, r.turn = 1, r.min = 0, r.cost = 0, NEW full \in BOOLEAN
      PROVE  /\ Sound([r EXCEPT !.at = "route"])
             /\ Sound([r EXCEPT !.at = "route", !.full = full])
  <2>1. ASSUME NEW q \in SimType, q.at = "route", q.turn = 1, q.min = 0, q.cost = 0
        PROVE  Sound(q)
    BY <2>1 DEF Sound, MinInv, CostInv
  <2>2. Sound([r EXCEPT !.at = "route"])
    BY <1>7, <2>1 DEF SimType
  <2>3. Sound([r EXCEPT !.at = "route", !.full = full])
    BY <1>7, <2>1 DEF SimType
  <2>4. QED
    BY <2>2, <2>3
<1>8. prepared \in SimType /\ prepared.turn = 1 /\ prepared.min = 0 /\ prepared.cost = 0
  <2>1. prepared.at = "task"
    BY <1>4 DEF NoSim
  <2>2. prepared \in SimType /\ MinInv(prepared)
    BY <1>6 DEF Sound
  <2>3. prepared.turn = 1
    BY <1>4 DEF NoSim
  <2>4. QED
    BY <2>1, <2>2, <2>3 DEF MinInv
<1>9. QED
  BY <1>3, <1>5, <1>6, <1>7, <1>8

\* While the search runs the invariant is about the simulations alone.
LEMMA SearchingKeeps ==
    ASSUME SearchInv, result \in {"idle", "searching"},
           result' \in {"searching", "rejected", "none"},
           DOMAIN sim' = Sims, sim' = [s \in Sims |-> sim'[s]],
           \A s \in Sims : sim'[s] = sim[s] \/ Sound(sim'[s]),
           mode' \in [Modes -> {"idle", "failed", "simulating", "balance", "routing", "listing"}],
           listed' \subseteq Counterparties, org' \in {org, others},
           UNCHANGED <<config, outside, pick, bounty>>
    PROVE  SearchInv'
<1>1. \A s \in Sims : Sound(sim'[s])
  BY DEF SearchInv
<1>2. (\A s \in Sims : Sound(sim[s]))'
  <2>1. coverage' = coverage
    BY DEF config
  <2>2. QED
    BY <1>1, <2>1 DEF Sound, MinInv, CostInv, WithHeadroom, Covering
<1>3. TypeOK'
  <2>1. sim' \in [Sims -> SimType]
    BY <1>1 DEF Sound
  <2>2. \A s \in Sims : sim'[s].at = "ok" => sim'[s].gas > 0
    BY <1>1 DEF Sound, CostInv
  <2>3. QED
    BY <2>1, <2>2 DEF SearchInv, TypeOK, config, outside, Sims, SimType
<1>4. PickedInv' /\ FinalMinWasSimulated' /\ UnderpaysOnlyWhenStale'
  BY DEF PickedInv, BestIsPicked, FinalMinWasSimulated, UnderpaysOnlyWhenStale
<1>5. QED
  BY <1>2, <1>3, <1>4 DEF SearchInv

\* The simulations of a trade type begin.
LEMMA BeginKeeps ==
    ASSUME SearchInv, result = "searching", NEW m \in Modes, NEW candidates,
           begin(m, candidates), listed' \subseteq Counterparties, org' \in {org, others},
           UNCHANGED <<config, outside, result, pick, bounty>>
    PROVE  SearchInv'
<1>1. /\ mode' = [mode EXCEPT ![m] = "simulating"]
      /\ DOMAIN sim' = Sims /\ sim' = [s \in Sims |-> sim'[s]]
      /\ \A s \in Sims : sim'[s] \in {sim[s], prepared, Failed}
  BY DEF begin
<1>2. mode' \in [Modes -> {"idle", "failed", "simulating", "balance", "routing", "listing"}]
  BY <1>1 DEF SearchInv, TypeOK
<1>3. \A s \in Sims : sim'[s] = sim[s] \/ Sound(sim'[s])
  BY <1>1, BeginningsAreSound DEF SearchInv
<1>4. QED
  BY <1>1, <1>2, <1>3, SearchingKeeps

\* A step of one simulation.
LEMMA SimStepKeeps ==
    ASSUME SearchInv, result = "searching", result' \in {"searching", "rejected"},
           NEW s \in Sims, NEW r, Sound(r), sim' = [sim EXCEPT ![s] = r],
           UNCHANGED <<config, outside, intraVars, mode, pick, bounty>>
    PROVE  SearchInv'
<1>1. /\ DOMAIN sim' = Sims /\ sim' = [t \in Sims |-> sim'[t]]
      /\ \A t \in Sims : sim'[t] = sim[t] \/ Sound(sim'[t])
  BY DEF SearchInv, TypeOK
<1>2. /\ mode' \in [Modes -> {"idle", "failed", "simulating", "balance", "routing", "listing"}]
      /\ listed' \subseteq Counterparties /\ org' \in {org, others}
  BY DEF SearchInv, TypeOK, intraVars
<1>3. QED
  BY <1>1, <1>2, SearchingKeeps

\* The three calls of setTransactionData and dryrun, one after the other.
LEMMA TaskKeeps ==
    ASSUME SearchInv, result = "searching", result' = result, NEW s \in Sims,
           setTransactionData(s) \/ dryrun(s) \/ finishSim(s)
    PROVE  SearchInv'
<1> USE DEF config
<1>1. Sound(sim[s]) /\ sim[s] \in SimType /\ coverage \in Nat /\ gasPrice \in Nat
      /\ sim \in [Sims -> SimType]
  BY SettingsAssumption, NumbersAssumption DEF SearchInv, TypeOK, Sound
<1>2. Sound(Failed)
  BY BeginningsAreSound DEF SearchInv
<1>3. UNCHANGED <<config, outside, intraVars, mode, pick, bounty>>
  BY DEF setTransactionData, dryrun, finishSim
<1>4. SUFFICES ASSUME NEW r, sim' = [sim EXCEPT ![s] = r], r # Failed
               PROVE  Sound(r)
  <2>1. sim' = [sim EXCEPT ![s] = sim'[s]]
    <3>1. CASE setTransactionData(s)
      BY <1>1, <3>1 DEF setTransactionData
    <3>2. CASE dryrun(s)
      BY <1>1, <3>2 DEF dryrun, dryrunPasses
    <3>3. CASE finishSim(s)
      BY <1>1, <3>3 DEF finishSim
    <3>4. QED
      BY <3>1, <3>2, <3>3
  <2>2. QED
    BY <1>2, <1>3, <1>4, <2>1, SimStepKeeps
<1>5. r = sim'[s]
  BY <1>1, <1>4
<1>6. CASE setTransactionData(s)
  <2>1. /\ sim[s].at = "task" /\ ~AtEnd(s)
        /\ r = [sim[s] EXCEPT !.at = "dryrun", !.seen = gasPrice,
                              !.min = minimumExpected(sim[s].turn, sim[s].cost)]
    BY <1>1, <1>4, <1>5, <1>6 DEF setTransactionData
  <2>2. sim[s].turn # (IF coverage = 0 THEN 2 ELSE 3) /\ sim[s].turn \in 1 .. 3
        /\ sim[s].cost \in Nat
    BY <1>1, <2>1 DEF AtEnd, SimType
  <2>3. sim[s].turn # 3
    BY <1>1, <2>1, <2>2 DEF Sound, MinInv
  <2>4. CASE sim[s].turn = 1
    <3>1. minimumExpected(sim[s].turn, sim[s].cost) = 0 /\ sim[s].cost = 0
      BY <1>1, <2>1, <2>4 DEF minimumExpected, Sound, MinInv
    <3>2. r \in SimType /\ r.at = "dryrun" /\ r.turn = 1 /\ r.min = 0 /\ r.cost = 0
      BY <1>1, <2>1, <2>4, <3>1 DEF SimType
    <3>3. QED
      BY <3>2 DEF Sound, MinInv, CostInv
  <2>5. CASE sim[s].turn = 2
    <3>1. minimumExpected(sim[s].turn, sim[s].cost) = WithHeadroom(sim[s].cost)
      BY <2>5 DEF minimumExpected, WithHeadroom
    <3>2. WithHeadroom(sim[s].cost) \in Nat
      <4>1. sim[s].cost * coverage * Headroom \in Nat
        BY <1>1, <2>2, SettingsAssumption
      <4>2. QED
        BY <4>1 DEF WithHeadroom
    <3>3. QED
      <4>1. /\ r \in SimType /\ r.at = "dryrun" /\ r.turn = 2
            /\ r.min = WithHeadroom(sim[s].cost) /\ r.cost = sim[s].cost
        BY <1>1, <2>1, <2>5, <3>1, <3>2 DEF SimType
      <4>2. coverage # 0
        BY <2>2, <2>5
      <4>3. QED
        BY <4>1, <4>2 DEF Sound, MinInv, CostInv
  <2>6. QED
    BY <2>2, <2>3, <2>4, <2>5
<1>7. CASE dryrun(s)
  <2>1. PICK estimate \in GasEstimates : dryrunPasses(s, estimate)
    BY <1>1, <1>4, <1>5, <1>7 DEF dryrun
  <2> DEFINE limit == (estimate * GasMultiplier) \div 100
  <2>2. /\ sim[s].at = "dryrun" /\ limit > 0
        /\ r = [sim[s] EXCEPT !.at = "task", !.turn = @ + 1, !.gas = limit,
                              !.was = sim[s].cost, !.cost = limit * sim[s].seen,
                              !.tried = sim[s].min]
    <3>1. sim[s].at = "dryrun"
      BY <1>7 DEF dryrun
    <3>2. /\ limit > 0
          /\ sim' = [sim EXCEPT ![s].at = "task", ![s].turn = @ + 1, ![s].gas = limit,
                                ![s].was = sim[s].cost, ![s].cost = limit * sim[s].seen,
                                ![s].tried = sim[s].min]
      BY <2>1 DEF dryrunPasses
    <3> HIDE DEF limit
    <3>3. ASSUME NEW c,
                 sim' = [sim EXCEPT ![s].at = "task", ![s].turn = @ + 1, ![s].gas = limit,
                                    ![s].was = sim[s].cost, ![s].cost = c,
                                    ![s].tried = sim[s].min]
          PROVE  sim'[s] = [sim[s] EXCEPT !.at = "task", !.turn = @ + 1, !.gas = limit,
                                          !.was = sim[s].cost, !.cost = c,
                                          !.tried = sim[s].min]
      BY <1>1, <3>3
    <3>4. QED
      BY <1>5, <3>1, <3>2, <3>3
  <2>3. limit \in Nat
    <3>1. estimate * GasMultiplier \in Nat
      BY NumbersAssumption, SettingsAssumption
    <3>2. QED
      BY <3>1
  <2> HIDE DEF limit
  <2>4. sim[s].turn \in {1, 2} /\ sim[s].turn # 3 /\ limit * sim[s].seen \in Nat
    BY <1>1, <2>2, <2>3 DEF Sound, MinInv, SimType
  <2>5. r \in SimType
    <3> DEFINE cost == limit * sim[s].seen
    <3>1. r = [sim[s] EXCEPT !.at = "task", !.turn = @ + 1, !.gas = limit,
                             !.was = sim[s].cost, !.cost = cost, !.tried = sim[s].min]
      BY <2>2
    <3>2. cost \in Nat /\ sim[s].turn + 1 \in 1 .. 3
      BY <2>4
    <3> HIDE DEF cost
    <3>3. QED
      BY <1>1, <2>3, <3>1, <3>2 DEF SimType
  <2>6. r.at = "task" /\ r.turn = sim[s].turn + 1 /\ r.gas = limit /\ r.was = sim[s].cost
        /\ r.cost = limit * sim[s].seen /\ r.tried = sim[s].min /\ r.min = sim[s].min
        /\ r.seen = sim[s].seen
    BY <1>1, <2>2 DEF SimType
  <2>7. CASE sim[s].turn = 1
    BY <1>1, <2>2, <2>5, <2>6, <2>7 DEF Sound, MinInv, CostInv
  <2>8. CASE sim[s].turn = 2
    BY <1>1, <2>2, <2>5, <2>6, <2>8 DEF Sound, MinInv, CostInv
  <2>9. QED
    BY <2>4, <2>7, <2>8
<1>8. CASE finishSim(s)
  <2>1. PICK profit \in Profits :
          r = [sim[s] EXCEPT !.at = "ok", !.profit = profit,
                             !.min = IF coverage = 0 THEN @
                                     ELSE minimumExpected(3, sim[s].cost)]
    BY <1>1, <1>4, <1>5, <1>8 DEF finishSim
  <2>2. sim[s].at = "task" /\ sim[s].turn = (IF coverage = 0 THEN 2 ELSE 3)
    BY <1>8 DEF finishSim, AtEnd
  <2>3. /\ sim[s].cost \in Nat /\ sim[s].was \in Nat /\ sim[s].gas \in Nat /\ profit \in Int
        /\ sim[s].gas > 0 /\ sim[s].cost = sim[s].gas * sim[s].seen
    <3>1. sim[s].cost \in Nat /\ sim[s].was \in Nat /\ sim[s].gas \in Nat /\ profit \in Int
      BY <1>1, NumbersAssumption DEF SimType
    <3>2. QED
      BY <1>1, <2>2, <3>1 DEF Sound, CostInv
  <2>4. CASE coverage = 0
    <3>1. /\ r \in SimType /\ r.at = "ok" /\ r.min = sim[s].min /\ r.tried = sim[s].tried
          /\ r.cost = sim[s].cost /\ r.gas = sim[s].gas /\ r.seen = sim[s].seen
      BY <1>1, <2>1, <2>3, <2>4 DEF SimType
    <3>2. sim[s].min = 0 /\ sim[s].tried = 0
      BY <1>1, <2>2, <2>4 DEF Sound, MinInv
    <3>3. QED
      BY <2>3, <2>4, <3>1, <3>2 DEF Sound, MinInv, CostInv
  <2>5. CASE coverage # 0
    <3>1. minimumExpected(3, sim[s].cost) = Covering(sim[s].cost)
      BY DEF minimumExpected, Covering
    <3>2. Covering(sim[s].cost) \in Nat
      <4>1. sim[s].cost * coverage \in Nat
        BY <1>1, <2>3
      <4>2. QED
        BY <4>1 DEF Covering
    <3>3. sim[s].cost <= sim[s].was => Covering(sim[s].cost) <= WithHeadroom(sim[s].was)
      BY <1>1, <2>3, HeadroomSuffices
    <3>4. sim[s].tried = WithHeadroom(sim[s].was)
      BY <1>1, <2>2, <2>5 DEF Sound, MinInv
    <3>5. QED
      <4>1. /\ r \in SimType /\ r.at = "ok" /\ r.min = Covering(sim[s].cost)
            /\ r.tried = sim[s].tried /\ r.cost = sim[s].cost /\ r.was = sim[s].was
            /\ r.gas = sim[s].gas /\ r.seen = sim[s].seen
        BY <1>1, <2>1, <2>3, <2>5, <3>1, <3>2 DEF SimType
      <4>2. r.min <= r.tried \/ r.cost > r.was
        BY <2>3, <3>3, <3>4, <4>1
      <4>3. QED
        BY <2>3, <4>1, <4>2 DEF Sound, MinInv, CostInv
  <2>6. QED
    BY <2>4, <2>5
<1>9. QED
  BY <1>6, <1>7, <1>8

\* Of the best of each trade type the best is the best of all.
LEMMA PickingKeeps ==
    ASSUME SearchInv, pickBest
    PROVE  SearchInv'
<1> DEFINE foundIn == {m \in Modes : Succeeded(m) # {}}
<1>1. result = "searching" /\ UNCHANGED <<config, outside, intraVars, mode, sim, bounty>>
  BY DEF pickBest
<1>2. sim \in [Sims -> SimType] /\ pick \in Sims
  BY DEF SearchInv, TypeOK
<1>3. CASE foundIn = {}
  <2>1. result' = "none" /\ UNCHANGED pick
    BY <1>3 DEF pickBest
  <2>2. sim' = [s \in Sims |-> sim'[s]] /\ DOMAIN sim' = Sims
    BY <1>1, <1>2
  <2>3. listed' \subseteq Counterparties /\ org' \in {org, others}
        /\ mode' \in [Modes -> {"idle", "failed", "simulating", "balance", "routing", "listing"}]
    BY <1>1 DEF SearchInv, TypeOK, intraVars
  <2>4. QED
    BY <1>1, <2>1, <2>2, <2>3, SearchingKeeps
<1>4. CASE foundIn # {}
  <2>1. PICK choice \in [foundIn -> Sims] :
          /\ \A m \in foundIn : choice[m] \in best(Succeeded(m))
          /\ pick' \in best({choice[m] : m \in foundIn})
          /\ result' = "found"
    BY <1>4 DEF pickBest
  <2>2. \A m \in foundIn : choice[m] \in Sims /\ sim[choice[m]].at = "ok"
    BY <2>1 DEF best, Succeeded, SimsOf
  <2>3. pick' \in Sims /\ sim[pick'].at = "ok"
    BY <2>1, <2>2 DEF best
  <2>4. ASSUME NEW s \in Sims, sim[s].at = "ok"
        PROVE  sim[s].profit <= sim[pick'].profit
    <3>1. ModeOf(s) \in Modes
      BY DEF Sims, ModeOf, Modes
    <3>2. s \in Succeeded(ModeOf(s)) /\ ModeOf(s) \in foundIn
      BY <2>4, <3>1 DEF Succeeded, SimsOf
    <3>3. sim[s].profit <= sim[choice[ModeOf(s)]].profit
      BY <2>1, <3>2 DEF best
    <3>4. sim[choice[ModeOf(s)]].profit <= sim[pick'].profit
      BY <2>1, <3>2 DEF best
    <3>5. /\ sim[s].profit \in Int /\ sim[pick'].profit \in Int
          /\ sim[choice[ModeOf(s)]].profit \in Int
      BY <1>2, <2>2, <2>3, <3>2 DEF SimType
    <3>6. QED
      BY <3>3, <3>4, <3>5
  <2>5. PickedInv'
    BY <1>1, <2>3, <2>4 DEF PickedInv, BestIsPicked, Sims
  <2>6. FinalMinWasSimulated'
    <3>1. Sound(sim[pick'])
      BY <2>3 DEF SearchInv
    <3>2. sim[pick'].min <= sim[pick'].tried \/ sim[pick'].cost > sim[pick'].was
      BY <2>3, <3>1 DEF Sound, MinInv
    <3>3. QED
      BY <1>1, <3>2 DEF FinalMinWasSimulated
  <2>7. UnderpaysOnlyWhenStale'
    BY <2>1 DEF UnderpaysOnlyWhenStale
  <2>8. TypeOK'
    BY <1>1, <2>1, <2>3 DEF SearchInv, TypeOK, config, outside, intraVars, Sims, SimType
  <2>9. (\A s \in Sims : Sound(sim[s]))'
    BY <1>1 DEF SearchInv, Sound, MinInv, CostInv, WithHeadroom, Covering, SimType, Sims,
       config
  <2>10. QED
    BY <2>5, <2>6, <2>7, <2>8, <2>9 DEF SearchInv
<1>5. QED
  BY <1>3, <1>4

\* What the bounty task lets through pays for the gas at the price that the
\* last dry run saw.
LEMMA ClearingPays ==
    ASSUME SearchInv, result = "found", NEW b \in Nat, coverage = 0 \/ EnsureBounty(b)
    PROVE  \/ 100 * b >= coverage * sim[pick].gas * sim[pick].price
           \/ sim[pick].seen < sim[pick].price
           \/ ModeOf(pick) = "intra" /\ others > org
<1>1. /\ pick \in Sims /\ sim[pick] \in SimType /\ sim[pick].at = "ok" /\ Sound(sim[pick])
      /\ others \in Nat /\ org \in Nat /\ coverage \in Nat
  BY SettingsAssumption DEF SearchInv, TypeOK, PickedInv
<1> DEFINE gas == sim[pick].gas
           price == sim[pick].price
           seen == sim[pick].seen
<1>2. gas \in Nat /\ price \in Nat /\ seen \in Nat /\ sim[pick].min \in Nat
  BY <1>1 DEF SimType
<1>3. CASE coverage = 0
  <2>1. coverage * gas * price = 0
    BY <1>2, <1>3
  <2>2. QED
    BY <2>1
<1>4. CASE coverage # 0 /\ price <= seen /\ ~(ModeOf(pick) = "intra" /\ others > org)
  <2>1. b > sim[pick].min
    BY <1>1, <1>2, <1>4 DEF EnsureBounty
  <2>2. sim[pick].min = (gas * seen * coverage) \div 100
    BY <1>1, <1>4 DEF Sound, CostInv, Covering
  <2> HIDE DEF gas, price, seen
  <2>3. gas * seen * coverage \in Nat
    BY <1>1, <1>2
  <2>4. 100 * b >= gas * seen * coverage
    BY <2>1, <2>2, <2>3, ExceedingPays
  <2>5. coverage * gas * price <= coverage * gas * seen
    <3>1. coverage * gas \in Nat
      BY <1>1, <1>2
    <3>2. QED
      BY <1>2, <1>4, <3>1
  <2>6. coverage * gas * seen = gas * seen * coverage
    BY <1>1, <1>2
  <2>7. coverage * gas * price \in Int
    BY <1>1, <1>2
  <2>8. 100 * b >= coverage * gas * price
    BY <2>3, <2>4, <2>5, <2>6, <2>7
  <2>9. QED
    BY <2>8 DEF gas, price
<1>5. QED
  BY <1>2, <1>3, <1>4

\* What other orders and the watcher do meanwhile moves no simulation.
LEMMA OutsideKeeps ==
    ASSUME SearchInv, TypeOK', UNCHANGED <<config, intraVars, searchVars, bounty>>,
           UNCHANGED others \/ result # "cleared"
    PROVE  SearchInv'
<1>1. (\A s \in Sims : Sound(sim[s]))'
  BY DEF SearchInv, Sound, MinInv, CostInv, WithHeadroom, Covering, SimType, Sims,
     config, searchVars
<1>2. PickedInv' /\ FinalMinWasSimulated'
  BY DEF SearchInv, PickedInv, BestIsPicked, FinalMinWasSimulated, searchVars, Sims
<1>3. UnderpaysOnlyWhenStale'
  BY DEF SearchInv, UnderpaysOnlyWhenStale, Pays, searchVars, config, intraVars
<1>4. QED
  BY <1>1, <1>2, <1>3 DEF SearchInv

\* The invariant holds initially and in every step.
LEMMA SearchInvInductive ==
    /\ Init => SearchInv
    /\ SearchInv /\ [Next]_vars => SearchInv'
<1>1. ASSUME Init
      PROVE  SearchInv
  <2>1. Sound(NoSim) /\ NoSim.at = "idle"
    BY NumbersAssumption DEF NoSim, Sound, SimType, MinInv, CostInv
  <2>2. \A s \in Sims : sim[s] = NoSim
    BY <1>1 DEF Init
  <2>3. sim \in [Sims -> SimType] /\ \A s \in Sims : Sound(sim[s]) /\ sim[s].at # "ok"
    BY <1>1, <2>1, <2>2 DEF Init, Sound
  <2>4. pick \in Sims
    BY <1>1 DEF Init, Sims
  <2>5. TypeOK
    BY <1>1, <2>3, <2>4, NumbersAssumption DEF Init, TypeOK
  <2>6. QED
    BY <1>1, <2>3, <2>5 DEF Init, SearchInv, PickedInv, BestIsPicked, FinalMinWasSimulated,
       UnderpaysOnlyWhenStale
<1>2. ASSUME SearchInv, [Next]_vars
      PROVE  SearchInv'
  <2> USE <1>2
  <2>1. CASE findBestTrade
    <3>1. PICK on \in SUBSET enabledTypes(types.own) :
            /\ mode' = [m \in Modes |-> IF m \in on THEN FirstWait[m] ELSE "failed"]
            /\ sim' = [s \in Sims |->
                  IF s = <<"router", NoOrder>> /\ "router" \in on
                    THEN [prepared EXCEPT !.at = "route"] ELSE NoSim]
            /\ IF "intra" \in on THEN listed' \in SUBSET quoted
                                 ELSE UNCHANGED listed
      BY <2>1 DEF findBestTrade
    <3>2. result = "idle" /\ result' = "searching"
          /\ UNCHANGED <<config, outside, org, pick, bounty>>
      BY <2>1 DEF findBestTrade
    <3>3. mode' \in [Modes -> {"idle", "failed", "simulating", "balance", "routing",
                               "listing"}]
      BY <3>1 DEF FirstWait, Modes
    <3>4. listed' \subseteq Counterparties
      BY <3>1 DEF SearchInv, TypeOK
    <3>5. \A s \in Sims : Sound(sim'[s])
      BY <3>1, BeginningsAreSound DEF SearchInv
    <3>6. DOMAIN sim' = Sims /\ sim' = [s \in Sims |-> sim'[s]]
      BY <3>1
    <3>7. QED
      BY <3>2, <3>3, <3>4, <3>5, <3>6, SearchingKeeps
  <2>2. ASSUME result = "searching", startInter
        PROVE  SearchInv'
    <3>1. /\ begin("inter", IF interEnabledForCounterparty THEN quoted ELSE {})
          /\ UNCHANGED <<config, outside, intraVars, result, pick, bounty>>
      BY <2>2 DEF startInter
    <3>2. listed' \subseteq Counterparties /\ org' = org
      BY <3>1 DEF SearchInv, TypeOK, intraVars
    <3>3. QED
      BY <2>2, <3>1, <3>2, BeginKeeps DEF Modes
  <2>3. ASSUME result = "searching", startIntra
        PROVE  SearchInv'
    <3>1. listed' = {} /\ UNCHANGED <<config, outside, result, pick, bounty>>
      BY <2>3 DEF startIntra
    <3>2. CASE begin("intra", listed) /\ org' = others
      BY <2>3, <3>1, <3>2, BeginKeeps DEF Modes
    <3>3. CASE mode' = [mode EXCEPT !["intra"] = "failed"] /\ UNCHANGED <<sim, org>>
      <4>1. mode' \in [Modes -> {"idle", "failed", "simulating", "balance", "routing",
                                 "listing"}]
        BY <3>3 DEF SearchInv, TypeOK
      <4>2. DOMAIN sim' = Sims /\ sim' = [s \in Sims |-> sim'[s]]
        BY <3>3 DEF SearchInv, TypeOK
      <4>3. QED
        BY <2>3, <3>1, <3>3, <4>1, <4>2, SearchingKeeps
    <3>4. QED
      BY <2>3, <3>2, <3>3 DEF startIntra
  <2>4. ASSUME result = "searching", startRaindex
        PROVE  SearchInv'
    <3>1. PICK profitable \in SUBSET quoted : begin("raindex", profitable)
      BY <2>4 DEF startRaindex
    <3>2. UNCHANGED <<config, outside, intraVars, result, pick, bounty>>
      BY <2>4 DEF startRaindex
    <3>3. listed' \subseteq Counterparties /\ org' = org
      BY <3>2 DEF SearchInv, TypeOK, intraVars
    <3>4. QED
      BY <2>4, <3>1, <3>2, <3>3, BeginKeeps DEF Modes
  <2>5. ASSUME result = "searching", NEW s \in Sims, prepareTradeParams(s)
        PROVE  SearchInv'
    <3>1. Sound(sim[s]) /\ sim[s] \in SimType /\ sim \in [Sims -> SimType]
      BY DEF SearchInv, TypeOK
    <3>2. UNCHANGED <<config, outside, intraVars, mode, result, pick, bounty>>
          /\ sim[s].at = "route"
      BY <2>5 DEF prepareTradeParams
    <3>3. CASE sim' = [sim EXCEPT ![s].at = "task"]
      <4>1. sim' = [sim EXCEPT ![s] = [sim[s] EXCEPT !.at = "task"]]
        BY <3>3
      <4>2. Sound([sim[s] EXCEPT !.at = "task"])
        <5> DEFINE r == [sim[s] EXCEPT !.at = "task"]
        <5>1. /\ r \in SimType /\ r.at = "task" /\ r.turn = sim[s].turn
              /\ r.min = sim[s].min /\ r.cost = sim[s].cost
          BY <3>1 DEF SimType
        <5>2. r.turn = 1 /\ r.min = 0 /\ r.cost = 0
          BY <3>1, <3>2, <5>1 DEF Sound, MinInv
        <5> HIDE DEF r
        <5>3. Sound(r)
          BY <5>1, <5>2 DEF Sound, MinInv, CostInv
        <5>4. QED
          BY <5>3 DEF r
      <4>3. QED
        BY <2>5, <3>2, <4>1, <4>2, SimStepKeeps
    <3>4. CASE sim' = [sim EXCEPT ![s] = Failed]
      BY <2>5, <3>2, <3>4, BeginningsAreSound, SimStepKeeps DEF SearchInv
    <3>5. QED
      BY <2>5, <3>3, <3>4 DEF prepareTradeParams
  <2>6. ASSUME result = "searching", NEW s \in Sims, tryPartialSize(s)
        PROVE  SearchInv'
    BY <2>6, BeginningsAreSound, SimStepKeeps DEF tryPartialSize, SearchInv
  <2>7. ASSUME result = "searching", NEW s \in Sims,
               setTransactionData(s) \/ dryrun(s) \/ finishSim(s)
        PROVE  SearchInv'
    <3>1. result' = result
      BY <2>7 DEF setTransactionData, dryrun, finishSim
    <3>2. QED
      BY <2>7, <3>1, TaskKeeps
  <2>8. ASSUME NEW s \in Sims, estimateProfitThrows(s)
        PROVE  SearchInv'
    BY <2>8, BeginningsAreSound, SimStepKeeps DEF estimateProfitThrows, SearchInv
  <2>9. CASE pickBest
    BY <2>9, PickingKeeps
  <2>10. CASE mined
    <3>1. result = "found" /\ UNCHANGED <<config, outside, intraVars, mode, sim, pick>>
      BY <2>10 DEF mined
    <3>2. PICK b \in Bounties :
            IF coverage = 0 \/ EnsureBounty(b)
              THEN result' = "cleared" /\ bounty' = b
              ELSE result' = "reverted" /\ UNCHANGED bounty
      BY <2>10 DEF mined
    <3>3. b \in Nat /\ result' \in {"cleared", "reverted"} /\ bounty' \in Nat
      BY <3>2, NumbersAssumption DEF SearchInv, TypeOK
    <3>4. TypeOK'
      BY <3>1, <3>3 DEF SearchInv, TypeOK, config, outside, intraVars, Sims, SimType
    <3>5. (\A s \in Sims : Sound(sim[s]))'
      BY <3>1 DEF SearchInv, Sound, MinInv, CostInv, WithHeadroom, Covering, SimType, Sims,
         config
    <3>6. PickedInv' /\ FinalMinWasSimulated'
      BY <3>1, <3>3 DEF SearchInv, PickedInv, BestIsPicked, FinalMinWasSimulated, Sims
    <3>7. UnderpaysOnlyWhenStale'
      BY <3>1, <3>2, <3>3, ClearingPays DEF UnderpaysOnlyWhenStale, Pays, config, outside,
         intraVars
    <3>8. QED
      BY <3>4, <3>5, <3>6, <3>7 DEF SearchInv
  <2>11. CASE watchGasPrice
    <3>1. TypeOK'
      BY <2>11 DEF watchGasPrice, SearchInv, TypeOK, config, intraVars, searchVars, Sims,
         SimType
    <3>2. QED
      BY <2>11, <3>1, OutsideKeeps DEF watchGasPrice
  <2>12. ASSUME NEW c \in Counterparties, quoteCounterparty(c)
        PROVE  SearchInv'
    <3>1. TypeOK'
      BY <2>12 DEF quoteCounterparty, SearchInv, TypeOK, config, intraVars, searchVars, Sims,
         SimType
    <3>2. QED
      BY <2>12, <3>1, OutsideKeeps DEF quoteCounterparty
  <2>13. CASE otherTradeMined
    <3>1. others' \in Nat
      BY <2>13, NumbersAssumption DEF otherTradeMined, SearchInv, TypeOK
    <3>2. TypeOK'
      BY <2>13, <3>1 DEF otherTradeMined, SearchInv, TypeOK, config, intraVars, searchVars,
         Sims, SimType
    <3>3. QED
      BY <2>13, <3>2, OutsideKeeps DEF otherTradeMined
  <2>14. CASE UNCHANGED vars
    <3>1. TypeOK'
      BY <2>14 DEF vars, SearchInv, TypeOK, Sims, SimType
    <3>2. QED
      BY <2>14, <3>1, OutsideKeeps DEF vars, config, intraVars, searchVars
  <2>15. QED
    BY <2>1, <2>2, <2>3, <2>4, <2>5, <2>6, <2>7, <2>8, <2>9, <2>10, <2>11, <2>12, <2>13,
       <2>14 DEF Next, searchStep
<1>3. QED
  BY <1>1, <1>2

\* Whatever the gas price and the estimates do between the two dry runs, the
\* minimum of the final transaction is at most the one that the last dry run
\* asked for, unless that dry run cost more than the first (trySimulateTrade).
THEOREM FinalMinimumWasSimulated == Spec => []FinalMinWasSimulated
<1>1. SearchInv => FinalMinWasSimulated
  BY DEF SearchInv
<1>2. QED
  BY <1>1, SearchInvInductive, PTL DEF Spec

\* A trade that clears pays for its gas, but for the two stale readings (the
\* gas price in prepareTradeParams and dryrun, the balance of "intra").
THEOREM UnderpaidOnlyWhenStale == Spec => []UnderpaysOnlyWhenStale
<1>1. SearchInv => UnderpaysOnlyWhenStale
  BY DEF SearchInv
<1>2. QED
  BY <1>1, SearchInvInductive, PTL DEF Spec

\* In whatever order the simulations of the trade types end, the one that is
\* sent has the highest estimate (findBestTrade and the sorting of results).
THEOREM BestOfAllIsPicked == Spec => []BestIsPicked
<1>1. SearchInv => BestIsPicked
  BY DEF SearchInv, PickedInv
<1>2. QED
  BY <1>1, SearchInvInductive, PTL DEF Spec
-----------------------------------------------------------------------------
(***************************************************************************)
(* RouteCache.                                                             *)
(***************************************************************************)

Known == ToSet(sortedRoutes)

\* Entries are lists of known routes, and a quote works with a list that is as
\* long as its entry's.
EntryInv ==
    /\ fetches \in 0 .. MaxFetches
    /\ cached \in {NoEntry, NoWay} \union 1 .. fetches
    /\ valid \in BOOLEAN /\ (valid => cached # NoEntry)
    /\ routes \in [Entries -> Seq(Known)]
    /\ lastWorked \in [Entries -> Known \union {0}]
    /\ \A e \in 1 .. fetches : routes[e] # <<>>

TryInv ==
    /\ quoteStage \in [Quoters -> QuoteStages]
    /\ DOMAIN entry = Quoters /\ DOMAIN allRoutes = Quoters /\ DOMAIN tries = Quoters
    /\ \A q \in Quoters : quoteStage[q] = "trying" =>
         /\ entry[q] \in 1 .. fetches /\ tries[q] \in Nat \ {0}
         /\ allRoutes[q] \in Seq(Known) /\ Len(allRoutes[q]) = Len(routes[entry[q]])

CacheInv == EntryInv /\ TryInv /\ RoutesKept

\* Moving a route to the front and the first one to the end loses none.
LEMMA ReorderingKeepsRoutes ==
    ASSUME NEW R, NEW rs \in Seq(R), NEW i \in 2 .. Len(rs)
    PROVE  /\ Reordered(rs, i) \in Seq(R) /\ Len(Reordered(rs, i)) = Len(rs)
           /\ Reordered(rs, i)[1] = rs[i]
           /\ ToSet(Reordered(rs, i)) = ToSet(rs)
<1> DEFINE n == Len(rs)
           swapped == [rs EXCEPT ![1] = rs[i], ![i] = rs[1]]
           front == SubSeq(swapped, 1, i - 1)
           back == SubSeq(swapped, i + 1, n)
           u == Reordered(rs, i)
<1>1. n \in Nat /\ i \in 2 .. n /\ rs \in [1 .. n -> R]
  OBVIOUS
<1>2. /\ swapped \in Seq(R) /\ Len(swapped) = n /\ swapped[1] = rs[i] /\ swapped[i] = rs[1]
      /\ \A j \in 2 .. n : j # i => swapped[j] = rs[j]
  <2>1. swapped \in [1 .. n -> R]
    BY <1>1
  <2>2. QED
    BY <1>1, <2>1
<1> HIDE DEF swapped, n
<1>3. /\ front \in Seq(R) /\ Len(front) = i - 1
      /\ \A j \in 1 .. i - 1 : front[j] = swapped[j]
  BY <1>1, <1>2
<1>4. /\ back \in Seq(R) /\ Len(back) = n - i
      /\ \A j \in 1 .. n - i : back[j] = swapped[i + j]
  BY <1>1, <1>2
<1>5. u = Append(front \o back, rs[1])
  BY <1>2 DEF Reordered, RemoveAt, swapped
<1> HIDE DEF front, back, u
<1>6. /\ front \o back \in Seq(R) /\ Len(front \o back) = n - 1
      /\ \A j \in 1 .. n - 1 : (front \o back)[j] =
           IF j <= i - 1 THEN front[j] ELSE back[j - (i - 1)]
  <2>1. /\ front \o back \in Seq(R) /\ Len(front \o back) = Len(front) + Len(back)
        /\ \A j \in 1 .. Len(front) + Len(back) : (front \o back)[j] =
             IF j <= Len(front) THEN front[j] ELSE back[j - Len(front)]
    BY <1>3, <1>4, ConcatProperties
  <2>2. Len(front) = i - 1 /\ Len(front) + Len(back) = n - 1
    BY <1>1, <1>3, <1>4
  <2>3. QED
    BY <2>1, <2>2
<1> DEFINE joined == front \o back
<1> HIDE DEF joined
<1>7. /\ u \in Seq(R) /\ Len(u) = n /\ u[n] = rs[1]
      /\ \A j \in 1 .. n - 1 : u[j] = joined[j]
  <2>1. joined \in Seq(R) /\ Len(joined) = n - 1 /\ rs[1] \in R
    BY <1>1, <1>6 DEF joined
  <2>2. u = Append(joined, rs[1])
    BY <1>5 DEF joined
  <2>3. /\ Append(joined, rs[1]) \in Seq(R) /\ Len(Append(joined, rs[1])) = n
        /\ Append(joined, rs[1])[n] = rs[1]
        /\ \A j \in 1 .. n - 1 : Append(joined, rs[1])[j] = joined[j]
    BY <1>1, <2>1, AppendProperties
  <2>4. QED
    BY <2>2, <2>3
<1>8. /\ u[1] = rs[i]
      /\ \A j \in 2 .. i - 1 : u[j] = rs[j]
      /\ \A j \in i .. n - 1 : u[j] = rs[j + 1]
  <2>1. u[1] = rs[i]
    <3>1. 1 \in 1 .. n - 1 /\ 1 \in 1 .. i - 1 /\ 1 <= i - 1
      BY <1>1
    <3>2. QED
      BY <1>2, <1>3, <1>6, <1>7, <3>1 DEF joined
  <2>2. ASSUME NEW j \in 2 .. i - 1
        PROVE  u[j] = rs[j]
    <3>1. j \in 1 .. n - 1 /\ j \in 1 .. i - 1 /\ j <= i - 1 /\ j \in 2 .. n /\ j # i
      BY <1>1
    <3>2. QED
      BY <1>2, <1>3, <1>6, <1>7, <3>1 DEF joined
  <2>3. ASSUME NEW j \in i .. n - 1
        PROVE  u[j] = rs[j + 1]
    <3>1. /\ j - (i - 1) \in 1 .. n - i /\ j + 1 \in 2 .. n /\ j + 1 # i
          /\ i + (j - (i - 1)) = j + 1 /\ j \in 1 .. n - 1 /\ ~(j <= i - 1)
      BY <1>1
    <3>2. u[j] = swapped[j + 1]
      <4>1. u[j] = back[j - (i - 1)]
        BY <1>6, <1>7, <3>1 DEF joined
      <4>2. back[j - (i - 1)] = swapped[i + (j - (i - 1))]
        BY <1>4, <3>1
      <4>3. QED
        BY <3>1, <4>1, <4>2
    <3>3. QED
      BY <1>2, <3>1, <3>2
  <2>4. QED
    BY <2>1, <2>2, <2>3
<1>9. ASSUME NEW x \in ToSet(u)
      PROVE  x \in ToSet(rs)
  <2>1. PICK j \in 1 .. n : x = u[j]
    BY <1>7 DEF ToSet
  <2>2. \E k \in 1 .. n : x = rs[k]
    <3>1. CASE j = 1
      BY <1>1, <1>8, <2>1, <3>1
    <3>2. CASE j \in 2 .. i - 1
      BY <1>1, <1>8, <2>1, <3>2
    <3>3. CASE j \in i .. n - 1
      <4>1. j + 1 \in 1 .. n /\ x = rs[j + 1]
        BY <1>1, <1>8, <2>1, <3>3
      <4>2. QED
        BY <4>1
    <3>4. CASE j = n
      BY <1>1, <1>7, <2>1, <3>4
    <3>5. QED
      BY <1>1, <3>1, <3>2, <3>3, <3>4
  <2>3. QED
    BY <1>1, <2>2 DEF ToSet
<1>10. ASSUME NEW x \in ToSet(rs)
       PROVE  x \in ToSet(u)
  <2>1. PICK k \in 1 .. n : x = rs[k]
    BY <1>1 DEF ToSet
  <2>2. \E j \in 1 .. n : x = u[j]
    <3>1. CASE k = 1
      BY <1>1, <1>7, <2>1, <3>1
    <3>2. CASE k = i
      BY <1>1, <1>8, <2>1, <3>2
    <3>3. CASE k \in 2 .. i - 1
      BY <1>1, <1>8, <2>1, <3>3
    <3>4. CASE k \in i + 1 .. n
      <4>1. k - 1 \in i .. n - 1 /\ u[k - 1] = rs[k]
        BY <1>1, <1>8, <3>4
      <4>2. QED
        BY <1>1, <2>1, <4>1
    <3>5. QED
      BY <1>1, <3>1, <3>2, <3>3, <3>4
  <2>3. QED
    BY <1>7, <2>2 DEF ToSet
<1>11. QED
  BY <1>7, <1>8, <1>9, <1>10 DEF u, n

\* What the API answers with.
LEMMA BestRoutesAreKnown ==
    ASSUME NEW n \in DOMAIN sortedRoutes
    PROVE  /\ BestRoutes(n) \in Seq(Known) /\ Len(BestRoutes(n)) = n /\ n \in Nat \ {0}
           /\ BestRoutes(n) # <<>> /\ BestRoutes(n)[1] = sortedRoutes[1]
<1>1. sortedRoutes \in Seq(Known)
  BY RouteCacheAssumption DEF Known
<1>2. n \in 1 .. Len(sortedRoutes) /\ Len(sortedRoutes) \in Nat
  BY <1>1, LenProperties
<1>3. \A j \in 1 .. n : sortedRoutes[j] \in Known
  BY <1>1, <1>2, ElementOfSeq
<1>4. /\ SubSeq(sortedRoutes, 1, n) \in Seq(Known) /\ Len(SubSeq(sortedRoutes, 1, n)) = n
      /\ SubSeq(sortedRoutes, 1, n)[1] = sortedRoutes[1]
  <2>1. /\ SubSeq(sortedRoutes, 1, n) \in Seq(Known)
        /\ Len(SubSeq(sortedRoutes, 1, n)) = IF 1 <= n THEN n - 1 + 1 ELSE 0
        /\ \A j \in 1 .. n - 1 + 1 : SubSeq(sortedRoutes, 1, n)[j] = sortedRoutes[1 + j - 1]
    BY <1>2, <1>3, SubSeqProperties
  <2>2. 1 <= n /\ 1 \in 1 .. n - 1 + 1 /\ n - 1 + 1 = n /\ 1 + 1 - 1 = 1
    BY <1>2
  <2>3. QED
    BY <2>1, <2>2
<1>5. SubSeq(sortedRoutes, 1, n) # <<>> /\ n \in Nat \ {0}
  BY <1>2, <1>4, EmptySeq
<1>6. QED
  BY <1>4, <1>5 DEF BestRoutes

LEMMA CacheInvInit == RouteInit => CacheInv
<1> SUFFICES ASSUME RouteInit
             PROVE  CacheInv
  OBVIOUS
<1>1. EntryInv
  <2>1. <<>> \in Seq(Known)
    BY EmptySeq
  <2>2. routes \in [Entries -> Seq(Known)] /\ lastWorked \in [Entries -> Known \union {0}]
    BY <2>1 DEF RouteInit
  <2>3. /\ fetches = 0 /\ fetches \in 0 .. MaxFetches /\ cached = NoEntry /\ valid = FALSE
        /\ 1 .. 0 = {}
    BY RouteCacheAssumption DEF RouteInit
  <2>4. QED
    BY <2>2, <2>3 DEF EntryInv
<1>2. TryInv
  BY DEF RouteInit, TryInv, QuoteStages
<1>3. RoutesKept
  BY DEF RouteInit, RoutesKept
<1>4. QED
  BY <1>1, <1>2, <1>3 DEF CacheInv

\* A quote that ends leaves the others as they are.
LEMMA EndingKeepsTries ==
    ASSUME CacheInv, NEW q \in Quoters, ends(q), fetches' = fetches,
           \A e \in 1 .. fetches : Len(routes[e])' = Len(routes[e])
    PROVE  TryInv'
<1>1. /\ quoteStage' \in [Quoters -> QuoteStages]
      /\ DOMAIN entry' = Quoters /\ DOMAIN allRoutes' = Quoters /\ DOMAIN tries' = Quoters
  BY DEF ends, CacheInv, TryInv, QuoteStages
<1>2. ASSUME NEW p \in Quoters, quoteStage'[p] = "trying"
      PROVE  /\ entry'[p] \in 1 .. fetches' /\ tries'[p] \in Nat \ {0}
             /\ allRoutes'[p] \in Seq(Known) /\ Len(allRoutes'[p]) = Len(routes'[entry'[p]])
  <2>1. p # q
    BY <1>2 DEF ends, CacheInv, TryInv
  <2>2. /\ quoteStage[p] = "trying" /\ entry'[p] = entry[p] /\ tries'[p] = tries[p]
        /\ allRoutes'[p] = allRoutes[p]
    BY <1>2, <2>1 DEF ends, CacheInv, TryInv
  <2>3. QED
    BY <2>2 DEF CacheInv, TryInv
<1>3. QED
  BY <1>1, <1>2 DEF TryInv

\* A step that leaves the entries alone.
LEMMA SameEntries ==
    ASSUME CacheInv, UNCHANGED entryVars
    PROVE  RoutesKept' /\ (EntryInv' <=> /\ cached' \in {NoEntry, NoWay} \union 1 .. fetches
                                         /\ valid' \in BOOLEAN /\ (valid' => cached' # NoEntry))
  BY DEF CacheInv, EntryInv, RoutesKept, entryVars, BestRoutes, Entries

LEMMA AskingKeepsCache ==
    ASSUME CacheInv, NEW q \in Quoters, NEW amount \in Amounts, tryQuote(q, amount)
    PROVE  CacheInv'
<1>1. EntryInv' /\ RoutesKept'
  BY SameEntries DEF tryQuote, CacheInv, EntryInv, cacheVars
<1>2. CASE valid /\ goesOn(q, cached, routes[cached])
  <2>1. cached \in 1 .. fetches /\ cached \in Entries
    BY <1>2, RouteCacheAssumption DEF tryQuote, CacheInv, EntryInv, NoEntry, NoWay, Entries
  <2>2. routes[cached] \in Seq(Known)
    BY <2>1 DEF CacheInv, EntryInv
  <2>3. TryInv'
    BY <1>2, <2>1, <2>2 DEF tryQuote, goesOn, CacheInv, TryInv, QuoteStages, entryVars
  <2>4. QED
    BY <1>1, <2>3 DEF CacheInv
<1>3. CASE /\ quoteStage' = [quoteStage EXCEPT ![q] = "fetching"]
           /\ UNCHANGED <<entry, allRoutes, tries>>
  <2>1. TryInv'
    BY <1>3 DEF tryQuote, CacheInv, TryInv, QuoteStages, entryVars
  <2>2. QED
    BY <1>1, <2>1 DEF CacheInv
<1>4. QED
  BY <1>2, <1>3 DEF tryQuote

LEMMA FetchingKeepsCache ==
    ASSUME CacheInv, NEW q \in Quoters, NEW n \in DOMAIN sortedRoutes,
           fetchSortedRoutes(q, n)
    PROVE  CacheInv'
<1> DEFINE e == fetches + 1
           rs == BestRoutes(n)
<1>1. /\ rs \in Seq(Known) /\ Len(rs) = n /\ rs # <<>> /\ rs[1] = sortedRoutes[1]
      /\ sortedRoutes[1] \in Known
  <2>1. rs[1] \in Known
    BY BestRoutesAreKnown, ElementOfSeq
  <2>2. QED
    BY <2>1, BestRoutesAreKnown
<1>2. e \in Entries /\ e = fetches' /\ e \in 1 .. fetches' /\ fetches \in Nat /\ fetches' \in 0 .. MaxFetches
  BY RouteCacheAssumption DEF fetchSortedRoutes, CacheInv, EntryInv, Entries
<1>3. /\ routes' = [routes EXCEPT ![e] = rs]
      /\ lastWorked' = [lastWorked EXCEPT ![e] = sortedRoutes[1]]
      /\ goesOn(q, e, rs) /\ cached' = e /\ valid' = TRUE /\ overlapped' = overlapped
  BY DEF fetchSortedRoutes
<1> HIDE DEF rs
<1>4. routes' \in [Entries -> Seq(Known)] /\ lastWorked' \in [Entries -> Known \union {0}]
  BY <1>1, <1>3 DEF CacheInv, EntryInv
<1>5. /\ routes'[e] = rs /\ lastWorked'[e] = sortedRoutes[1]
      /\ \A d \in 1 .. fetches : routes'[d] = routes[d] /\ lastWorked'[d] = lastWorked[d]
  BY <1>2, <1>3 DEF CacheInv, EntryInv, Entries
<1>6. EntryInv'
  BY <1>1, <1>2, <1>3, <1>4, <1>5 DEF CacheInv, EntryInv, NoEntry
<1>7. TryInv'
  <2>1. /\ quoteStage' \in [Quoters -> QuoteStages]
        /\ DOMAIN entry' = Quoters /\ DOMAIN allRoutes' = Quoters /\ DOMAIN tries' = Quoters
    BY <1>3 DEF goesOn, CacheInv, TryInv, QuoteStages
  <2>2. ASSUME NEW p \in Quoters, quoteStage'[p] = "trying"
        PROVE  /\ entry'[p] \in 1 .. fetches' /\ tries'[p] \in Nat \ {0}
               /\ allRoutes'[p] \in Seq(Known) /\ Len(allRoutes'[p]) = Len(routes'[entry'[p]])
    <3>1. CASE p = q
      BY <1>1, <1>2, <1>3, <1>5, <3>1 DEF goesOn, CacheInv, TryInv
    <3>2. CASE p # q
      BY <1>2, <1>3, <1>5, <2>2, <3>2 DEF goesOn, CacheInv, TryInv
    <3>3. QED
      BY <3>1, <3>2
  <2>3. QED
    BY <2>1, <2>2 DEF TryInv
<1>8. RoutesKept'
  <2>1. ASSUME NEW d \in 1 .. fetches' \ overlapped'
        PROVE  /\ routes'[d][1] = lastWorked'[d]
               /\ ToSet(routes'[d]) = ToSet(BestRoutes(Len(routes'[d])))
    <3>1. CASE d = e
      BY <1>1, <1>5, <3>1 DEF rs
    <3>2. CASE d # e
      <4>1. d \in 1 .. fetches \ overlapped
        BY <1>2, <1>3, <3>2
      <4>2. QED
        BY <1>5, <4>1 DEF CacheInv, RoutesKept
    <3>3. QED
      BY <3>1, <3>2
  <2>2. QED
    BY <2>1 DEF RoutesKept, BestRoutes
<1>9. QED
  BY <1>6, <1>7, <1>8 DEF CacheInv

LEMMA WorkingKeepsCache ==
    ASSUME CacheInv, NEW q \in Quoters, routeWorks(q)
    PROVE  CacheInv'
<1> DEFINE e == entry[q]
           i == tries[q]
           worked == allRoutes[q][i]
           corrected == [routes[e] EXCEPT ![i] = worked]
           moved == Reordered(corrected, i)
<1>1. /\ e \in 1 .. fetches /\ e \in Entries /\ i \in 1 .. Len(allRoutes[q])
      /\ allRoutes[q] \in Seq(Known) /\ routes[e] \in Seq(Known)
      /\ Len(allRoutes[q]) = Len(routes[e]) /\ Len(routes[e]) \in Nat
  <2>1. /\ e \in 1 .. fetches /\ i \in Nat \ {0} /\ i <= Len(allRoutes[q])
        /\ allRoutes[q] \in Seq(Known) /\ Len(allRoutes[q]) = Len(routes[e])
    BY DEF routeWorks, CacheInv, TryInv
  <2>2. e \in Entries /\ routes[e] \in Seq(Known)
    BY <2>1, RouteCacheAssumption DEF CacheInv, EntryInv, Entries
  <2>3. Len(routes[e]) \in Nat
    BY <2>2, LenProperties
  <2>4. QED
    BY <2>1, <2>2, <2>3
<1>2. worked \in Known
  BY <1>1, ElementOfSeq
<1>3. /\ routes' = IF i = 1 THEN routes ELSE [routes EXCEPT ![e] = moved]
      /\ lastWorked' = [lastWorked EXCEPT ![e] = worked]
      /\ overlapped' = IF routes[e] = allRoutes[q] THEN overlapped ELSE overlapped \union {e}
      /\ ends(q) /\ UNCHANGED <<cached, valid, fetches>>
  BY DEF routeWorks, cacheVars
<1>4. /\ corrected \in Seq(Known) /\ Len(corrected) = Len(routes[e]) /\ corrected[i] = worked
      /\ routes[e] = allRoutes[q] => corrected = routes[e]
  <2>1. /\ corrected \in Seq(Known) /\ Len(corrected) = Len(routes[e])
        /\ \A j \in 1 .. Len(routes[e]) : corrected[j] = IF j = i THEN worked ELSE routes[e][j]
    BY <1>1, <1>2, ExceptSeq
  <2>2. corrected[i] = worked
    BY <1>1, <2>1
  <2>3. ASSUME routes[e] = allRoutes[q]
        PROVE  corrected = routes[e]
    <3>1. \A j \in 1 .. Len(routes[e]) : corrected[j] = routes[e][j]
      BY <2>1, <2>3
    <3>2. QED
      BY <1>1, <2>1, <3>1, SeqEqual
  <2>4. QED
    BY <2>1, <2>2, <2>3
<1> HIDE DEF corrected, worked
<1>5. ASSUME i # 1
      PROVE  /\ moved \in Seq(Known) /\ Len(moved) = Len(routes[e]) /\ moved[1] = worked
             /\ ToSet(moved) = ToSet(corrected)
  <2>1. i \in 2 .. Len(corrected)
    BY <1>1, <1>4, <1>5
  <2>2. QED
    BY <1>4, <2>1, ReorderingKeepsRoutes
<1> HIDE DEF moved, e, i
<1>6. /\ routes' \in [Entries -> Seq(Known)] /\ lastWorked' \in [Entries -> Known \union {0}]
      /\ Len(routes'[e]) = Len(routes[e]) /\ lastWorked'[e] = worked
      /\ \A d \in Entries : d # e => routes'[d] = routes[d] /\ lastWorked'[d] = lastWorked[d]
  BY <1>1, <1>2, <1>3, <1>5 DEF CacheInv, EntryInv
<1>7. \A d \in 1 .. fetches : Len(routes'[d]) = Len(routes[d]) /\ d \in Entries
  BY <1>6, RouteCacheAssumption DEF CacheInv, EntryInv, Entries
<1>8. EntryInv'
  <2>1. \A d \in 1 .. fetches : routes'[d] # <<>>
    BY <1>6, <1>7, EmptySeq DEF CacheInv, EntryInv
  <2>2. QED
    BY <1>3, <1>6, <2>1 DEF CacheInv, EntryInv
<1>9. TryInv'
  BY <1>3, <1>7, EndingKeepsTries
<1>10. RoutesKept'
  <2>1. ASSUME NEW d \in 1 .. fetches' \ overlapped'
        PROVE  /\ routes'[d][1] = lastWorked'[d]
               /\ ToSet(routes'[d]) = ToSet(BestRoutes(Len(routes'[d])))
    <3>1. d \in 1 .. fetches \ overlapped /\ d \in Entries
      BY <1>3, <1>7
    <3>2. CASE d # e
      BY <1>6, <3>1, <3>2 DEF CacheInv, RoutesKept
    <3>3. CASE d = e
      <4>1. routes[e] = allRoutes[q]
        BY <1>3, <3>3
      <4>2. ToSet(routes[e]) = ToSet(BestRoutes(Len(routes[e])))
        BY <3>1, <3>3 DEF CacheInv, RoutesKept
      <4>3. CASE i = 1
        BY <1>3, <1>4, <1>6, <3>3, <4>1, <4>2, <4>3
      <4>4. CASE i # 1
        <5>1. routes'[e] = moved
          BY <1>1, <1>3, <4>4 DEF CacheInv, EntryInv
        <5>2. QED
          BY <1>4, <1>5, <1>6, <3>3, <4>1, <4>2, <4>4, <5>1
      <4>5. QED
        BY <4>3, <4>4
    <3>4. QED
      BY <3>2, <3>3
  <2>2. QED
    BY <2>1 DEF RoutesKept, BestRoutes
<1>11. QED
  BY <1>8, <1>9, <1>10 DEF CacheInv

\* The steps that change no entry.
LEMMA OtherStepsKeepCache ==
    ASSUME CacheInv, expire \/ \E q \in Quoters : fetchFails(q) \/ routeFails(q)
    PROVE  CacheInv'
<1>1. CASE expire
  <2>1. EntryInv' /\ RoutesKept'
    BY <1>1, SameEntries DEF expire, CacheInv, EntryInv
  <2>2. TryInv'
    BY <1>1 DEF expire, CacheInv, TryInv, quoteVars, entryVars
  <2>3. QED
    BY <2>1, <2>2 DEF CacheInv
<1>2. ASSUME NEW q \in Quoters, fetchFails(q)
      PROVE  CacheInv'
  <2>1. EntryInv' /\ RoutesKept'
    BY <1>2, SameEntries DEF fetchFails, CacheInv, EntryInv, NoWay, NoEntry
  <2>2. TryInv'
    BY <1>2, EndingKeepsTries DEF fetchFails, entryVars
  <2>3. QED
    BY <2>1, <2>2 DEF CacheInv
<1>3. ASSUME NEW q \in Quoters, routeFails(q)
      PROVE  CacheInv'
  <2>1. EntryInv' /\ RoutesKept'
    BY <1>3, SameEntries DEF routeFails, CacheInv, EntryInv, cacheVars
  <2>2. CASE /\ tries' = [tries EXCEPT ![q] = @ + 1]
             /\ UNCHANGED <<quoteStage, amountIn, entry, allRoutes>>
    <3>1. TryInv'
      BY <1>3, <2>2 DEF routeFails, CacheInv, TryInv, entryVars
    <3>2. QED
      BY <2>1, <3>1 DEF CacheInv
  <2>3. CASE ends(q)
    <3>1. TryInv'
      BY <1>3, <2>3, EndingKeepsTries DEF routeFails, entryVars
    <3>2. QED
      BY <2>1, <3>1 DEF CacheInv
  <2>4. QED
    BY <1>3, <2>2, <2>3 DEF routeFails
<1>4. QED
  BY <1>1, <1>2, <1>3

LEMMA CacheInvariant == RouteSpec => []CacheInv
<1>1. ASSUME CacheInv, [RouteNext]_routeVars
      PROVE  CacheInv'
  <2>1. CASE UNCHANGED routeVars
    BY <1>1, <2>1 DEF routeVars, cacheVars, entryVars, quoteVars, CacheInv, EntryInv, TryInv,
                      RoutesKept, BestRoutes
  <2>2. QED
    BY <1>1, <2>1, AskingKeepsCache, FetchingKeepsCache, WorkingKeepsCache,
       OtherStepsKeepCache DEF RouteNext
<1>2. QED
  BY <1>1, CacheInvInit, PTL DEF RouteSpec

\* Whatever the API knows and however many quotes expire, fail and fall back,
\* an entry keeps the routes that were fetched for it, the one that worked last
\* first, as long as quotes do not overlap in it (tryQuote, findBestRoute).
THEOREM EntriesKeepTheirRoutes == RouteSpec => []RoutesKept
<1>1. CacheInv => RoutesKept
  BY DEF CacheInv
<1>2. QED
  BY <1>1, CacheInvariant, PTL
-----------------------------------------------------------------------------
\* The other fields of an entry and of a quote: a quote that tries no routes
\* has none.
FieldsInv ==
    /\ exactAmountIn \in [Entries -> Amounts \union {0}]
    /\ amountIn \in [Quoters -> Amounts \union {0}]
    /\ entry \in [Quoters -> {NoEntry} \union Entries]
    /\ \A q \in Quoters : /\ allRoutes[q] \in Seq(Known)
                          /\ tries[q] \in 0 .. Len(allRoutes[q]) + 1
    /\ overlapped \subseteq Entries

LEMMA EndingKeepsFields ==
    ASSUME FieldsInv, TryInv, NEW q \in Quoters, ends(q),
           exactAmountIn' = exactAmountIn, overlapped' \subseteq Entries
    PROVE  FieldsInv'
<1>1. <<>> \in Seq(Known) /\ Len(<<>>) = 0
  BY EmptySeq
<1>2. ASSUME NEW p \in Quoters
      PROVE  allRoutes'[p] \in Seq(Known) /\ tries'[p] \in 0 .. Len(allRoutes'[p]) + 1
  <2>1. CASE p = q
    <3>1. allRoutes'[p] = <<>> /\ tries'[p] = 0
      BY <2>1 DEF ends, TryInv
    <3>2. QED
      BY <1>1, <3>1
  <2>2. CASE p # q
    BY <2>2 DEF ends, TryInv, FieldsInv
  <2>3. QED
    BY <2>1, <2>2
<1>3. QED
  BY <1>2 DEF FieldsInv, ends

LEMMA GoingOnKeepsFields ==
    ASSUME FieldsInv, TryInv, NEW q \in Quoters, NEW e \in Entries, NEW rs \in Seq(Known),
           goesOn(q, e, rs)
    PROVE  /\ entry' \in [Quoters -> {NoEntry} \union Entries]
           /\ \A p \in Quoters : /\ allRoutes'[p] \in Seq(Known)
                                 /\ tries'[p] \in 0 .. Len(allRoutes'[p]) + 1
<1>1. entry' \in [Quoters -> {NoEntry} \union Entries]
  BY DEF goesOn, FieldsInv
<1>2. ASSUME NEW p \in Quoters
      PROVE  allRoutes'[p] \in Seq(Known) /\ tries'[p] \in 0 .. Len(allRoutes'[p]) + 1
  <2>1. CASE p = q
    <3>1. allRoutes'[p] = rs /\ tries'[p] = 1
      BY <2>1 DEF goesOn, TryInv
    <3>2. Len(rs) \in Nat
      BY LenProperties
    <3>3. QED
      BY <3>1, <3>2
  <2>2. CASE p # q
    BY <2>2 DEF goesOn, TryInv, FieldsInv
  <2>3. QED
    BY <2>1, <2>2
<1>3. QED
  BY <1>1, <1>2

LEMMA FieldsKept ==
    ASSUME CacheInv, FieldsInv, [RouteNext]_routeVars
    PROVE  FieldsInv'
<1> USE DEF CacheInv
<1>1. ASSUME NEW q \in Quoters, NEW amount \in Amounts, tryQuote(q, amount)
      PROVE  FieldsInv'
  <2>1. amountIn' \in [Quoters -> Amounts \union {0}] /\ UNCHANGED entryVars
    BY <1>1 DEF tryQuote, FieldsInv
  <2>2. CASE valid /\ goesOn(q, cached, routes[cached])
    <3>1. cached \in Entries /\ routes[cached] \in Seq(Known)
      BY <1>1, <2>2, RouteCacheAssumption DEF tryQuote, EntryInv, NoEntry, NoWay, Entries
    <3>2. QED
      BY <2>1, <2>2, <3>1, GoingOnKeepsFields DEF FieldsInv, entryVars
  <2>3. CASE UNCHANGED <<entry, allRoutes, tries>>
    BY <2>1, <2>3 DEF FieldsInv, entryVars
  <2>4. QED
    BY <1>1, <2>2, <2>3 DEF tryQuote
<1>2. ASSUME NEW q \in Quoters, NEW n \in DOMAIN sortedRoutes, fetchSortedRoutes(q, n)
      PROVE  FieldsInv'
  <2> DEFINE e == fetches + 1
             rs == BestRoutes(n)
  <2>1. e \in Entries /\ rs \in Seq(Known)
    BY <1>2, BestRoutesAreKnown, RouteCacheAssumption DEF fetchSortedRoutes, EntryInv, Entries
  <2>2. /\ exactAmountIn' = [exactAmountIn EXCEPT ![e] = amountIn[q]]
        /\ goesOn(q, e, rs) /\ amountIn' = amountIn /\ overlapped' = overlapped
    BY <1>2 DEF fetchSortedRoutes
  <2> HIDE DEF e, rs
  <2>3. QED
    BY <2>1, <2>2, GoingOnKeepsFields DEF FieldsInv
<1>3. ASSUME NEW q \in Quoters, fetchFails(q)
      PROVE  FieldsInv'
  BY <1>3, EndingKeepsFields DEF fetchFails, entryVars, FieldsInv
<1>4. ASSUME NEW q \in Quoters, routeWorks(q)
      PROVE  FieldsInv'
  <2>1. entry[q] \in Entries
    BY <1>4, RouteCacheAssumption DEF routeWorks, EntryInv, TryInv, Entries
  <2>2. overlapped' \subseteq Entries /\ exactAmountIn' = exactAmountIn /\ ends(q)
    BY <1>4, <2>1 DEF routeWorks, FieldsInv
  <2>3. QED
    BY <2>2, EndingKeepsFields
<1>5. ASSUME NEW q \in Quoters, routeFails(q)
      PROVE  FieldsInv'
  <2>1. CASE ends(q)
    BY <1>5, <2>1, EndingKeepsFields DEF routeFails, entryVars, FieldsInv
  <2>2. CASE /\ tries[q] <= Len(allRoutes[q])
             /\ tries' = [tries EXCEPT ![q] = @ + 1]
             /\ UNCHANGED <<quoteStage, amountIn, entry, allRoutes>>
    <3>1. Len(allRoutes[q]) \in Nat
      BY LenProperties DEF FieldsInv
    <3>2. tries'[q] = tries[q] + 1 /\ tries[q] + 1 \in 0 .. Len(allRoutes[q]) + 1
      BY <2>2, <3>1 DEF FieldsInv, TryInv
    <3>3. \A p \in Quoters \ {q} : tries'[p] = tries[p]
      BY <2>2 DEF TryInv
    <3>4. QED
      BY <1>5, <2>2, <3>2, <3>3 DEF routeFails, entryVars, FieldsInv
  <2>3. QED
    BY <1>5, <2>1, <2>2 DEF routeFails
<1>6. CASE expire \/ UNCHANGED routeVars
  BY <1>6 DEF expire, routeVars, entryVars, quoteVars, FieldsInv
<1>7. QED
  BY <1>1, <1>2, <1>3, <1>4, <1>5, <1>6 DEF RouteNext

\* The types of RouteCache.
LEMMA RouteTypes == RouteSpec => []RouteTypeOK
<1>1. RouteInit => FieldsInv
  <2> SUFFICES ASSUME RouteInit PROVE FieldsInv
    OBVIOUS
  <2>1. \A q \in Quoters : allRoutes[q] = <<>> /\ tries[q] = 0
    BY DEF RouteInit
  <2>2. <<>> \in Seq(Known) /\ Len(<<>>) = 0
    BY EmptySeq
  <2>3. \A q \in Quoters : /\ allRoutes[q] \in Seq(Known)
                           /\ tries[q] \in 0 .. Len(allRoutes[q]) + 1
    <3> SUFFICES ASSUME NEW q \in Quoters
                 PROVE  /\ allRoutes[q] \in Seq(Known)
                        /\ tries[q] \in 0 .. Len(allRoutes[q]) + 1
      OBVIOUS
    <3>1. allRoutes[q] = <<>> /\ tries[q] = 0
      BY <2>1
    <3>2. Len(allRoutes[q]) = 0 /\ allRoutes[q] \in Seq(Known)
      BY <2>2, <3>1
    <3>3. QED
      BY <3>1, <3>2
  <2>4. QED
    BY <2>3 DEF RouteInit, FieldsInv
<1>2. CacheInv /\ FieldsInv => RouteTypeOK
  <2> SUFFICES ASSUME CacheInv, FieldsInv PROVE RouteTypeOK
    OBVIOUS
  <2>1. \A e \in Entries : ToSet(routes[e]) \subseteq Known
    <3> SUFFICES ASSUME NEW e \in Entries PROVE ToSet(routes[e]) \subseteq Known
      OBVIOUS
    <3>1. routes[e] \in Seq(Known)
      BY DEF CacheInv, EntryInv
    <3>2. QED
      BY <3>1, ElementOfSeq, LenProperties DEF ToSet
  <2>2. cached \in {NoEntry, NoWay} \union Entries
    BY RouteCacheAssumption DEF CacheInv, EntryInv, Entries
  <2>3. QED
    BY <2>1, <2>2 DEF CacheInv, EntryInv, TryInv, FieldsInv, RouteTypeOK, Known
<1>3. QED
  BY <1>1, <1>2, FieldsKept, CacheInvariant, PTL DEF RouteSpec
-----------------------------------------------------------------------------
(***************************************************************************)
(* TradeSize.                                                              *)
(***************************************************************************)

\* What holds of 0 and is handed on holds of every number.
LEMMA CountsUp ==
    ASSUME NEW S, 0 \in S, \A n \in Nat : n \in S => n + 1 \in S
    PROVE  Nat \subseteq S
<1> SUFFICES ASSUME Nat \ S # {} PROVE FALSE
  OBVIOUS
<1>1. PICK n \in Nat \ S : \A m \in Nat \ S : ~ (<<m, n>> \in OpToRel(<, Nat))
  BY NatLessThanWellFounded, WFMin
<1>2. n # 0 /\ n - 1 \in Nat /\ n - 1 + 1 = n
  OBVIOUS
<1>3. n - 1 \notin S
  BY <1>2
<1>4. <<n - 1, n>> \in OpToRel(<, Nat)
  BY <1>2 DEF OpToRel
<1>5. QED
  BY <1>1, <1>2, <1>3, <1>4

\* The powers up to that of n.
Doubles(g, n) == g = [m \in 0 .. n |-> IF m = 0 THEN 1 ELSE 2 * g[m - 1]]

LEMMA DoublesExist == \A n \in Nat : \E g : Doubles(g, n)
<1> DEFINE Good == {n \in Nat : \E g : Doubles(g, n)}
<1>1. 0 \in Good
  <2> DEFINE g == [m \in 0 .. 0 |-> 1]
  <2>1. Doubles(g, 0)
    BY DEF Doubles
  <2>2. QED
    BY <2>1
<1>2. ASSUME NEW n \in Nat, n \in Good PROVE n + 1 \in Good
  <2>1. PICK g : Doubles(g, n)
    BY <1>2
  <2> DEFINE power(f, m) == IF m = 0 THEN 1 ELSE 2 * f[m - 1]
             h == [m \in 0 .. n + 1 |-> power(g, m)]
  <2>2. \A m \in 0 .. n + 1 : power(g, m) = power(h, m)
    <3> SUFFICES ASSUME NEW m \in 0 .. n + 1, m # 0 PROVE g[m - 1] = h[m - 1]
      OBVIOUS
    <3>1. m - 1 \in 0 .. n /\ m - 1 \in 0 .. n + 1
      OBVIOUS
    <3>2. g[m - 1] = power(g, m - 1)
      BY <2>1, <3>1 DEF Doubles
    <3>3. QED
      BY <3>1, <3>2
  <2>3. Doubles(h, n + 1)
    BY <2>2 DEF Doubles
  <2>4. QED
    BY <2>3
<1>3. Nat \subseteq Good
  <2> HIDE DEF Good
  <2>1. QED
    BY <1>1, <1>2, CountsUp
<1>4. QED
  BY <1>3

\* twoTo is what its definition says.
LEMMA TwoToDoubles ==
    /\ twoTo[0] = 1
    /\ \A n \in Nat : twoTo[n] \in Nat \ {0} /\ twoTo[n + 1] = 2 * twoTo[n]
<1> DEFINE G(n) == CHOOSE g : Doubles(g, n)
           Good == {m \in Nat : \A n, k \in Nat : m <= n /\ m <= k => G(n)[m] = G(k)[m]}
           power(f, n) == IF n = 0 THEN 1 ELSE 2 * f[n - 1]
           f == [n \in Nat |-> G(n)[n]]
<1>1. \A n \in Nat : \A m \in 0 .. n : G(n)[m] = power(G(n), m)
  <2> SUFFICES ASSUME NEW n \in Nat, NEW m \in 0 .. n PROVE G(n)[m] = power(G(n), m)
    OBVIOUS
  <2>1. Doubles(G(n), n)
    BY DoublesExist
  <2> HIDE DEF G
  <2>2. QED
    BY <2>1 DEF Doubles
<1> HIDE DEF G
<1>2. 0 \in Good
  BY <1>1
<1>3. ASSUME NEW m \in Nat, m \in Good PROVE m + 1 \in Good
  <2> SUFFICES ASSUME NEW n \in Nat, NEW k \in Nat, m + 1 <= n, m + 1 <= k
               PROVE  G(n)[m + 1] = G(k)[m + 1]
    OBVIOUS
  <2>1. G(n)[m] = G(k)[m]
    BY <1>3
  <2>2. m + 1 \in 0 .. n /\ m + 1 \in 0 .. k /\ m + 1 # 0 /\ m + 1 - 1 = m
    OBVIOUS
  <2>3. G(n)[m + 1] = 2 * G(n)[m] /\ G(k)[m + 1] = 2 * G(k)[m]
    BY <1>1, <2>2
  <2>4. QED
    BY <2>1, <2>3
<1>4. Nat \subseteq Good
  <2> HIDE DEF Good
  <2>1. QED
    BY <1>2, <1>3, CountsUp
<1>5. f = [n \in Nat |-> power(f, n)]
  <2>1. \A n \in Nat : G(n)[n] = power(f, n)
    <3> SUFFICES ASSUME NEW n \in Nat, n # 0 PROVE G(n)[n] = 2 * f[n - 1]
      BY <1>1
    <3>1. n - 1 \in Nat /\ n - 1 <= n /\ n \in 0 .. n
      OBVIOUS
    <3>2. G(n)[n] = 2 * G(n)[n - 1]
      BY <1>1, <3>1
    <3>3. G(n)[n - 1] = G(n - 1)[n - 1]
      BY <1>4, <3>1
    <3>4. QED
      BY <3>1, <3>2, <3>3
  <2>2. QED
    BY <2>1
<1>6. twoTo = [n \in Nat |-> power(twoTo, n)]
  <2> DEFINE Power(g) == g = [n \in Nat |-> power(g, n)]
  <2>1. Power(f)
    BY <1>5
  <2>2. twoTo = CHOOSE g : Power(g)
    BY DEF twoTo
  <2> HIDE DEF Power, f
  <2>3. Power(twoTo)
    BY <2>1, <2>2
  <2>4. QED
    BY <2>3 DEF Power
<1>7. \A n \in Nat : twoTo[n] = power(twoTo, n)
  BY <1>6
<1>8. twoTo[0] = 1 /\ \A n \in Nat : twoTo[n + 1] = 2 * twoTo[n]
  BY <1>7
<1>9. \A n \in Nat : twoTo[n] \in Nat \ {0}
  <2> DEFINE Positive == {n \in Nat : twoTo[n] \in Nat \ {0}}
  <2>1. 0 \in Positive /\ \A n \in Nat : n \in Positive => n + 1 \in Positive
    BY <1>8
  <2> HIDE DEF Positive
  <2>2. Nat \subseteq Positive
    BY <2>1, CountsUp
  <2>3. QED
    BY <2>2 DEF Positive
<1>10. QED
  BY <1>8, <1>9

\* The step before a try, with k halvings behind it.
StepOf(k) == initAmount \div twoTo[k]

\* Each step is half of the one before, rounded down.
LEMMA StepsHalve ==
    ASSUME initAmount \in Nat, NEW k \in Nat
    PROVE  /\ StepOf(0) = initAmount
           /\ StepOf(k) \in Nat /\ StepOf(k + 1) \in Nat
           /\ 2 * StepOf(k + 1) <= StepOf(k) /\ StepOf(k) <= 2 * StepOf(k + 1) + 1
<1>1. \A h \in Nat, p \in Nat \ {0} :
        /\ h \div 1 = h /\ h \div p \in Nat /\ h \div (2 * p) \in Nat
        /\ 2 * (h \div (2 * p)) <= h \div p /\ h \div p <= 2 * (h \div (2 * p)) + 1
  OBVIOUS
<1>2. twoTo[0] = 1 /\ twoTo[k] \in Nat \ {0} /\ twoTo[k + 1] = 2 * twoTo[k]
  BY TwoToDoubles
<1>3. QED
  BY <1>1, <1>2 DEF StepOf

\* The largest amount known to be worth it, in units.
largestKnown == IF size = NoSize THEN 0 ELSE size \div scale

\* The next try is above the amount known by the step before it, at least.
AboveInv == SizeTypeOK /\ initAmount \in Nat /\ maximumInput >= largestKnown + StepOf(halving - 1)

\* The search works in the units that its caller gives and reads: always for an
\* order, and for a price if the token has 18 decimals.
InUnits == caller = "order" \/ scale = 1

\* If the largest amount that is worth it is below the full amount, and half
\* of it is worth it: it is between the tries, within rounding.
BracketInv ==
    InUnits /\ 2 * least <= most /\ most < fullAmount =>
        /\ size = NoSize => most <= 2 * maximumInput
        /\ size # NoSize => size = largestKnown * scale /\ isWorthIt(largestKnown)
        /\ maximumInput <= largestKnown + StepOf(halving - 1) + halving - 1
        /\ most <= maximumInput + StepOf(halving - 1) + halving - 1
        /\ halving > 1 => most <= largestKnown + StepOf(halving - 2) + halving - 2

\* What is searched is then a part of the full amount.
InUnitsFull == InUnits => scaleFrom18(maximumInputFixed) = fullAmount

SizeInv == AboveInv /\ InUnitsFull /\ BracketInv

\* What does not change.
LEMMA SizeConstants ==
    ASSUME tryRoute
    PROVE  /\ caller' = caller /\ scale' = scale /\ InUnits' = InUnits
           /\ least' = least /\ most' = most
           /\ initAmount' = initAmount /\ fullAmount' = fullAmount
           /\ \A k : StepOf(k)' = StepOf(k)
BY DEF tryRoute, InUnits, initAmount, fullAmount, scaleFrom18, StepOf

\* Scaled to 18 decimals and back.
LEMMA ScaledBack ==
    ASSUME scale \in Nat \ {0}, NEW x \in Nat
    PROVE  scaleTo18(x) \in Nat /\ scaleTo18(x) \div scale = x
<1>1. \A p \in Nat \ {0}, y \in Nat : y * p \in Nat /\ (y * p) \div p = y
  OBVIOUS
<1>2. QED
  BY <1>1 DEF scaleTo18

LEMMA LargestKnownType ==
    ASSUME SizeTypeOK
    PROVE  largestKnown \in Nat
<1>1. \A s \in Nat, p \in Nat \ {0} : s \div p \in Nat
  OBVIOUS
<1>2. QED
  BY <1>1, TradeSizeAssumption DEF largestKnown, SizeTypeOK

LEMMA SizeInitially == SizeInit => SizeInv
<1> SUFFICES ASSUME SizeInit PROVE SizeInv
  OBVIOUS
<1> USE TradeSizeAssumption
<1>1. scale \in Nat \ {0} /\ maximumInputFixed \in Nat
  <2>1. \A a \in Nat, p \in Nat \ {0} : a \div p \in Nat
    OBVIOUS
  <2>2. QED
    BY <2>1 DEF SizeInit, Sizes, scaleFrom18
<1>2. scaleFrom18(maximumInputFixed) \in Nat
  <2>1. \A a \in Nat, p \in Nat \ {0} : a \div p \in Nat
    OBVIOUS
  <2>2. QED
    BY <1>1, <2>1 DEF scaleFrom18
<1>3. initAmount \in Nat /\ scaleFrom18(maximumInputFixed) <= 2 * initAmount + 1
  BY <1>2 DEF initAmount
<1>4. StepOf(0) = initAmount /\ halving = 1 /\ size = NoSize /\ maximumInput = initAmount
  BY <1>3, StepsHalve DEF SizeInit
<1>5. SizeTypeOK
  BY <1>1, <1>3, <1>4 DEF SizeTypeOK, SizeInit, Sizes
<1>6. largestKnown = 0
  BY <1>4 DEF largestKnown
<1>7. AboveInv
  BY <1>3, <1>4, <1>5, <1>6 DEF AboveInv
<1>8. InUnitsFull
  <2>1. \A a \in Nat : a \div 1 = a
    OBVIOUS
  <2>2. QED
    BY <1>1, <2>1 DEF InUnitsFull, InUnits, fullAmount, scaleFrom18, SizeInit, Callers
<1>9. BracketInv
  <2>1. most \in Nat
    BY <1>5 DEF SizeTypeOK, Sizes
  <2>2. QED
    BY <2>1, <1>2, <1>3, <1>4, <1>6, <1>8 DEF BracketInv, InUnitsFull
<1>10. QED
  BY <1>7, <1>8, <1>9 DEF SizeInv

LEMMA TryKeepsSize ==
    ASSUME SizeInv, tryRoute
    PROVE  SizeInv'
<1> USE TradeSizeAssumption
<1> DEFINE i == halving
           x == maximumInput
           lo == largestKnown
           a == StepOf(i - 1)
           b == StepOf(i)
           lost == InUnits /\ 2 * least <= most /\ most < fullAmount
<1>1. /\ SizeTypeOK /\ initAmount \in Nat /\ x >= lo + a /\ BracketInv
      /\ i \in 1 .. Steps /\ i' = i + 1 /\ i - 1 \in Nat /\ i - 1 + 1 = i
  BY DEF SizeInv, AboveInv, tryRoute, SizeTypeOK
<1>2. scale \in Nat \ {0} /\ most \in Nat /\ least \in Nat /\ x \in Nat
  BY <1>1 DEF SizeTypeOK, Sizes
<1>3. a \in Nat /\ b \in Nat /\ 2 * b <= a /\ a <= 2 * b + 1
  BY <1>1, StepsHalve
<1>4. lo \in Nat
  BY <1>1, LargestKnownType
<1>5. step = b
  BY DEF step, StepOf
<1>6. /\ StepOf(halving - 1)' = b /\ StepOf(halving - 2)' = a
      /\ initAmount' = initAmount /\ lost' = lost
  <2>1. halving' - 1 = i /\ halving' - 2 = i - 1 /\ initAmount' = initAmount
    BY <1>1, SizeConstants
  <2>2. lost' = lost
    BY SizeConstants
  <2>3. QED
    BY <2>1, <2>2 DEF StepOf
<1>7. lost =>
        /\ size = NoSize => most <= 2 * x
        /\ size # NoSize => size = lo * scale /\ isWorthIt(lo)
        /\ x <= lo + a + i - 1
        /\ most <= x + a + i - 1
  BY <1>1 DEF BracketInv
<1>8. lost => x >= least
  <2> SUFFICES ASSUME lost PROVE x >= least
    OBVIOUS
  <2>1. CASE size = NoSize
    BY <1>2, <1>7, <2>1
  <2>2. CASE size # NoSize
    BY <1>1, <1>2, <1>3, <1>4, <1>7, <2>2 DEF isWorthIt
  <2>3. QED
    BY <2>1, <2>2
<1>9. InUnitsFull'
  BY SizeConstants DEF SizeInv, InUnitsFull, tryRoute, scaleFrom18
<1>10. CASE isWorthIt(x) /\ size' = found(x) /\ x' = x + step
  <2>1. size' = x * scale /\ size' \in Nat /\ size' # NoSize /\ size' \div scale = x
    BY <1>2, <1>10, ScaledBack DEF found, scaleTo18
  <2>2. lo' = x
    BY <2>1, SizeConstants DEF largestKnown
  <2>3. x' = x + b
    BY <1>5, <1>10
  <2>4. SizeTypeOK'
    BY <1>1, <1>2, <1>3, <2>1, <2>3 DEF SizeTypeOK, tryRoute
  <2>5. AboveInv'
    BY <1>1, <1>2, <1>3, <1>6, <2>2, <2>3, <2>4 DEF AboveInv
  <2>6. isWorthIt(lo)'
    BY <1>10, <2>2, SizeConstants DEF isWorthIt
  <2>7. (size = lo * scale)'
    BY <2>1, <2>2, SizeConstants
  <2>8. lost => x' <= x + b + i /\ most <= x' + b + i /\ most <= x + a + i - 1
    BY <1>1, <1>2, <1>3, <1>7, <2>3
  <2>9. BracketInv'
    BY <1>1, <1>6, <2>1, <2>2, <2>6, <2>7, <2>8, SizeConstants DEF BracketInv
  <2>10. QED
    BY <1>9, <2>5, <2>9 DEF SizeInv
<1>11. CASE ~isWorthIt(x) /\ x' = x - step /\ size' = size
  <2>1. lo' = lo
    BY <1>11, SizeConstants DEF largestKnown
  <2>2. x' = x - b /\ x' >= lo + b
    BY <1>1, <1>2, <1>3, <1>4, <1>5, <1>11
  <2>3. SizeTypeOK'
    BY <1>1, <1>2, <1>3, <1>4, <1>11, <2>2 DEF SizeTypeOK, tryRoute
  <2>4. AboveInv'
    BY <1>1, <1>6, <2>1, <2>2, <2>3 DEF AboveInv
  <2>5. lost => x > most
    BY <1>2, <1>8, <1>11 DEF isWorthIt
  <2>6. lost => /\ size = NoSize => most <= 2 * x'
                /\ x' <= lo + b + i
                /\ most <= x' + b + i
                /\ most <= lo + a + i - 1
    <3> SUFFICES ASSUME lost PROVE /\ most <= 2 * x'
                                   /\ x' <= lo + b + i
                                   /\ most <= x' + b + i
                                   /\ most <= lo + a + i - 1
      OBVIOUS
    <3>1. x > most /\ x <= lo + a + i - 1
      BY <1>7, <2>5
    <3> HIDE DEF lost, i, x, a, b, lo
    <3>2. QED
      BY <1>1, <1>2, <1>3, <1>4, <2>2, <3>1
  <2>7. BracketInv'
    BY <1>1, <1>6, <1>7, <1>11, <2>1, <2>6, SizeConstants DEF BracketInv, isWorthIt
  <2>8. QED
    BY <1>9, <2>4, <2>7 DEF SizeInv
<1>12. QED
  BY <1>10, <1>11 DEF tryRoute

LEMMA SizeInvInductive == SizeSpec => []SizeInv
<1>1. SizeInv /\ UNCHANGED sizeVars => SizeInv'
  BY DEF SizeInv, AboveInv, InUnitsFull, BracketInv, SizeTypeOK, InUnits, largestKnown, StepOf,
         initAmount, fullAmount, scaleFrom18, isWorthIt, sizeVars
<1>2. SizeInv /\ [SizeNext]_sizeVars => SizeInv'
  BY <1>1, TryKeepsSize DEF SizeNext
<1>3. QED
  BY <1>2, SizeInitially, PTL DEF SizeSpec

LEMMA LargestInUnits == SizeSpec => [](InUnits => Largest)
<1>1. SizeInv => (InUnits => Largest)
  <2> SUFFICES ASSUME SizeInv, InUnits, Searched, 2 * least <= most, most < fullAmount
               PROVE  IF size = NoSize THEN most <= Lost(fullAmount)
                      ELSE isWorthIt(amountAsked) /\ most <= amountAsked + Lost(fullAmount)
    BY DEF Largest
  <2>1. halving = Steps + 1 /\ halving > 1 /\ halving - 2 = Steps - 1 /\ most \in Nat
    BY TradeSizeAssumption DEF SizeInv, AboveInv, SizeTypeOK, Searched, Sizes
  <2>2. StepOf(Steps - 1) + Steps - 1 = Lost(fullAmount)
    <3>1. scaleFrom18(maximumInputFixed) = fullAmount
      BY DEF SizeInv, InUnitsFull
    <3>2. QED
      BY <3>1 DEF Lost, StepOf, initAmount
  <2>3. /\ most <= largestKnown + StepOf(Steps - 1) + Steps - 1
        /\ size # NoSize => size = largestKnown * scale /\ isWorthIt(largestKnown)
    BY <2>1 DEF SizeInv, BracketInv
  <2>4. largestKnown \in Nat /\ StepOf(Steps - 1) \in Nat /\ Steps \in Nat
    BY TradeSizeAssumption, StepsHalve, LargestKnownType DEF SizeInv, AboveInv
  <2>5. size # NoSize => amountAsked = largestKnown
    <3>1. CASE caller = "order"
      BY <3>1 DEF amountAsked, largestKnown, scaleFrom18
    <3>2. CASE scale = 1 /\ caller # "order"
      BY <2>3, <2>4, <3>2 DEF amountAsked
    <3>3. QED
      BY <3>1, <3>2 DEF InUnits
  <2>6. most <= largestKnown + Lost(fullAmount)
    BY <2>1, <2>2, <2>3, <2>4
  <2>7. size = NoSize => largestKnown = 0
    BY DEF largestKnown
  <2>8. Lost(fullAmount) \in Nat
    BY <2>1, <2>2, <2>4
  <2> HIDE DEF largestKnown
  <2>9. QED
    BY <2>3, <2>5, <2>6, <2>7, <2>8
<1>2. QED
  BY <1>1, SizeInvInductive, PTL

\* Whatever the pools hold, the search for an order ends with the largest part
\* of it that can be cleared, within the step before its last try and a unit
\* for each halving (findLargestTradeSize, findBestRouterTrade).
THEOREM SearchFindsTheLargest == SizeSpec => []LargestIsFound
<1>1. (InUnits => Largest) => LargestIsFound
  BY DEF LargestIsFound, InUnits
<1>2. QED
  BY <1>1, LargestInUnits, PTL

\* So does the search for the price of a token of 18 decimals (getMarketPrice):
\* that it does not for others comes from the units alone.
THEOREM PriceOf18Decimals == SizeSpec => [](scale = 1 => LargestIsPriced)
<1>1. (InUnits => Largest) => (scale = 1 => LargestIsPriced)
  BY DEF LargestIsPriced, InUnits
<1>2. QED
  BY <1>1, LargestInUnits, PTL
-----------------------------------------------------------------------------
(***************************************************************************)
(* The three side by side.                                                 *)
(***************************************************************************)

\* A behaviour of the three is one of each.
LEMMA SideBySide == MCSpec => Spec /\ SizeSpec /\ RouteSpec
<1>1. MCInit => Init /\ SizeInit /\ RouteInit
  BY DEF MCInit
<1>2. [MCNext]_mcVars => [Next]_vars /\ [SizeNext]_sizeVars /\ [RouteNext]_routeVars
  BY DEF MCNext, mcVars, runSearch, runSize, runRoutes
<1>3. QED
  BY <1>1, <1>2, PTL DEF MCSpec, Spec, SizeSpec, RouteSpec

\* Each variable keeps to its type, whatever the parameters are.
THEOREM TradeTypesCorrect == MCSpec => []TypesOK
<1>1. SearchInv => TypeOK
  BY DEF SearchInv
<1>2. Spec => []TypeOK
  BY <1>1, SearchInvInductive, PTL DEF Spec
<1>3. SizeInv => SizeTypeOK
  BY DEF SizeInv, AboveInv
<1>4. SizeSpec => []SizeTypeOK
  BY <1>3, SizeInvInductive, PTL
<1>5. TypeOK /\ SizeTypeOK /\ RouteTypeOK => TypesOK
  BY DEF TypesOK
<1>6. QED
  BY <1>2, <1>4, <1>5, SideBySide, RouteTypes, PTL
=============================================================================
