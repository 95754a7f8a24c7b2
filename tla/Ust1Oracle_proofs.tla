-------------------------- MODULE Ust1Oracle_proofs --------------------------
(* What ust1-oracle guarantees for every value of the constants, proved from *)
(* the inductive invariant OracleTypeOK /\ PriceInv.                         *)
EXTENDS Ust1Oracle, Ust1Common_lemmas

(* The strengthening: the stored baseline and rate always satisfy the cap of *)
(* the day the baseline was stored on, whatever the day is now.              *)
PriceInv ==
  /\ baseline <= rate
  /\ \/ rate = baseline
     \/ DailyCapFits(baseline) /\ rate <= MaxRateAfterDailyCap(baseline)

(* A block time has a UTC day. *)
LEMMA UtcDayIsNat ==
  ASSUME NEW t \in Nat
  PROVE  UtcDay(t) \in Nat
<1>1. 0 \div Day <= t \div Day /\ t \div Day \in Int
  BY DivMonotone, DivFloor, CommonAssumption
<1>2. 0 <= 0 \div Day
  BY DivLower, CommonAssumption
<1>3. 0 \div Day \in Int
  BY DivFloor, CommonAssumption
<1>4. QED
  BY <1>1, <1>2, <1>3 DEF UtcDay

(* The initial states satisfy both parts. *)
LEMMA OracleInitInv == OracleInit => OracleTypeOK /\ PriceInv
<1>1. SUFFICES ASSUME OracleInit PROVE OracleTypeOK /\ PriceInv
  OBVIOUS
<1>2. clock \in Nat \ {0} /\ rate \in 1..MaxU128
  BY <1>1, OracleAssumption, CommonAssumption DEF OracleInit
<1>3. UtcDay(clock) \in Nat
  BY <1>2, UtcDayIsNat
<1>4. OracleTypeOK
  <2>1. last_update \in 0..clock /\ utc_day \in Nat /\ baseline \in 1..MaxU128
    BY <1>1, <1>2, <1>3 DEF OracleInit
  <2>2. oracle_paused \in BOOLEAN /\ oracle_operator \in Addr /\ OracleGov!TypeOK
    BY <1>1, Zenon DEF OracleInit, OracleGov!Init, OracleGov!TypeOK
  <2>3. QED
    BY <1>2, <2>1, <2>2 DEF OracleTypeOK
<1>5. PriceInv
  BY <1>1, <1>2 DEF OracleInit, PriceInv
<1>6. QED
  BY <1>4, <1>5

(* An accepted update keeps them: it is checked against the rolled baseline, *)
(* which is the baseline it then stores.                                     *)
LEMMA UpdateRateInv ==
  ASSUME OracleTypeOK, PriceInv, NEW sender, NEW new \in Rates, UpdateRate(sender, new)
  PROVE  OracleTypeOK' /\ PriceInv'
<1> DEFINE b == RolledBaseline(clock, utc_day, baseline, rate)
<1>1. new \in 1..MaxU128 /\ new >= rate
  BY OracleAssumption, CommonAssumption DEF UpdateRate, CheckRateUpdate, OracleTypeOK
<1>2. b \in 1..MaxU128 /\ b <= rate
  BY DEF RolledBaseline, OracleTypeOK, PriceInv
<1>3. UtcDay(clock) \in Nat
  BY UtcDayIsNat DEF OracleTypeOK
<1>4. /\ rate' = new
      /\ last_update' = clock
      /\ utc_day' = UtcDay(clock)
      /\ baseline' = IF last_update = 0 THEN new ELSE b
      /\ UNCHANGED <<clock, oracle_paused, oracle_operator, oracle_governance, oracle_pending>>
  BY DEF UpdateRate, StoreRate, BaselineAfterUpdate, oracle_gov_vars
<1>5. OracleTypeOK'
  BY <1>1, <1>2, <1>3, <1>4 DEF OracleTypeOK, OracleGov!TypeOK
<1>6. PriceInv'
  <2>1. CASE last_update = 0
    BY <1>1, <1>4, <2>1 DEF PriceInv
  <2>2. CASE last_update # 0
    <3>1. DailyCapFits(b) /\ new <= MaxRateAfterDailyCap(b)
      BY <2>2 DEF UpdateRate, CheckRateUpdate
    <3>2. baseline' = b
      BY <1>4, <2>2
    <3>3. QED
      BY <1>1, <1>2, <1>4, <3>1, <3>2 DEF PriceInv, OracleTypeOK
  <2>3. QED
    BY <2>1, <2>2
<1>7. QED
  BY <1>5, <1>6

(* Block time does not run backwards, and stops at MaxTime.                  *)
LEMMA OracleClock ==
  ASSUME clock \in Nat, [OracleNext]_chain_vars
  PROVE  clock' = clock \/ (clock' = clock + 1 /\ clock < MaxTime)
<1>1. ASSUME NEW sender \in Addr, OracleCall(sender)
      PROVE  clock' = clock
  <2>1. CASE \E new \in Rates : UpdateRate(sender, new)
    BY <2>1 DEF UpdateRate
  <2>2. CASE \E addr \in Addr : SetOracleOperator(sender, addr)
    BY <2>2 DEF SetOracleOperator
  <2>3. CASE \E paused \in BOOLEAN : SetOraclePaused(sender, paused)
    BY <2>3 DEF SetOraclePaused
  <2>4. CASE \E addr \in Addr : OracleProposeGovernance(sender, addr)
    BY <2>4 DEF OracleProposeGovernance
  <2>5. CASE OracleAcceptGovernance(sender)
    BY <2>5 DEF OracleAcceptGovernance
  <2>6. QED
    BY <1>1, <2>1, <2>2, <2>3, <2>4, <2>5 DEF OracleCall
<1>2. CASE Tick
  BY <1>2 DEF Tick
<1>3. CASE UNCHANGED chain_vars
  BY <1>3 DEF chain_vars, oracle_vars, price_vars, oracle_gov_vars
<1>4. (\E sender \in Addr : OracleCall(sender)) \/ Tick \/ UNCHANGED chain_vars
  BY DEF OracleNext
<1>5. QED
  BY <1>1, <1>2, <1>3, <1>4

(* So does every other step: none of them touches the stored price. *)
LEMMA OracleNextInv ==
  ASSUME OracleTypeOK, PriceInv, [OracleNext]_chain_vars
  PROVE  OracleTypeOK' /\ PriceInv'
<1> USE DEF price_vars, oracle_gov_vars, oracle_vars
<1>1. CASE Tick
  BY <1>1 DEF Tick, OracleTypeOK, OracleGov!TypeOK, PriceInv
<1>2. CASE UNCHANGED chain_vars
  BY <1>2 DEF chain_vars, OracleTypeOK, OracleGov!TypeOK, PriceInv
<1>3. ASSUME NEW sender \in Addr, OracleCall(sender)
      PROVE  OracleTypeOK' /\ PriceInv'
  <2>1. ASSUME NEW new \in Rates, UpdateRate(sender, new)
        PROVE  OracleTypeOK' /\ PriceInv'
    BY <2>1, UpdateRateInv
  <2>2. ASSUME NEW addr \in Addr, SetOracleOperator(sender, addr)
        PROVE  OracleTypeOK' /\ PriceInv'
    BY <2>2 DEF SetOracleOperator, OracleTypeOK, OracleGov!TypeOK, PriceInv
  <2>3. ASSUME NEW paused \in BOOLEAN, SetOraclePaused(sender, paused)
        PROVE  OracleTypeOK' /\ PriceInv'
    BY <2>3 DEF SetOraclePaused, OracleTypeOK, OracleGov!TypeOK, PriceInv
  <2>4. ASSUME NEW addr \in Addr, OracleProposeGovernance(sender, addr)
        PROVE  OracleTypeOK' /\ PriceInv'
    BY <2>4 DEF OracleProposeGovernance, OracleGov!ProposeGovernance, OracleTypeOK, OracleGov!TypeOK, PriceInv
  <2>5. ASSUME OracleAcceptGovernance(sender)
        PROVE  OracleTypeOK' /\ PriceInv'
    BY <2>5 DEF OracleAcceptGovernance, OracleGov!AcceptGovernance, OracleTypeOK, OracleGov!TypeOK, PriceInv
  <2>6. QED
    BY <1>3, <2>1, <2>2, <2>3, <2>4, <2>5 DEF OracleCall
<1>4. QED
  BY <1>1, <1>2, <1>3 DEF OracleNext

(* The stored price and the baseline it is capped by, in every reachable     *)
(* state.                                                                    *)
THEOREM OracleInvariant == OracleSpec => [](OracleTypeOK /\ PriceInv)
<1>1. (OracleTypeOK /\ PriceInv) /\ [OracleNext]_chain_vars => (OracleTypeOK /\ PriceInv)'
  BY OracleNextInv
<1>2. QED
  BY <1>1, OracleInitInv, PTL DEF OracleSpec

(* ust1-oracle's stored fields keep their types, and no update is recorded   *)
(* in the future.                                                            *)
THEOREM OracleTypeCorrect == OracleSpec => []OracleTypeOK
<1>1. OracleTypeOK /\ PriceInv => OracleTypeOK
  OBVIOUS
<1>2. QED
  BY <1>1, OracleInvariant, PTL

(* The strengthening is what makes the stored rate acceptable as a new one.  *)
LEMMA HeartbeatFromInv ==
  ASSUME OracleTypeOK, PriceInv
  PROVE  HeartbeatAccepted
<1>1. SUFFICES ASSUME last_update > 0, ~Throttled(clock, last_update), DailyCapFits(rate)
               PROVE  CheckRateUpdate(clock, last_update, rate, rate, utc_day, baseline)
  BY DEF HeartbeatAccepted
<1> DEFINE b == RolledBaseline(clock, utc_day, baseline, rate)
<1>2. b \in Nat /\ b <= rate /\ rate \in Nat /\ rate > 0
  BY DEF RolledBaseline, OracleTypeOK, PriceInv
<1>3. DailyCapFits(b)
  BY <1>1, <1>2, CapFitsDownward
<1>4. rate <= MaxRateAfterDailyCap(b)
  BY <1>2, CapAboveBaseline DEF RolledBaseline, OracleTypeOK, PriceInv
<1>5. QED
  BY <1>1, <1>2, <1>3, <1>4 DEF CheckRateUpdate

(* The heartbeat of an open throttle is accepted: no history of raises, day  *)
(* rollovers and governance calls leaves a rate the cap itself refuses.      *)
THEOREM HeartbeatNeverRefused == OracleSpec => []HeartbeatAccepted
<1>1. OracleTypeOK /\ PriceInv => HeartbeatAccepted
  BY HeartbeatFromInv
<1>2. QED
  BY <1>1, OracleInvariant, PTL

(* The price only moves unpaused, upwards, and outside the throttle. *)
THEOREM PriceOnlyMovesForward == OracleSpec => PriceMovesForward
<1> DEFINE Forward ==
      price_vars' # price_vars =>
        /\ ~oracle_paused
        /\ rate' >= rate
        /\ last_update' = clock
        /\ last_update > 0 => clock >= last_update + MinUpdateInterval
<1>1. ASSUME OracleTypeOK, OracleNext PROVE Forward
  <2>1. SUFFICES ASSUME price_vars' # price_vars PROVE Forward
    OBVIOUS
  <2>2. PICK sender \in Addr, new \in Rates : UpdateRate(sender, new)
    BY <1>1, <2>1 DEF OracleNext, Tick, OracleCall, oracle_vars, oracle_gov_vars,
       SetOracleOperator, SetOraclePaused, OracleProposeGovernance, OracleAcceptGovernance
  <2>3. ~oracle_paused /\ rate' = new /\ last_update' = clock
    BY <2>2 DEF UpdateRate, StoreRate
  <2>4. new >= rate /\ ~Throttled(clock, last_update)
    BY <2>2 DEF UpdateRate, CheckRateUpdate
  <2>5. last_update > 0 => clock >= last_update + MinUpdateInterval
    BY <1>1, <2>4, CommonAssumption DEF Throttled, OracleTypeOK
  <2>6. QED
    BY <2>3, <2>4, <2>5
<1>2. OracleTypeOK /\ [OracleNext]_chain_vars => [Forward]_chain_vars
  BY <1>1
<1>3. QED
  BY <1>2, OracleTypeCorrect, PTL DEF OracleSpec, PriceMovesForward

=============================================================================
