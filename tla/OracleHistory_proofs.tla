------------------------ MODULE OracleHistory_proofs ------------------------
(* What the history of ust1-oracle satisfies for every value of the          *)
(* constants: the daily cap of the true day, and who proposed a transfer.    *)
EXTENDS OracleHistory, Ust1Oracle_proofs

(* The lazily rolled day never lies ahead of the clock; while it is today's  *)
(* the baseline is the rate the day began with, and when it is not the rate  *)
(* has not moved today.                                                      *)
DayInv ==
  /\ utc_day <= UtcDay(clock)
  /\ utc_day = UtcDay(clock) => baseline = day_open
  /\ utc_day # UtcDay(clock) => rate = day_open

(* Every step of the history specification is a step of the contract. *)
LEMMA HistoryStep == [HistoryNext]_<<chain_vars, history_vars>> => [OracleNext]_chain_vars
BY DEF HistoryNext, HistoryTick, HistoryUpdateRate, HistoryPropose, HistoryOther, OracleNext, OracleCall

LEMMA DayInvStep ==
  ASSUME OracleTypeOK, PriceInv, DayInv, [HistoryNext]_<<chain_vars, history_vars>>
  PROVE  DayInv'
<1>1. CASE HistoryTick
  <2>1. clock \in Nat /\ clock' = clock + 1 /\ UNCHANGED price_vars
    BY <1>1 DEF HistoryTick, Tick, oracle_vars, OracleTypeOK
  <2>2. UtcDay(clock) <= UtcDay(clock') /\ UtcDay(clock) \in Int /\ UtcDay(clock') \in Int
    BY <2>1, DivMonotone, DivFloor, CommonAssumption DEF UtcDay
  <2>3. day_open' = IF UtcDay(clock') # UtcDay(clock) THEN rate ELSE day_open
    BY <1>1 DEF HistoryTick
  <2>4. QED
    BY <2>1, <2>2, <2>3 DEF DayInv, price_vars, OracleTypeOK
<1>2. ASSUME NEW sender \in Addr, NEW new \in Rates, HistoryUpdateRate(sender, new)
      PROVE  DayInv'
  <2>1. /\ utc_day' = UtcDay(clock)
        /\ baseline' = BaselineAfterUpdate(clock, last_update, rate, new, utc_day, baseline)
        /\ clock' = clock
        /\ day_open' = IF last_update = 0 THEN new ELSE day_open
    BY <1>2 DEF HistoryUpdateRate, UpdateRate, StoreRate
  <2>2. baseline' = day_open'
    BY <2>1 DEF BaselineAfterUpdate, RolledBaseline, DayInv
  <2>3. UtcDay(clock) \in Nat
    BY UtcDayIsNat DEF OracleTypeOK
  <2>4. QED
    BY <2>1, <2>2, <2>3 DEF DayInv
<1>3. CASE UNCHANGED <<clock, price_vars, day_open>>
  BY <1>3 DEF DayInv, price_vars
<1>4. QED
  BY <1>1, <1>2, <1>3 DEF HistoryNext, HistoryPropose, HistoryOther, history_vars, chain_vars,
     oracle_vars, SetOracleOperator, SetOraclePaused, OracleProposeGovernance,
     OracleAcceptGovernance

(* Within a UTC day the rate stays within the cap of the rate the day really *)
(* began with, although the contract rolls its day lazily.                   *)
THEOREM DailyCapHolds == HistorySpec => []WithinDailyCap
<1> DEFINE Inv == OracleTypeOK /\ PriceInv /\ DayInv
<1>1. HistoryInit => Inv
  <2>1. SUFFICES ASSUME HistoryInit PROVE DayInv
    BY OracleInitInv DEF HistoryInit
  <2>2. UtcDay(clock) \in Nat
    BY <2>1, UtcDayIsNat, OracleAssumption DEF HistoryInit, OracleInit
  <2>3. QED
    BY <2>1, <2>2 DEF HistoryInit, OracleInit, DayInv
<1>2. Inv /\ [HistoryNext]_<<chain_vars, history_vars>> => Inv'
  BY HistoryStep, OracleNextInv, DayInvStep
<1>3. Inv => WithinDailyCap
  BY DEF PriceInv, DayInv, WithinDailyCap
<1>4. QED
  BY <1>1, <1>2, <1>3, PTL DEF HistorySpec

(* A pending transfer was proposed by the governor in office. *)
THEOREM ProposalsDoNotOutliveTheirGovernor == HistorySpec => []ProposalIsCurrent
<1>1. HistoryInit => ProposalIsCurrent
  BY DEF HistoryInit, OracleInit, OracleGov!Init, ProposalIsCurrent
<1>2. ProposalIsCurrent /\ [HistoryNext]_<<chain_vars, history_vars>> => ProposalIsCurrent'
  <2>1. SUFFICES ASSUME ProposalIsCurrent, [HistoryNext]_<<chain_vars, history_vars>>
                 PROVE  ProposalIsCurrent'
    OBVIOUS
  <2>2. ASSUME NEW sender \in Addr, NEW addr \in Addr, HistoryPropose(sender, addr)
        PROVE  ProposalIsCurrent'
    BY <2>2 DEF HistoryPropose, OracleProposeGovernance, OracleGov!ProposeGovernance, ProposalIsCurrent
  <2>3. ASSUME NEW sender \in Addr, OracleAcceptGovernance(sender)
        PROVE  ProposalIsCurrent'
    BY <2>3 DEF OracleAcceptGovernance, OracleGov!AcceptGovernance, ProposalIsCurrent
  <2>4. CASE UNCHANGED <<oracle_gov_vars, nominator>>
    BY <2>1, <2>4 DEF ProposalIsCurrent, oracle_gov_vars
  <2>5. QED
    BY <2>1, <2>2, <2>3, <2>4 DEF HistoryNext, HistoryTick, HistoryUpdateRate, HistoryOther,
       history_vars, chain_vars, oracle_vars, Tick, UpdateRate, SetOracleOperator, SetOraclePaused
<1>3. QED
  BY <1>1, <1>2, PTL DEF HistorySpec

(* The history variables keep their types. *)
LEMMA HistoryTypeStep ==
  ASSUME OracleTypeOK, PriceInv, HistoryTypeOK, [HistoryNext]_<<chain_vars, history_vars>>
  PROVE  HistoryTypeOK'
<1>1. OracleTypeOK'
  BY HistoryStep, OracleNextInv
<1>2. day_open' \in 1..MaxU128 /\ nominator' \in Addr \cup {NoAddr}
  <2>1. CASE HistoryTick
    BY <2>1 DEF HistoryTick, HistoryTypeOK, OracleTypeOK
  <2>2. ASSUME NEW sender \in Addr, NEW new \in Rates, HistoryUpdateRate(sender, new)
        PROVE  day_open' \in 1..MaxU128 /\ nominator' \in Addr \cup {NoAddr}
    BY <2>2, OracleAssumption, CommonAssumption
    DEF HistoryUpdateRate, UpdateRate, CheckRateUpdate, HistoryTypeOK
  <2>3. ASSUME NEW sender \in Addr, NEW addr \in Addr, HistoryPropose(sender, addr)
        PROVE  day_open' \in 1..MaxU128 /\ nominator' \in Addr \cup {NoAddr}
    BY <2>3 DEF HistoryPropose, HistoryTypeOK
  <2>4. CASE UNCHANGED history_vars
    BY <2>4 DEF history_vars, HistoryTypeOK
  <2>5. QED
    BY <2>1, <2>2, <2>3, <2>4 DEF HistoryNext, HistoryOther
<1>3. QED
  BY <1>1, <1>2 DEF HistoryTypeOK

(* The contract's fields and its history keep their types.                   *)
THEOREM HistoryTypeCorrect == HistorySpec => []HistoryTypeOK
<1> DEFINE Inv == OracleTypeOK /\ PriceInv /\ HistoryTypeOK
<1>1. HistoryInit => Inv
  BY OracleInitInv DEF HistoryInit, HistoryTypeOK, OracleTypeOK
<1>2. Inv /\ [HistoryNext]_<<chain_vars, history_vars>> => Inv'
  BY HistoryStep, OracleNextInv, HistoryTypeStep
<1>3. Inv => HistoryTypeOK
  OBVIOUS
<1>4. QED
  BY <1>1, <1>2, <1>3, PTL DEF HistorySpec
=============================================================================
