-------------------------- MODULE Ust1Window_proofs --------------------------
(* What ust1-window guarantees for every value of the constants, over every  *)
(* interleaving of swaps, oracle updates, governance and custody: first with *)
(* atomic swaps (Ust1Window) and the record of what they settled             *)
(* (WindowHistory), with what a caller gets back (ContractErrors), then      *)
(* message by message (WindowTx).                                            *)
EXTENDS WindowTx, WindowHistory, ContractErrors, Ust1Oracle_proofs

(* The inductive invariant: the oracle's own, the bounds governance cannot   *)
(* leave, and the backing of the outstanding UST1 while no one but the       *)
(* window mints it or spends from the treasury.                              *)
SolvencyInv ==
  /\ OracleTypeOK
  /\ PriceInv
  /\ fee_bps \in 0..BpsDenom
  /\ max_oracle_age \in Nat
  /\ max_oracle_age >= MinUpdateInterval
  /\ treasury_vfdusd \in Nat
  /\ ust1_supply \in Int
  /\ OpenCustody \/ Surplus >= 0

LEMMA SurplusIsInt ==
  ASSUME NEW t \in Int, NEW r \in Int, NEW s \in Int
  PROVE  t * r - s * RateScale \in Int
BY CommonAssumption

LEMMA InitSolvent == Init => SolvencyInv
<1>1. SUFFICES ASSUME Init PROVE SolvencyInv
  OBVIOUS
<1>2. OracleTypeOK /\ PriceInv
  BY <1>1, OracleInitInv DEF Init
<1>3. fee_bps \in 0..BpsDenom /\ max_oracle_age \in Nat /\ max_oracle_age >= MinUpdateInterval
  BY <1>1, WindowAssumption, CommonAssumption DEF Init, ValidMaxAge
<1>4. treasury_vfdusd \in Nat /\ ust1_supply = 0
  BY <1>1, WindowAssumption DEF Init
<1>5. Surplus >= 0
  <2>1. treasury_vfdusd * rate >= 0
    BY <1>2, <1>4, Z3 DEF OracleTypeOK
  <2>2. ust1_supply * RateScale = 0
    BY <1>4, CommonAssumption
  <2>3. treasury_vfdusd * rate \in Int
    BY <1>2, <1>4 DEF OracleTypeOK
  <2>4. QED
    BY <2>1, <2>2, <2>3 DEF Surplus
<1>6. QED
  BY <1>2, <1>3, <1>4, <1>5 DEF SolvencyInv

-----------------------------------------------------------------------------
(* What each swap does to the surplus.                                       *)
LEMMA DepositStep ==
  ASSUME SolvencyInv, NEW user \in Users, NEW amount \in Amounts, Deposit(user, amount)
  PROVE  /\ UNCHANGED <<clock, oracle_vars, config_vars>>
         /\ treasury_vfdusd' \in Nat
         /\ ust1_supply' \in Int
         /\ Surplus' >= Surplus
<1> DEFINE out == DepositVfdusdToUst1(amount, rate, fee_bps)
<1>1. /\ amount \in Nat /\ rate \in Nat /\ fee_bps \in 0..BpsDenom
      /\ treasury_vfdusd \in Nat /\ ust1_supply \in Int
  BY WindowAssumption, CommonAssumption DEF SolvencyInv, OracleTypeOK
<1>2. out \in Nat /\ out * RateScale <= amount * rate
  BY <1>1, DepositBelowValue
<1>3. /\ treasury_vfdusd' = treasury_vfdusd + amount
      /\ ust1_supply' = ust1_supply + out
      /\ UNCHANGED <<clock, oracle_vars, config_vars>>
  BY DEF Deposit
<1>4. rate' = rate
  BY <1>3 DEF oracle_vars, price_vars
<1>5. treasury_vfdusd' * rate' = treasury_vfdusd * rate + amount * rate
  BY <1>1, <1>3, <1>4, SMT
<1>6. ust1_supply' * RateScale = ust1_supply * RateScale + out * RateScale
  <2> HIDE DEF out
  <2>1. QED
    BY <1>1, <1>2, <1>3, CommonAssumption, SMT
<1>7. Surplus' >= Surplus
  <2> HIDE DEF out
  <2>1. /\ treasury_vfdusd * rate \in Int /\ amount * rate \in Int
        /\ ust1_supply * RateScale \in Int /\ out * RateScale \in Int
    BY <1>1, <1>2, CommonAssumption
  <2>2. QED
    BY <1>2, <1>5, <1>6, <2>1 DEF Surplus
<1>8. QED
  BY <1>1, <1>2, <1>3, <1>7

LEMMA WithdrawStep ==
  ASSUME SolvencyInv, NEW user \in Users, NEW gross \in Amounts, NEW min_out \in Amounts,
         Withdraw(user, gross, min_out)
  PROVE  /\ UNCHANGED <<clock, oracle_vars, config_vars>>
         /\ treasury_vfdusd' \in Nat
         /\ ust1_supply' \in Int
         /\ Surplus' >= Surplus
<1> DEFINE v == WithdrawGrossUst1ToVfdusd(gross, rate, fee_bps)
<1>1. /\ gross \in Nat /\ rate \in Nat \ {0} /\ fee_bps \in 0..BpsDenom
      /\ treasury_vfdusd \in Nat /\ ust1_supply \in Int
  BY WindowAssumption, CommonAssumption DEF SolvencyInv, OracleTypeOK
<1>2. v \in Nat /\ v * rate <= gross * RateScale
  BY <1>1, WithdrawBelowValue
<1>3. /\ v <= treasury_vfdusd
      /\ treasury_vfdusd' = treasury_vfdusd - v
      /\ ust1_supply' = ust1_supply - gross
      /\ UNCHANGED <<clock, oracle_vars, config_vars>>
  BY DEF Withdraw
<1>4. rate' = rate
  BY <1>3 DEF oracle_vars, price_vars
<1> HIDE DEF v
<1>5. treasury_vfdusd' * rate' = treasury_vfdusd * rate - v * rate
  BY <1>1, <1>2, <1>3, <1>4, SMT
<1>6. ust1_supply' * RateScale = ust1_supply * RateScale - gross * RateScale
  BY <1>1, <1>3, CommonAssumption, SMT
<1>7. Surplus' >= Surplus
  <2>1. /\ treasury_vfdusd * rate \in Int /\ v * rate \in Int
        /\ ust1_supply * RateScale \in Int /\ gross * RateScale \in Int
    BY <1>1, <1>2, CommonAssumption
  <2>2. QED
    BY <1>2, <1>5, <1>6, <2>1 DEF Surplus
<1>8. QED
  BY <1>1, <1>2, <1>3, <1>7

(* A rate update can only raise what the treasury holds is worth.            *)
LEMMA OracleSurplus ==
  ASSUME SolvencyInv, OracleStep
  PROVE  Surplus' >= Surplus
<1>0. rate \in Int /\ treasury_vfdusd \in Nat /\ ust1_supply \in Int
  BY CommonAssumption DEF SolvencyInv, OracleTypeOK
<1>1. UNCHANGED <<treasury_vfdusd, ust1_supply>>
  BY DEF OracleStep, window_vars, ledger_vars
<1>2. rate' \in Int /\ rate' >= rate
  <2>1. CASE \E sender \in Addr, new \in Rates : UpdateRate(sender, new)
    BY <2>1, OracleAssumption, CommonAssumption DEF UpdateRate, StoreRate, CheckRateUpdate
  <2>2. CASE UNCHANGED rate
    BY <1>0, <2>2
  <2>3. QED
    BY <2>1, <2>2 DEF OracleStep, OracleNext, OracleCall, Tick, oracle_vars, price_vars,
       SetOracleOperator, SetOraclePaused, OracleProposeGovernance, OracleAcceptGovernance
<1>3. rate * treasury_vfdusd <= rate' * treasury_vfdusd
  BY <1>0, <1>2, TimesMonotone
<1>4. rate * treasury_vfdusd = treasury_vfdusd * rate /\ rate' * treasury_vfdusd = treasury_vfdusd * rate'
  BY <1>0, <1>2, SMT
<1>5. /\ treasury_vfdusd * rate \in Int /\ treasury_vfdusd * rate' \in Int
      /\ ust1_supply * RateScale \in Int
  BY <1>0, <1>2, CommonAssumption
<1>6. QED
  BY <1>1, <1>3, <1>4, <1>5 DEF Surplus

(* Governance moves no token, and validates what it sets.                    *)
LEMMA GovernanceStep ==
  ASSUME SolvencyInv, Governance
  PROVE  /\ UNCHANGED <<clock, oracle_vars, ledger_vars>>
         /\ fee_bps' \in 0..BpsDenom
         /\ max_oracle_age' \in Nat
         /\ max_oracle_age' >= MinUpdateInterval
<1> USE DEF SolvencyInv, config_vars
<1>1. PICK sender \in Addr :
        \/ \E per_tx, rolling \in Limits : SetLimits(sender, per_tx, rolling)
        \/ \E paused \in BOOLEAN : SetWindowPaused(sender, paused)
        \/ \E fee \in Fees : SetFeeBps(sender, fee)
        \/ \E max_age \in MaxAges : SetMaxOracleAge(sender, max_age)
        \/ \E addr \in Addr : WindowProposeGovernance(sender, addr)
        \/ WindowAcceptGovernance(sender)
  BY DEF Governance
<1>2. CASE \E fee \in Fees : SetFeeBps(sender, fee)
  BY <1>2, WindowAssumption, CommonAssumption DEF SetFeeBps
<1>3. CASE \E max_age \in MaxAges : SetMaxOracleAge(sender, max_age)
  BY <1>3, WindowAssumption DEF SetMaxOracleAge, ValidMaxAge
<1>4. CASE UNCHANGED <<clock, oracle_vars, fee_bps, max_oracle_age, ledger_vars>>
  BY <1>4
<1>5. QED
  BY <1>1, <1>2, <1>3, <1>4 DEF SetLimits, SetWindowPaused, WindowProposeGovernance,
     WindowAcceptGovernance

(* Custody is not empty only where it is open.                               *)
LEMMA CustodyStep ==
  ASSUME SolvencyInv, Custody
  PROVE  /\ OpenCustody
         /\ UNCHANGED <<clock, oracle_vars, config_vars>>
         /\ treasury_vfdusd' \in Nat
         /\ ust1_supply' \in Int
<1>1. PICK amount \in Amounts :
        TreasurySpend(amount) \/ \E user \in Users : OtherMint(user, amount)
  BY DEF Custody
<1>2. CASE TreasurySpend(amount)
  BY <1>2, WindowAssumption DEF TreasurySpend, SolvencyInv
<1>3. CASE \E user \in Users : OtherMint(user, amount)
  BY <1>3, WindowAssumption DEF OtherMint, SolvencyInv
<1>4. QED
  BY <1>1, <1>2, <1>3

(* No step but one of custody lowers the surplus.                            *)
LEMMA SurplusStep ==
  ASSUME SolvencyInv, [Next]_vars
  PROVE  Custody \/ Surplus' >= Surplus
<1>1. Surplus \in Int
  BY SurplusIsInt DEF SolvencyInv, OracleTypeOK, Surplus
<1>2. CASE Swap
  BY <1>2, DepositStep, WithdrawStep DEF Swap
<1>3. CASE UNCHANGED <<rate, treasury_vfdusd, ust1_supply>>
  BY <1>1, <1>3 DEF Surplus
<1>4. CASE Governance
  BY <1>3, <1>4, GovernanceStep DEF oracle_vars, price_vars, ledger_vars
<1>5. CASE OracleStep
  BY <1>5, OracleSurplus
<1>6. CASE UNCHANGED vars
  BY <1>3, <1>6 DEF vars, oracle_vars, price_vars, window_vars, ledger_vars
<1>7. QED
  BY <1>2, <1>4, <1>5, <1>6 DEF Next

LEMMA SolvencyStep ==
  ASSUME SolvencyInv, [Next]_vars
  PROVE  SolvencyInv'
<1>1. OracleTypeOK' /\ PriceInv'
  <2>1. [OracleNext]_chain_vars
    <3>1. CASE UNCHANGED <<clock, oracle_vars>>
      BY <3>1 DEF chain_vars
    <3>2. CASE Swap
      BY <3>1, <3>2, DepositStep, WithdrawStep DEF Swap
    <3>3. CASE Governance
      BY <3>1, <3>3, GovernanceStep
    <3>4. CASE Custody
      BY <3>1, <3>4, CustodyStep
    <3>5. QED
      BY <3>1, <3>2, <3>3, <3>4 DEF Next, OracleStep, vars
  <2>2. QED
    BY <2>1, OracleNextInv DEF SolvencyInv
<1>2. /\ fee_bps' \in 0..BpsDenom
      /\ max_oracle_age' \in Nat
      /\ max_oracle_age' >= MinUpdateInterval
      /\ treasury_vfdusd' \in Nat
      /\ ust1_supply' \in Int
  <2> USE DEF config_vars, ledger_vars
  <2>1. CASE Swap
    BY <2>1, DepositStep, WithdrawStep DEF Swap, SolvencyInv
  <2>2. CASE Governance
    BY <2>2, GovernanceStep DEF SolvencyInv
  <2>3. CASE Custody
    BY <2>3, CustodyStep DEF SolvencyInv
  <2>4. CASE UNCHANGED window_vars
    BY <2>4 DEF SolvencyInv, window_vars
  <2>5. QED
    BY <2>1, <2>2, <2>3, <2>4 DEF Next, OracleStep, vars
<1>3. OpenCustody \/ Surplus' >= 0
  <2>1. CASE Custody
    BY <2>1, CustodyStep
  <2>2. CASE Surplus' >= Surplus
    <3>1. Surplus \in Int
      BY SurplusIsInt DEF SolvencyInv, OracleTypeOK, Surplus
    <3>2. Surplus' \in Int
      BY <1>1, <1>2, SurplusIsInt DEF OracleTypeOK, Surplus
    <3>3. QED
      BY <2>2, <3>1, <3>2 DEF SolvencyInv
  <2>3. QED
    BY <2>1, <2>2, SurplusStep
<1>4. QED
  BY <1>1, <1>2, <1>3 DEF SolvencyInv

(* With atomic swaps the window stays backed, whoever calls in which order. *)
THEOREM WindowInvariant == Spec => []SolvencyInv
<1>1. SolvencyInv /\ [Next]_vars => SolvencyInv'
  BY SolvencyStep
<1>2. QED
  BY <1>1, InitSolvent, PTL DEF Spec

-----------------------------------------------------------------------------
(* The results                                                               *)

(* No deposit, withdrawal, rate update or governance call of any size at any *)
(* rate and fee costs the treasury anything.                                 *)
THEOREM TreasuryNeverLoses == Spec => SurplusNeverFalls
<1>1. SolvencyInv /\ [Next]_vars => [Custody \/ Surplus' >= Surplus]_vars
  BY SurplusStep
<1>2. QED
  BY <1>1, WindowInvariant, PTL DEF Spec, SurplusNeverFalls

(* The outstanding UST1 can be redeemed, in any part and at any fee.         *)
THEOREM AlwaysRedeemable == Spec => []Redeemable
<1>1. SolvencyInv => Redeemable
  <2>1. SUFFICES ASSUME SolvencyInv, ~OpenCustody, NEW gross \in 0..ust1_supply
                 PROVE  WithdrawGrossUst1ToVfdusd(gross, rate, fee_bps) <= treasury_vfdusd
    BY DEF Redeemable
  <2> DEFINE v == WithdrawGrossUst1ToVfdusd(gross, rate, fee_bps)
  <2>2. /\ gross \in Nat /\ ust1_supply \in Nat /\ gross <= ust1_supply
        /\ rate \in Nat \ {0} /\ treasury_vfdusd \in Nat
    BY <2>1 DEF SolvencyInv, OracleTypeOK
  <2>3. v \in Nat /\ v * rate <= gross * RateScale
    BY <2>1, <2>2, WithdrawBelowValue DEF SolvencyInv
  <2>4. gross * RateScale <= ust1_supply * RateScale
    BY <2>2, TimesMonotone, CommonAssumption
  <2>5. ust1_supply * RateScale <= treasury_vfdusd * rate
    BY <2>1, <2>2, CommonAssumption DEF SolvencyInv, Surplus
  <2> HIDE DEF v
  <2>6. SUFFICES ASSUME treasury_vfdusd + 1 <= v PROVE FALSE
    BY <2>2, <2>3 DEF v
  <2>7. (treasury_vfdusd + 1) * rate <= v * rate
    BY <2>2, <2>3, <2>6, TimesMonotone
  <2>8. (treasury_vfdusd + 1) * rate = treasury_vfdusd * rate + rate
    BY <2>2, SMT
  <2>9. /\ v * rate \in Int /\ gross * RateScale \in Int
        /\ ust1_supply * RateScale \in Int /\ treasury_vfdusd * rate \in Int
    BY <2>2, <2>3, CommonAssumption
  <2>10. QED
    BY <2>2, <2>3, <2>4, <2>5, <2>7, <2>8, <2>9
<1>2. QED
  BY <1>1, WindowInvariant, PTL

(* A rate too old to swap at can always be renewed in the same block.        *)
THEOREM StaleRateAlwaysCurable == Spec => []StaleRateIsCurable
<1>1. SolvencyInv => StaleRateIsCurable
  <2>1. SUFFICES ASSUME SolvencyInv, ~oracle_paused, last_update > 0, ~OracleUsable,
                        DailyCapFits(rate)
                 PROVE  CheckRateUpdate(clock, last_update, rate, rate, utc_day, baseline)
    BY DEF StaleRateIsCurable
  <2>2. HeartbeatAccepted
    BY <2>1, HeartbeatFromInv DEF SolvencyInv
  <2>3. clock - last_update > max_oracle_age
    BY <2>1 DEF OracleUsable, SolvencyInv, OracleTypeOK
  <2>4. ~Throttled(clock, last_update)
    BY <2>1, <2>3, CommonAssumption DEF Throttled, SolvencyInv, OracleTypeOK
  <2>5. QED
    BY <2>1, <2>2, <2>4 DEF HeartbeatAccepted
<1>2. QED
  BY <1>1, WindowInvariant, PTL

-----------------------------------------------------------------------------
(* What a swap costs its user                                                *)
LEMMA DepositCostsItsUser ==
  ASSUME SolvencyInv, NEW user \in Users, NEW amount \in Amounts, Deposit(user, amount)
  PROVE  SwapCost
<1> DEFINE out == DepositVfdusdToUst1(amount, rate, fee_bps)
<1>1. /\ amount \in Nat /\ rate \in Nat /\ fee_bps \in 0..BpsDenom
      /\ treasury_vfdusd \in Nat /\ ust1_supply \in Int
  BY WindowAssumption, CommonAssumption DEF SolvencyInv, OracleTypeOK
<1>2. out \in Nat
  BY <1>1, DepositBelowValue
<1>3. (amount * rate - out * RateScale) * BpsDenom
        < (amount * rate) * fee_bps + (RateScale + RateScale) * BpsDenom
  BY <1>1, DepositCost
<1>4. /\ treasury_vfdusd' = treasury_vfdusd + amount
      /\ ust1_supply' = ust1_supply + out
      /\ rate' = rate
  BY DEF Deposit, oracle_vars, price_vars
<1> HIDE DEF out
<1>5. Surplus' - Surplus = amount * rate - out * RateScale
  <2>1. treasury_vfdusd' * rate' = treasury_vfdusd * rate + amount * rate
    BY <1>1, <1>4, SMT
  <2>2. ust1_supply' * RateScale = ust1_supply * RateScale + out * RateScale
    BY <1>1, <1>2, <1>4, CommonAssumption, SMT
  <2>3. /\ treasury_vfdusd * rate \in Int /\ amount * rate \in Int
        /\ ust1_supply * RateScale \in Int /\ out * RateScale \in Int
    BY <1>1, <1>2, CommonAssumption
  <2>4. QED
    BY <2>1, <2>2, <2>3 DEF Surplus
<1>6. treasury_vfdusd' - treasury_vfdusd = amount /\ ~(ust1_supply' < ust1_supply)
  BY <1>1, <1>2, <1>4
<1>7. CostBelow((treasury_vfdusd' - treasury_vfdusd) * rate, RateScale)
  BY <1>3, <1>5, <1>6, Zenon DEF CostBelow
<1>8. QED
  BY <1>6, <1>7 DEF SwapCost

LEMMA WithdrawCostsItsUser ==
  ASSUME SolvencyInv, NEW user \in Users, NEW gross \in Amounts, NEW min_out \in Amounts,
         Withdraw(user, gross, min_out)
  PROVE  SwapCost
<1> DEFINE v == WithdrawGrossUst1ToVfdusd(gross, rate, fee_bps)
<1>1. /\ gross \in Nat /\ rate \in Nat \ {0} /\ fee_bps \in 0..BpsDenom
      /\ treasury_vfdusd \in Nat /\ ust1_supply \in Int
  BY WindowAssumption, CommonAssumption DEF SolvencyInv, OracleTypeOK
<1>2. v \in Nat
  BY <1>1, WithdrawBelowValue
<1>3. (gross * RateScale - v * rate) * BpsDenom
        < (gross * RateScale) * fee_bps + (RateScale + rate) * BpsDenom
  BY <1>1, WithdrawCost
<1>4. /\ treasury_vfdusd' = treasury_vfdusd - v
      /\ ust1_supply' = ust1_supply - gross
      /\ rate' = rate
  BY DEF Withdraw, oracle_vars, price_vars
<1> HIDE DEF v
<1>5. Surplus' - Surplus = gross * RateScale - v * rate
  <2>1. treasury_vfdusd' * rate' = treasury_vfdusd * rate - v * rate
    BY <1>1, <1>2, <1>4, SMT
  <2>2. ust1_supply' * RateScale = ust1_supply * RateScale - gross * RateScale
    BY <1>1, <1>4, CommonAssumption, SMT
  <2>3. /\ treasury_vfdusd * rate \in Int /\ v * rate \in Int
        /\ ust1_supply * RateScale \in Int /\ gross * RateScale \in Int
    BY <1>1, <1>2, CommonAssumption
  <2>4. QED
    BY <2>1, <2>2, <2>3 DEF Surplus
<1>6. ust1_supply - ust1_supply' = gross /\ ~(ust1_supply' > ust1_supply)
  BY <1>1, <1>4
<1>7. CostBelow((ust1_supply - ust1_supply') * RateScale, rate)
  BY <1>3, <1>5, <1>6, Zenon DEF CostBelow
<1>8. QED
  BY <1>6, <1>7 DEF SwapCost

(* No swap of any size at any rate and fee costs its user more than the fee  *)
(* and the units its two roundings may drop.                                 *)
THEOREM SwapsCostTheFee == Spec => SwapCostBounded
<1>1. SolvencyInv /\ [Next]_vars => [Custody \/ SwapCost]_vars
  <2>1. SUFFICES ASSUME SolvencyInv, Next, ~Custody PROVE SwapCost
    OBVIOUS
  <2>2. CASE Swap
    BY <2>1, <2>2, DepositCostsItsUser, WithdrawCostsItsUser DEF Swap
  <2>3. CASE UNCHANGED ust1_supply
    BY <2>1, <2>3 DEF SwapCost, SolvencyInv
  <2>4. QED
    BY <2>1, <2>2, <2>3, GovernanceStep DEF Next, OracleStep, window_vars, ledger_vars
<1>2. QED
  BY <1>1, WindowInvariant, PTL DEF Spec, SwapCostBounded

(* The oracle the window reads is the one of Ust1Oracle: no swap, setting,   *)
(* mint or spending writes to it, so what is proved of it alone holds here.  *)
THEOREM WindowLeavesTheOracle == Spec => OracleSpec
<1>1. Init => OracleInit
  BY DEF Init
<1>2. [Next]_vars => [OracleNext]_chain_vars
  <2> SUFFICES ASSUME [Next]_vars PROVE [OracleNext]_chain_vars
    OBVIOUS
  <2>1. CASE Swap
    BY <2>1 DEF Swap, Deposit, Withdraw, chain_vars
  <2>2. CASE Governance
    BY <2>2
    DEF Governance, SetLimits, SetWindowPaused, SetFeeBps, SetMaxOracleAge,
        WindowProposeGovernance, WindowAcceptGovernance, chain_vars
  <2>3. CASE Custody
    BY <2>3 DEF Custody, TreasurySpend, OtherMint, chain_vars
  <2>4. CASE OracleStep
    BY <2>4 DEF OracleStep
  <2>5. CASE UNCHANGED vars
    BY <2>5 DEF vars, chain_vars
  <2> QED
    BY <2>1, <2>2, <2>3, <2>4, <2>5 DEF Next
<1> QED
  BY <1>1, <1>2, PTL DEF Spec, OracleSpec

-----------------------------------------------------------------------------
(* Types.  TypeOK is not inductive: that the supply stays a natural number   *)
(* when UST1 is burnt rests on its being what the users hold.                *)
TypeInv ==
  /\ TypeOK
  /\ PriceInv
  /\ LedgerSum(Users, ust1, ust1_supply)

(* instantiate sets fields of the right types, and nobody holds UST1 yet.    *)
LEMMA InitTypes == Init => TypeInv
<1>1. SUFFICES ASSUME Init PROVE TypeInv
  OBVIOUS
<1>2. OracleTypeOK /\ PriceInv
  BY <1>1, OracleInitInv DEF Init
<1>3. /\ fee_bps \in 0..BpsDenom
      /\ per_tx_limit \in 0..MaxU128 /\ rolling_limit \in 0..MaxU128
      /\ max_oracle_age \in Nat
      /\ treasury_vfdusd \in Nat
      /\ vfdusd \in [Users -> Nat] /\ ust1 \in [Users -> Nat]
      /\ window_start \in 0..clock /\ volume \in 0..MaxU128 /\ ust1_supply \in 0..MaxU128
  BY <1>1, <1>2, WindowAssumption, CommonAssumption DEF Init, OracleTypeOK
<1>4. window_paused \in BOOLEAN /\ WindowGov!TypeOK
  BY <1>1, Zenon DEF Init, WindowGov!Init, WindowGov!TypeOK
<1>5. LedgerSum(Users, ust1, ust1_supply)
  BY <1>1, LedgerOpens DEF Init
<1>6. QED
  BY <1>2, <1>3, <1>4, <1>5 DEF TypeInv, TypeOK

(* What ensure_limits stores is in range. *)
LEMMA EnsureLimitsTypes ==
  ASSUME TypeInv, NEW n \in Nat, EnsureLimits(n)
  PROVE  window_start' \in 0..clock /\ volume' \in 0..MaxU128
<1>1. /\ clock \in Nat /\ window_start \in 0..clock /\ volume \in Nat
      /\ rolling_limit \in 0..MaxU128 /\ MaxU128 \in Nat
  BY CommonAssumption DEF TypeInv, TypeOK, OracleTypeOK
<1>2. CarriedVolume(clock, window_start, volume) \in Nat
  BY <1>1 DEF CarriedVolume
<1>3. WindowStartAfter(clock, window_start) \in 0..clock
  BY <1>1 DEF WindowStartAfter
<1>4. QED
  BY <1>1, <1>2, <1>3 DEF EnsureLimits, WithinLimits

(* Each operation keeps the types.  A mint or a burn moves one balance and    *)
(* the supply alike.                                                         *)
LEMMA DepositTypes ==
  ASSUME TypeInv, NEW user \in Users, NEW amount \in Amounts, Deposit(user, amount)
  PROVE  TypeInv'
<1> DEFINE out == DepositVfdusdToUst1(amount, rate, fee_bps)
<1>1. /\ amount \in Nat /\ rate \in Nat /\ fee_bps \in 0..BpsDenom
      /\ treasury_vfdusd \in Nat /\ ust1_supply \in 0..MaxU128
      /\ vfdusd \in [Users -> Nat] /\ ust1 \in [Users -> Nat]
      /\ LedgerSum(Users, ust1, ust1_supply)
  BY WindowAssumption, CommonAssumption DEF TypeInv, TypeOK, OracleTypeOK
<1>2. out \in Nat
  BY <1>1, DepositBelowValue
<1>3. /\ amount <= vfdusd[user]
      /\ EnsureLimits(out)
      /\ ust1_supply + out <= MaxU128
      /\ vfdusd' = [vfdusd EXCEPT ![user] = @ - amount]
      /\ treasury_vfdusd' = treasury_vfdusd + amount
      /\ ust1' = [ust1 EXCEPT ![user] = @ + out]
      /\ ust1_supply' = ust1_supply + out
      /\ UNCHANGED <<clock, oracle_vars, config_vars, window_gov_vars>>
  BY DEF Deposit, FitsU128
<1> HIDE DEF out
<1>4. vfdusd' \in [Users -> Nat] /\ treasury_vfdusd' \in Nat
  BY <1>1, <1>3
<1>5. ust1' \in [Users -> Nat] /\ LedgerSum(Users, ust1', ust1_supply')
  <2> DEFINE n == ust1[user] + out
  <2>1. n \in Nat /\ ust1_supply + n - ust1[user] = ust1_supply + out
    BY <1>1, <1>2
  <2>2. ust1' = [ust1 EXCEPT ![user] = n]
    BY <1>3
  <2> HIDE DEF n
  <2>3. LedgerSum(Users, [ust1 EXCEPT ![user] = n], ust1_supply + n - ust1[user])
    BY <1>1, <2>1, LedgerMoves
  <2>4. QED
    BY <1>1, <1>3, <2>1, <2>2, <2>3
<1>6. ust1_supply' \in 0..MaxU128
  BY <1>1, <1>2, <1>3, CommonAssumption
<1>7. window_start' \in 0..clock' /\ volume' \in 0..MaxU128
  BY <1>2, <1>3, EnsureLimitsTypes
<1>8. OracleTypeOK' /\ PriceInv'
  BY <1>3, OracleNextInv DEF TypeInv, TypeOK, chain_vars
<1>9. QED
  BY <1>3, <1>4, <1>5, <1>6, <1>7, <1>8 DEF TypeInv, TypeOK, config_vars, window_gov_vars,
     WindowGov!TypeOK

LEMMA WithdrawTypes ==
  ASSUME TypeInv, NEW user \in Users, NEW gross \in Amounts, NEW min_out \in Amounts,
         Withdraw(user, gross, min_out)
  PROVE  TypeInv'
<1> DEFINE v == WithdrawGrossUst1ToVfdusd(gross, rate, fee_bps)
<1>1. /\ gross \in Nat /\ rate \in Nat \ {0} /\ fee_bps \in 0..BpsDenom
      /\ treasury_vfdusd \in Nat /\ ust1_supply \in 0..MaxU128
      /\ vfdusd \in [Users -> Nat] /\ ust1 \in [Users -> Nat]
      /\ LedgerSum(Users, ust1, ust1_supply)
  BY WindowAssumption, CommonAssumption DEF TypeInv, TypeOK, OracleTypeOK
<1>2. v \in Nat
  BY <1>1, WithdrawBelowValue
<1>3. /\ gross <= ust1[user]
      /\ v <= treasury_vfdusd
      /\ EnsureLimits(gross)
      /\ ust1' = [ust1 EXCEPT ![user] = @ - gross]
      /\ ust1_supply' = ust1_supply - gross
      /\ treasury_vfdusd' = treasury_vfdusd - v
      /\ vfdusd' = [vfdusd EXCEPT ![user] = @ + v]
      /\ UNCHANGED <<clock, oracle_vars, config_vars, window_gov_vars>>
  BY DEF Withdraw
<1> HIDE DEF v
<1>4. vfdusd' \in [Users -> Nat] /\ treasury_vfdusd' \in Nat
  BY <1>1, <1>2, <1>3
<1>5. ust1' \in [Users -> Nat] /\ LedgerSum(Users, ust1', ust1_supply')
  <2> DEFINE n == ust1[user] - gross
  <2>1. n \in Nat /\ ust1_supply + n - ust1[user] = ust1_supply - gross
    BY <1>1, <1>3
  <2>2. ust1' = [ust1 EXCEPT ![user] = n]
    BY <1>3
  <2> HIDE DEF n
  <2>3. LedgerSum(Users, [ust1 EXCEPT ![user] = n], ust1_supply + n - ust1[user])
    BY <1>1, <2>1, LedgerMoves
  <2>4. QED
    BY <1>1, <1>3, <2>1, <2>2, <2>3
<1>6. ust1_supply' \in 0..MaxU128
  <2>1. ust1_supply' \in Nat
    BY <1>5, LedgerBound
  <2>2. QED
    BY <1>1, <1>3, <2>1, CommonAssumption
<1>7. window_start' \in 0..clock' /\ volume' \in 0..MaxU128
  BY <1>1, <1>3, EnsureLimitsTypes
<1>8. OracleTypeOK' /\ PriceInv'
  BY <1>3, OracleNextInv DEF TypeInv, TypeOK, chain_vars
<1>9. QED
  BY <1>3, <1>4, <1>5, <1>6, <1>7, <1>8 DEF TypeInv, TypeOK, config_vars, window_gov_vars,
     WindowGov!TypeOK

(* The chain around the contract, governance, and every other step.          *)
LEMMA CustodyTypes ==
  ASSUME TypeInv, Custody
  PROVE  TypeInv'
<1>1. PICK amount \in Amounts :
        TreasurySpend(amount) \/ \E user \in Users : OtherMint(user, amount)
  BY DEF Custody
<1>2. /\ amount \in Nat
      /\ treasury_vfdusd \in Nat /\ ust1_supply \in 0..MaxU128 /\ ust1 \in [Users -> Nat]
      /\ LedgerSum(Users, ust1, ust1_supply)
  BY WindowAssumption, CommonAssumption DEF TypeInv, TypeOK
<1>3. /\ UNCHANGED <<clock, oracle_vars, config_vars, rolling_vars, window_gov_vars, vfdusd>>
      /\ treasury_vfdusd' \in Nat /\ ust1' \in [Users -> Nat] /\ ust1_supply' \in 0..MaxU128
      /\ LedgerSum(Users, ust1', ust1_supply')
  <2>1. CASE TreasurySpend(amount)
    BY <1>2, <2>1 DEF TreasurySpend
  <2>2. ASSUME NEW user \in Users, OtherMint(user, amount)
        PROVE  /\ UNCHANGED <<clock, oracle_vars, config_vars, rolling_vars, window_gov_vars,
                              vfdusd>>
               /\ treasury_vfdusd' \in Nat /\ ust1' \in [Users -> Nat]
               /\ ust1_supply' \in 0..MaxU128
               /\ LedgerSum(Users, ust1', ust1_supply')
    <3>1. /\ ust1' = [ust1 EXCEPT ![user] = @ + amount]
          /\ ust1_supply' = ust1_supply + amount
          /\ ust1_supply + amount <= MaxU128
          /\ UNCHANGED <<clock, oracle_vars, config_vars, rolling_vars, window_gov_vars,
                         vfdusd, treasury_vfdusd>>
      BY <2>2 DEF OtherMint, FitsU128
    <3> DEFINE n == ust1[user] + amount
    <3>2. n \in Nat /\ ust1_supply + n - ust1[user] = ust1_supply + amount
      BY <1>2
    <3>3. ust1' = [ust1 EXCEPT ![user] = n]
      BY <3>1
    <3> HIDE DEF n
    <3>4. LedgerSum(Users, [ust1 EXCEPT ![user] = n], ust1_supply + n - ust1[user])
      BY <1>2, <3>2, LedgerMoves
    <3>5. ust1' \in [Users -> Nat] /\ LedgerSum(Users, ust1', ust1_supply')
      BY <1>2, <3>1, <3>2, <3>3, <3>4
    <3>6. QED
      BY <1>2, <3>1, <3>5, CommonAssumption
  <2>3. QED
    BY <1>1, <2>1, <2>2
<1>4. OracleTypeOK' /\ PriceInv'
  BY <1>3, OracleNextInv DEF TypeInv, TypeOK, chain_vars
<1>5. QED
  BY <1>3, <1>4 DEF TypeInv, TypeOK, config_vars, rolling_vars, window_gov_vars,
     WindowGov!TypeOK

LEMMA GovernanceTypes ==
  ASSUME TypeInv, Governance
  PROVE  TypeInv'
<1>0. PICK sender \in Addr :
        \/ \E per_tx, rolling \in Limits : SetLimits(sender, per_tx, rolling)
        \/ \E paused \in BOOLEAN : SetWindowPaused(sender, paused)
        \/ \E fee \in Fees : SetFeeBps(sender, fee)
        \/ \E max_age \in MaxAges : SetMaxOracleAge(sender, max_age)
        \/ \E addr \in Addr : WindowProposeGovernance(sender, addr)
        \/ WindowAcceptGovernance(sender)
  BY DEF Governance
<1>1. UNCHANGED <<clock, oracle_vars, rolling_vars, ledger_vars>>
  BY <1>0 DEF SetLimits, SetWindowPaused, SetFeeBps, SetMaxOracleAge, WindowProposeGovernance,
     WindowAcceptGovernance
<1>2. /\ fee_bps' \in 0..BpsDenom
      /\ per_tx_limit' \in 0..MaxU128 /\ rolling_limit' \in 0..MaxU128
      /\ max_oracle_age' \in Nat
  BY <1>0, WindowAssumption, CommonAssumption DEF TypeInv, TypeOK, config_vars, SetLimits,
     SetWindowPaused, SetFeeBps, SetMaxOracleAge, WindowProposeGovernance,
     WindowAcceptGovernance
<1>3. window_paused' \in BOOLEAN
  BY <1>0, Zenon DEF TypeInv, TypeOK, config_vars, SetLimits, SetWindowPaused, SetFeeBps,
     SetMaxOracleAge, WindowProposeGovernance, WindowAcceptGovernance
<1>4. WindowGov!TypeOK'
  BY <1>0 DEF TypeInv, TypeOK, window_gov_vars, SetLimits, SetWindowPaused, SetFeeBps,
     SetMaxOracleAge, WindowProposeGovernance, WindowAcceptGovernance, WindowGov!TypeOK,
     WindowGov!ProposeGovernance, WindowGov!AcceptGovernance
<1>5. OracleTypeOK' /\ PriceInv'
  BY <1>1, OracleNextInv DEF TypeInv, TypeOK, chain_vars
<1>6. QED
  BY <1>1, <1>2, <1>3, <1>4, <1>5 DEF TypeInv, TypeOK, rolling_vars, ledger_vars

LEMMA TypeStep ==
  ASSUME TypeInv, [Next]_vars
  PROVE  TypeInv'
<1>1. CASE Swap
  BY <1>1, DepositTypes, WithdrawTypes DEF Swap
<1>2. CASE [OracleNext]_chain_vars /\ UNCHANGED window_vars
  <2>1. OracleTypeOK' /\ PriceInv'
    BY <1>2, OracleNextInv DEF TypeInv, TypeOK
  <2>2. window_start' \in 0..clock'
    <3>1. clock \in Nat /\ (clock' = clock \/ clock' = clock + 1)
      BY <1>2, OracleClock DEF TypeInv, TypeOK, OracleTypeOK
    <3>2. QED
      BY <1>2, <2>1, <3>1 DEF TypeInv, TypeOK, OracleTypeOK, window_vars, rolling_vars
  <2>3. QED
    BY <1>2, <2>1, <2>2 DEF TypeInv, TypeOK, window_vars, config_vars, rolling_vars,
       window_gov_vars, ledger_vars, WindowGov!TypeOK
<1>3. QED
  BY <1>1, <1>2, CustodyTypes, GovernanceTypes DEF Next, OracleStep, vars, chain_vars

(* Every stored field keeps its type: no balance goes below zero, no supply  *)
(* or metered volume leaves Uint128, no window opens in the future.          *)
THEOREM WindowTypes == Spec => []TypeOK
<1>1. TypeInv /\ [Next]_vars => TypeInv'
  BY TypeStep
<1>2. TypeInv => TypeOK
  BY DEF TypeInv
<1>3. QED
  BY <1>1, <1>2, InitTypes, PTL DEF Spec

-----------------------------------------------------------------------------
(* The meter against the record of what was settled (WindowHistory).         *)
HistoryInv ==
  /\ TypeInv
  /\ rolling_limit <= limit_ceiling
  /\ MeterInv(MaxTime, settled, clock, window_start, volume, limit_ceiling)

(* At first nothing was settled and no window has been opened.               *)
LEMMA InitHistory == HistoryInit => HistoryInv
<1>1. SUFFICES ASSUME HistoryInit PROVE HistoryInv
  OBVIOUS
<1>2. TypeInv
  BY <1>1, InitTypes DEF HistoryInit
<1>3. /\ clock \in 1..MaxTime /\ MaxTime \in Nat /\ limit_ceiling \in Nat
      /\ rolling_limit <= limit_ceiling
  BY <1>1, <1>2, OracleAssumption, HistoryAssumption, CommonAssumption
     DEF HistoryInit, Init, OracleInit, TypeInv, TypeOK
<1>4. MeterInv(MaxTime, settled, clock, window_start, volume, limit_ceiling)
  BY <1>1, <1>3, MeterOpens DEF HistoryInit, Init
<1>5. QED
  BY <1>2, <1>3, <1>4 DEF HistoryInv

(* Governance and custody leave the time and the meter alone.                 *)
LEMMA GovernanceKeepsTime ==
  ASSUME Governance
  PROVE  UNCHANGED <<clock, rolling_vars>>
BY Zenon DEF Governance, SetLimits, SetWindowPaused, SetFeeBps, SetMaxOracleAge,
   WindowProposeGovernance, WindowAcceptGovernance

LEMMA CustodyKeepsTime ==
  ASSUME Custody
  PROVE  UNCHANGED <<clock, config_vars, rolling_vars>>
BY Zenon DEF Custody, TreasurySpend, OtherMint

(* Each swap moves the supply by the notional its limits were checked for.   *)
LEMMA SwapMoves ==
  ASSUME TypeInv, Swap
  PROVE  \E n \in Nat :
           /\ EnsureLimits(n)
           /\ n = IF ust1_supply' > ust1_supply THEN ust1_supply' - ust1_supply
                                                ELSE ust1_supply - ust1_supply'
           /\ UNCHANGED <<clock, oracle_vars, config_vars>>
<1>1. PICK user \in Users, amount \in Amounts :
        Deposit(user, amount) \/ \E min_out \in Amounts : Withdraw(user, amount, min_out)
  BY DEF Swap
<1>2. amount \in Nat /\ rate \in Nat /\ fee_bps \in 0..BpsDenom /\ ust1_supply \in Nat
  BY WindowAssumption, CommonAssumption DEF TypeInv, TypeOK, OracleTypeOK
<1>3. CASE Deposit(user, amount)
  <2> DEFINE n == DepositVfdusdToUst1(amount, rate, fee_bps)
  <2>1. n \in Nat
    BY <1>2, DepositBelowValue
  <2>2. /\ EnsureLimits(n) /\ n > 0 /\ ust1_supply' = ust1_supply + n
        /\ UNCHANGED <<clock, oracle_vars, config_vars>>
    BY <1>3 DEF Deposit
  <2> HIDE DEF n
  <2>3. ust1_supply' > ust1_supply /\ ust1_supply' - ust1_supply = n
    BY <1>2, <2>1, <2>2
  <2>4. QED
    BY <2>1, <2>2, <2>3
<1>4. CASE \E min_out \in Amounts : Withdraw(user, amount, min_out)
  <2>1. /\ EnsureLimits(amount) /\ ust1_supply' = ust1_supply - amount
        /\ UNCHANGED <<clock, oracle_vars, config_vars>>
    BY <1>4 DEF Withdraw
  <2>2. ~(ust1_supply' > ust1_supply) /\ ust1_supply - ust1_supply' = amount
    BY <1>2, <2>1
  <2>3. QED
    BY <1>2, <2>1, <2>2
<1>5. QED
  BY <1>1, <1>3, <1>4

(* A swap is metered; any other step leaves record and meter alone, and only *)
(* lets time pass or the ceiling rise.                                       *)
LEMMA HistoryStep ==
  ASSUME HistoryInv, [HistoryNext]_<<vars, history_vars>>
  PROVE  HistoryInv'
<1>1. /\ clock \in 1..MaxTime /\ MaxTime \in Nat /\ limit_ceiling \in Nat
      /\ rolling_limit \in Nat /\ rolling_limit <= limit_ceiling /\ TypeInv
      /\ settled \in [1..MaxTime -> Nat]
      /\ MeterInv(MaxTime, settled, clock, window_start, volume, limit_ceiling)
  BY OracleAssumption, CommonAssumption DEF HistoryInv, MeterInv, TypeInv, TypeOK
<1>2. TypeInv'
  <2>1. [Next]_vars
    BY DEF HistoryNext, HistorySwap, HistoryGovernance, HistoryOther, Next
  <2>2. QED
    BY <1>1, <2>1, TypeStep
<1>3. CASE HistorySwap
  <2>1. PICK n \in Nat :
           /\ EnsureLimits(n)
           /\ n = IF ust1_supply' > ust1_supply THEN ust1_supply' - ust1_supply
                                                ELSE ust1_supply - ust1_supply'
           /\ UNCHANGED <<clock, oracle_vars, config_vars>>
    BY <1>1, <1>3, SwapMoves DEF HistorySwap
  <2>2. settled' = Settle(settled, clock, n) /\ limit_ceiling' = limit_ceiling
    BY <1>3, <2>1 DEF HistorySwap, Settle
  <2>3. /\ WithinLimits(clock, window_start, volume, n, per_tx_limit, rolling_limit)
        /\ window_start' = WindowStartAfter(clock, window_start)
        /\ volume' = CarriedVolume(clock, window_start, volume) + n
    BY <2>1 DEF EnsureLimits
  <2>4. MeterInv(MaxTime, Settle(settled, clock, n), clock, WindowStartAfter(clock, window_start),
                 CarriedVolume(clock, window_start, volume) + n, limit_ceiling)
    BY <1>1, <2>3, MeteredSwap
  <2>5. clock' = clock /\ rolling_limit' = rolling_limit
    BY <2>1 DEF config_vars
  <2>6. QED
    BY <1>1, <1>2, <2>2, <2>3, <2>4, <2>5 DEF HistoryInv
<1>4. CASE UNCHANGED <<settled, rolling_vars>> /\ ~HistorySwap
  <2>1. /\ clock' \in 1..MaxTime /\ clock <= clock'
        /\ limit_ceiling' \in Nat /\ limit_ceiling <= limit_ceiling'
        /\ rolling_limit' <= limit_ceiling'
    <3>1. CASE HistoryGovernance
      <4>1. clock' = clock /\ rolling_limit' \in Nat
        BY <1>1, <1>2, <3>1, GovernanceKeepsTime, CommonAssumption DEF HistoryGovernance, TypeInv, TypeOK
      <4>2. QED
        BY <1>1, <3>1, <4>1 DEF HistoryGovernance
    <3>2. CASE OracleStep /\ UNCHANGED history_vars
      <4>1. clock' = clock \/ (clock' = clock + 1 /\ clock < MaxTime)
        BY <1>1, <3>2, OracleClock DEF OracleStep
      <4>2. limit_ceiling' = limit_ceiling /\ rolling_limit' = rolling_limit
        BY <3>2 DEF OracleStep, window_vars, config_vars, history_vars
      <4>3. QED
        BY <1>1, <4>1, <4>2
    <3>3. CASE UNCHANGED <<clock, config_vars, history_vars>>
      BY <1>1, <3>3 DEF config_vars, history_vars
    <3>4. QED
      BY <1>4, <3>1, <3>2, <3>3, CustodyKeepsTime DEF HistoryNext, HistoryOther, vars, window_vars
  <2>2. MeterInv(MaxTime, settled, clock', window_start, volume, limit_ceiling')
    BY <1>1, <2>1, MeterKept
  <2>3. QED
    BY <1>2, <1>4, <2>1, <2>2 DEF HistoryInv, rolling_vars
<1>5. UNCHANGED <<settled, rolling_vars>> \/ HistorySwap
  BY GovernanceKeepsTime, CustodyKeepsTime DEF HistoryNext, HistoryGovernance, HistoryOther, OracleStep, vars,
     window_vars, history_vars
<1>6. QED
  BY <1>3, <1>4, <1>5

(* So the meter is true of the record in every reachable state.              *)
THEOREM WindowMeter == HistorySpec => []HistoryInv
<1>1. HistoryInv /\ [HistoryNext]_<<vars, history_vars>> => HistoryInv'
  BY HistoryStep
<1>2. QED
  BY <1>1, InitHistory, PTL DEF HistorySpec

(* The meter of ust1-window holds exactly what was settled since its window  *)
(* opened, and nothing was settled after the window's day.                   *)
THEOREM WindowVolumeIsExact == HistorySpec => []VolumeIsExact
<1>1. HistoryInv => VolumeIsExact
  <2>1. SUFFICES ASSUME HistoryInv PROVE VolumeIsExact
    OBVIOUS
  <2>2. MaxTime \in Nat /\ MeterInv(MaxTime, settled, clock, window_start, volume, limit_ceiling)
    BY <2>1, OracleAssumption DEF HistoryInv
  <2>3. /\ volume = Span(settled, window_start, window_start + Day - 1)
        /\ window_start > 0 => Span(settled, window_start + Day, MaxTime) = 0
    BY <2>2, MeterExact
  <2>4. QED
    BY <2>3, Zenon DEF VolumeIsExact, SettledIn, Span
<1>2. QED
  BY <1>1, WindowMeter, PTL

(* No day, wherever it begins, carries more than twice the greatest limit    *)
(* governance has had in force.                                              *)
THEOREM WindowDayWithinTwiceLimit == HistorySpec => []AnyDayWithinTwiceLimit
<1>1. HistoryInv => AnyDayWithinTwiceLimit
  BY DEF HistoryInv, MeterInv, AnyDayWithinTwiceLimit, SettledIn, Span
<1>2. QED
  BY <1>1, WindowMeter, PTL

-----------------------------------------------------------------------------
(* What a caller gets back                                                   *)

(* The two parts of the fee leave no basis point out, odd or even. *)
LEMMA FeeParts ==
  ASSUME NEW f \in Int
  PROVE  ChainTax(f) + CmmProtocol(f) = f
<1>1. f \div 2 \in Int
  OBVIOUS
<1>2. QED
  BY <1>1 DEF ChainTax, CmmProtocol

(* A deposit's event: what was minted and what was withheld make up what the *)
(* treasury got.                                                             *)
LEMMA DepositEventMatches ==
  ASSUME SolvencyInv, NEW user \in Users, NEW amount \in Amounts, Deposit(user, amount)
  PROVE  EventMatchesLedgers(DepositEvent(amount))
<1> DEFINE before == VfdusdToUst1BeforeFee(amount, rate)
           out == ApplyFeeUst1(before, fee_bps)
           e == DepositEvent(amount)
<1>1. /\ amount \in Nat /\ rate \in Nat /\ fee_bps \in 0..BpsDenom /\ fee_bps \in Int
      /\ treasury_vfdusd \in Nat /\ ust1_supply \in Int
  BY WindowAssumption, CommonAssumption DEF SolvencyInv, OracleTypeOK
<1>2. before \in Nat
  <2>1. amount * rate \in Nat
    BY <1>1, Z3
  <2>2. QED
    BY <2>1, DivIsNat, CommonAssumption DEF VfdusdToUst1BeforeFee
<1>3. out \in Nat
  BY <1>1, <1>2, FeeWithinAmount
<1>4. treasury_vfdusd' = treasury_vfdusd + amount /\ ust1_supply' = ust1_supply + out
  BY DEF Deposit, DepositVfdusdToUst1
<1>5. /\ e.action = "deposit" /\ e.fee_amount = before - out
      /\ e.fee_chain_tax_bps + e.fee_cmm_protocol_bps = fee_bps
  BY <1>1, FeeParts DEF DepositEvent, FeeEvent, FeeAmountUst1
<1> HIDE DEF before, out, e
<1>6. treasury_vfdusd' - treasury_vfdusd = amount
  BY <1>1, <1>4
<1>7. (ust1_supply' - ust1_supply) + e.fee_amount = before
  BY <1>1, <1>2, <1>3, <1>4, <1>5
<1>8. (ust1_supply' - ust1_supply) + e.fee_amount
        = VfdusdToUst1BeforeFee(treasury_vfdusd' - treasury_vfdusd, rate)
  BY <1>6, <1>7, Zenon DEF before
<1>9. QED
  BY <1>5, <1>8, Zenon DEF EventMatchesLedgers, e

(* A withdrawal's: what was paid is what the UST1 burnt and not withheld is  *)
(* worth.                                                                    *)
LEMMA WithdrawEventMatches ==
  ASSUME SolvencyInv, NEW user \in Users, NEW gross \in Amounts, NEW min_out \in Amounts,
         Withdraw(user, gross, min_out)
  PROVE  EventMatchesLedgers(WithdrawEvent(gross))
<1> DEFINE after == ApplyFeeUst1(gross, fee_bps)
           v == Ust1AfterFeeToVfdusd(after, rate)
           e == WithdrawEvent(gross)
<1>1. /\ gross \in Nat /\ rate \in Nat \ {0} /\ fee_bps \in 0..BpsDenom /\ fee_bps \in Int
      /\ treasury_vfdusd \in Nat /\ ust1_supply \in Int
  BY WindowAssumption, CommonAssumption DEF SolvencyInv, OracleTypeOK
<1>2. after \in Nat
  BY <1>1, FeeWithinAmount
<1>3. v \in Nat
  BY <1>1, WithdrawBelowValue DEF WithdrawGrossUst1ToVfdusd
<1>4. treasury_vfdusd' = treasury_vfdusd - v /\ ust1_supply' = ust1_supply - gross
  BY DEF Withdraw, WithdrawGrossUst1ToVfdusd
<1>5. /\ e.action = "withdraw" /\ e.fee_amount = gross - after
      /\ e.fee_chain_tax_bps + e.fee_cmm_protocol_bps = fee_bps
  BY <1>1, FeeParts DEF WithdrawEvent, FeeEvent, FeeAmountUst1
<1> HIDE DEF after, v, e
<1>6. treasury_vfdusd - treasury_vfdusd' = v
  BY <1>1, <1>3, <1>4
<1>7. (ust1_supply - ust1_supply') - e.fee_amount = after
  BY <1>1, <1>2, <1>4, <1>5
<1>8. treasury_vfdusd - treasury_vfdusd'
        = Ust1AfterFeeToVfdusd((ust1_supply - ust1_supply') - e.fee_amount, rate)
  BY <1>6, <1>7, Zenon DEF v
<1>9. e.action # "deposit"
  BY <1>5
<1>10. QED
  BY <1>5, <1>8, <1>9, Zenon DEF EventMatchesLedgers, e

(* The fee an event names is the fee the ledgers withheld. *)
THEOREM EventsNameTheFeeWithheld == Spec => SwapEventsMatch
<1>1. SolvencyInv =>
        [\A user \in Users, amount \in Amounts :
           /\ Deposit(user, amount) => EventMatchesLedgers(DepositEvent(amount))
           /\ \A min_out \in Amounts :
                Withdraw(user, amount, min_out) => EventMatchesLedgers(WithdrawEvent(amount))]_vars
  BY DepositEventMatches, WithdrawEventMatches
<1>2. QED
  BY <1>1, WindowInvariant, PTL DEF SwapEventsMatch

-----------------------------------------------------------------------------
(* Why a call is refused *)

(* Every check of a list passes. *)
Passes(checks) == \A i \in DOMAIN checks : checks[i][1]

(* The errors of an update, of a swap and of governance, and the lists whose *)
(* checks each name one.                                                     *)
CallErrors ==
  {"Paused", "Unauthorized", "ZeroRate", "UpdateTooSoon", "RateDecreased", "DailyCapExceeded",
   "InsufficientFunds", "InvalidCw20Hook", "OraclePaused", "OracleStale", "Math", "ZeroOutput",
   "BelowMinimum", "InsufficientVfdusd", "PerTxLimit", "RollingLimit", "Overflow",
   "InvalidFeeBps", "MaxOracleAgeTooShort", "NoPendingGovernance", "InvalidGovernanceProposal"}

Checks == Seq(BOOLEAN \X CallErrors)

LEMMA OkIsNoError == "Ok" \notin CallErrors
BY SMT DEF CallErrors

(* A set of positions has a least one. *)
LEMMA LeastPosition ==
  ASSUME NEW n \in Nat, NEW S \in SUBSET (1..n), S # {}
  PROVE  Min(S) \in S /\ \A y \in S : Min(S) <= y
<1> DEFINE HasLeast(U) == U # {} => \E x \in U : \A y \in U : x <= y
           G == {U \in SUBSET (1..n) : HasLeast(U)}
<1>1. ASSUME NEW U \in SUBSET (1..n), \A x \in U : U \ {x} \in G PROVE U \in G
  <2>1. SUFFICES ASSUME NEW x \in U PROVE \E m \in U : \A y \in U : m <= y
    OBVIOUS
  <2>2. CASE U \ {x} = {}
    BY <2>2
  <2>3. CASE U \ {x} # {}
    <3>1. PICK m \in U \ {x} : \A y \in U \ {x} : m <= y
      BY <1>1, <2>3
    <3>2. CASE m <= x
      BY <3>1, <3>2
    <3>3. CASE ~(m <= x)
      <4>1. \A y \in U : x <= y
        BY <3>1, <3>3
      <4>2. QED
        BY <4>1
    <3>4. QED
      BY <3>2, <3>3
  <2>4. QED
    BY <2>2, <2>3
<1>2. SUBSET (1..n) \subseteq G
  <2>1. IsFiniteSet(1..n)
    BY FS_Interval
  <2> HIDE DEF G
  <2>2. QED
    BY <1>1, <2>1, SubsetInduction, Zenon
<1>3. HasLeast(S)
  BY <1>2
<1>4. QED
  BY <1>3 DEF Min

(* A call is refused for the error of a check it fails, and for no other.    *)
LEMMA OkWhenAllPass ==
  ASSUME NEW checks \in Checks
  PROVE  FirstError(checks) = "Ok" <=> Passes(checks)
<1> DEFINE failed == {i \in DOMAIN checks : ~checks[i][1]}
<1>1. CASE failed = {}
  BY <1>1 DEF FirstError, Passes
<1>2. CASE failed # {}
  <2>1. Min(failed) \in failed
    <3>1. Len(checks) \in Nat /\ DOMAIN checks = 1..Len(checks)
      BY DEF Checks
    <3>2. failed \in SUBSET (1..Len(checks))
      BY <3>1
    <3> HIDE DEF failed
    <3>3. QED
      BY <1>2, <3>1, <3>2, LeastPosition
  <2>2. FirstError(checks) = checks[Min(failed)][2]
    BY <1>2 DEF FirstError
  <2>3. checks[Min(failed)][2] \in CallErrors
    BY <2>1 DEF Checks
  <2>4. ~Passes(checks)
    BY <1>2 DEF Passes
  <2>5. QED
    BY <2>2, <2>3, <2>4, OkIsNoError
<1>3. QED
  BY <1>1, <1>2

(* Where the checks of two lists are, one after the other. *)
LEMMA Joined ==
  ASSUME NEW s \in Checks, NEW t \in Checks
  PROVE  /\ s \o t \in Checks
         /\ \A i \in DOMAIN s : i \in DOMAIN (s \o t) /\ (s \o t)[i] = s[i]
         /\ \A j \in DOMAIN t : Len(s) + j \in DOMAIN (s \o t) /\ (s \o t)[Len(s) + j] = t[j]
         /\ \A k \in DOMAIN (s \o t) : k \in DOMAIN s \/ \E j \in DOMAIN t : k = Len(s) + j
<1> DEFINE C == BOOLEAN \X CallErrors
<1> HIDE DEF C
<1>1. s \in Seq(C) /\ t \in Seq(C)
  BY DEF Checks, C
<1>2. /\ s \o t \in Seq(C)
      /\ Len(s) \in Nat /\ Len(t) \in Nat
      /\ DOMAIN s = 1..Len(s) /\ DOMAIN t = 1..Len(t) /\ DOMAIN (s \o t) = 1..(Len(s) + Len(t))
  BY <1>1
<1>3. \A i \in 1..Len(s) : i \in 1..(Len(s) + Len(t)) /\ (s \o t)[i] = s[i]
  BY <1>1, <1>2
<1>4. \A j \in 1..Len(t) : Len(s) + j \in 1..(Len(s) + Len(t)) /\ (s \o t)[Len(s) + j] = t[j]
  BY <1>1, <1>2
<1>5. ASSUME NEW k \in 1..(Len(s) + Len(t)), k \notin 1..Len(s)
      PROVE  \E j \in 1..Len(t) : k = Len(s) + j
  <2>1. k - Len(s) \in 1..Len(t) /\ k = Len(s) + (k - Len(s))
    BY <1>2, <1>5
  <2>2. QED
    BY <2>1
<1>6. QED
  BY <1>2, <1>3, <1>4, <1>5 DEF Checks, C

(* They pass when both do. *)
LEMMA ChecksJoined ==
  ASSUME NEW s \in Checks, NEW t \in Checks
  PROVE  s \o t \in Checks /\ (Passes(s \o t) <=> Passes(s) /\ Passes(t))
<1> DEFINE r == s \o t
<1>1. /\ r \in Checks
      /\ \A i \in DOMAIN s : i \in DOMAIN r /\ r[i] = s[i]
      /\ \A j \in DOMAIN t : Len(s) + j \in DOMAIN r /\ r[Len(s) + j] = t[j]
      /\ \A k \in DOMAIN r : k \in DOMAIN s \/ \E j \in DOMAIN t : k = Len(s) + j
  BY Joined
<1> HIDE DEF r
<1>2. ASSUME Passes(r) PROVE Passes(s) /\ Passes(t)
  BY <1>1, <1>2 DEF Passes
<1>3. ASSUME Passes(s), Passes(t) PROVE Passes(r)
  BY <1>1, <1>3 DEF Passes
<1>4. QED
  BY <1>1, <1>2, <1>3 DEF r

(* Of two lists the first has the first word. *)
LEMMA ErrorsJoined ==
  ASSUME NEW s \in Checks, NEW t \in Checks
  PROVE  FirstError(s \o t) = IF Passes(s) THEN FirstError(t) ELSE FirstError(s)
<1> DEFINE r == s \o t
           Failed(c) == {i \in DOMAIN c : ~c[i][1]}
<1>1. r \in Checks /\ (Passes(r) <=> Passes(s) /\ Passes(t))
  BY ChecksJoined
<1>2. \A c \in Checks :
        /\ Len(c) \in Nat /\ DOMAIN c = 1..Len(c) /\ Failed(c) \in SUBSET (1..Len(c))
        /\ Failed(c) = {} <=> Passes(c)
        /\ FirstError(c) = IF Failed(c) = {} THEN "Ok" ELSE c[Min(Failed(c))][2]
  BY DEF Checks, Passes, FirstError
<1>3. /\ \A i \in DOMAIN s : i \in DOMAIN r /\ r[i] = s[i]
      /\ \A j \in DOMAIN t : Len(s) + j \in DOMAIN r /\ r[Len(s) + j] = t[j]
      /\ \A k \in DOMAIN r : k \in DOMAIN s \/ \E j \in DOMAIN t : k = Len(s) + j
  BY Joined
<1> HIDE DEF r
<1>4. /\ \A i \in Failed(s) : i \in Failed(r)
      /\ \A j \in Failed(t) : Len(s) + j \in Failed(r)
      /\ \A k \in Failed(r) : k \in Failed(s) \/ \E j \in Failed(t) : k = Len(s) + j
  BY <1>3
<1> HIDE DEF Failed
<1>5. CASE Passes(s) /\ Passes(t)
  <2>1. FirstError(r) = "Ok" /\ FirstError(t) = "Ok"
    BY <1>1, <1>2, <1>5
  <2> QED
    BY <1>5, <2>1 DEF r
<1>6. CASE ~Passes(s)
  <2> DEFINE n == Min(Failed(s))
             m == Min(Failed(r))
  <2>1. /\ n \in Failed(s) /\ \A y \in Failed(s) : n <= y
        /\ m \in Failed(r) /\ \A y \in Failed(r) : m <= y
    BY <1>1, <1>2, <1>6, LeastPosition
  <2>2. FirstError(r) = r[m][2] /\ FirstError(s) = s[n][2]
    BY <1>1, <1>2, <1>6
  <2> HIDE DEF n, m
  <2>3. n \in 1..Len(s) /\ m \in Nat /\ Len(s) \in Nat /\ \A j \in Failed(t) : j \in Nat
    BY <1>1, <1>2, <2>1
  <2>4. m <= n
    BY <1>4, <2>1
  <2>5. n <= m
    BY <1>4, <2>1, <2>3
  <2>6. m = n
    BY <2>3, <2>4, <2>5
  <2>7. r[n] = s[n]
    BY <1>2, <1>3, <2>3
  <2> QED
    BY <1>6, <2>2, <2>6, <2>7 DEF r
<1>7. CASE Passes(s) /\ ~Passes(t)
  <2> DEFINE n == Min(Failed(t))
             m == Min(Failed(r))
  <2>1. /\ n \in Failed(t) /\ \A y \in Failed(t) : n <= y
        /\ m \in Failed(r) /\ \A y \in Failed(r) : m <= y
    BY <1>1, <1>2, <1>7, LeastPosition
  <2>2. FirstError(r) = r[m][2] /\ FirstError(t) = t[n][2]
    BY <1>1, <1>2, <1>7
  <2> HIDE DEF n, m
  <2>3. n \in 1..Len(t) /\ m \in Nat /\ Len(s) \in Nat /\ \A j \in Failed(t) : j \in Nat
    BY <1>1, <1>2, <2>1
  <2>4. m <= Len(s) + n
    BY <1>4, <2>1
  <2>5. PICK j \in Failed(t) : m = Len(s) + j
    BY <1>2, <1>4, <1>7, <2>1
  <2>6. m = Len(s) + n
    BY <2>1, <2>3, <2>4, <2>5
  <2>7. r[Len(s) + n] = t[n]
    BY <1>2, <1>3, <2>3
  <2> QED
    BY <1>7, <2>2, <2>6, <2>7 DEF r
<1> QED
  BY <1>5, <1>6, <1>7

(* When each handler takes its call, and what it then does: the actions of   *)
(* the contracts in two parts.                                               *)
UpdateGuard(sender, new) ==
  /\ ~oracle_paused
  /\ sender = oracle_operator
  /\ CheckRateUpdate(clock, last_update, rate, new, utc_day, baseline)

DepositGuard(user, amount) ==
  LET ust1_out == DepositVfdusdToUst1(amount, rate, fee_bps)
  IN  /\ amount <= vfdusd[user]
      /\ ~window_paused
      /\ OracleUsable
      /\ DepositFits(amount, rate, fee_bps)
      /\ ust1_out > 0
      /\ WithinLimits(clock, window_start, volume, ust1_out, per_tx_limit, rolling_limit)
      /\ FitsU128(ust1_supply + ust1_out)

WithdrawGuard(user, gross, min_vfdusd_out) ==
  LET v_out == WithdrawGrossUst1ToVfdusd(gross, rate, fee_bps)
  IN  /\ gross <= ust1[user]
      /\ ~window_paused
      /\ OracleUsable
      /\ WithdrawFits(gross, rate, fee_bps)
      /\ v_out > 0
      /\ v_out >= min_vfdusd_out
      /\ v_out <= treasury_vfdusd
      /\ WithinLimits(clock, window_start, volume, gross, per_tx_limit, rolling_limit)

(* A call returns no error exactly when its handler takes it: every check    *)
(* that names an error is one the action makes, and it makes no other.  The  *)
(* overflow check of ensure_limits refuses nothing that the rolling limit    *)
(* would let through.  A Send is of whatever token with whatever hook.       *)
RefusedForCause ==
  /\ \A sender \in Addr, new \in Rates :
       UpdateRateError(sender, new) = "Ok" <=> UpdateGuard(sender, new)
  /\ \A user \in Users, amount \in Amounts, min_out \in Amounts : \A token, hook :
       SendError(user, token, amount, hook, min_out) = "Ok"
         <=> \/ token = "vfdusd" /\ hook = "Deposit" /\ DepositGuard(user, amount)
             \/ token = "ust1" /\ hook = "Withdraw" /\ WithdrawGuard(user, amount, min_out)
  /\ \A sender \in Addr, fee \in Fees :
       GovernanceError(sender, window_governance, fee <= BpsDenom, "InvalidFeeBps") = "Ok"
         <=> fee <= BpsDenom /\ sender = window_governance
  /\ \A sender \in Addr, max_age \in MaxAges :
       GovernanceError(sender, window_governance, ValidMaxAge(max_age), "MaxOracleAgeTooShort") = "Ok"
         <=> ValidMaxAge(max_age) /\ sender = window_governance
  /\ \A sender \in Addr :
       /\ AcceptError(sender, oracle_pending) = "Ok"
            <=> oracle_pending # NoAddr /\ sender = oracle_pending
       /\ AcceptError(sender, window_pending) = "Ok"
            <=> window_pending # NoAddr /\ sender = window_pending

(* The guards are the actions' own: what is left of an update or of a swap   *)
(* assigns every variable and asks nothing.                                  *)
LEMMA GuardsAreTheActions ==
  /\ \A sender, new :
       UpdateRate(sender, new)
         <=> /\ UpdateGuard(sender, new)
             /\ StoreRate(new)
             /\ UNCHANGED <<clock, oracle_paused, oracle_operator, oracle_gov_vars>>
  /\ \A user, amount :
       LET out == DepositVfdusdToUst1(amount, rate, fee_bps)
       IN  Deposit(user, amount)
             <=> /\ DepositGuard(user, amount)
                 /\ window_start' = WindowStartAfter(clock, window_start)
                 /\ volume' = CarriedVolume(clock, window_start, volume) + out
                 /\ vfdusd' = [vfdusd EXCEPT ![user] = @ - amount]
                 /\ treasury_vfdusd' = treasury_vfdusd + amount
                 /\ ust1' = [ust1 EXCEPT ![user] = @ + out]
                 /\ ust1_supply' = ust1_supply + out
                 /\ UNCHANGED <<clock, oracle_vars, config_vars, window_gov_vars>>
  /\ \A user, gross, min_out :
       LET v_out == WithdrawGrossUst1ToVfdusd(gross, rate, fee_bps)
       IN  Withdraw(user, gross, min_out)
             <=> /\ WithdrawGuard(user, gross, min_out)
                 /\ window_start' = WindowStartAfter(clock, window_start)
                 /\ volume' = CarriedVolume(clock, window_start, volume) + gross
                 /\ ust1' = [ust1 EXCEPT ![user] = @ - gross]
                 /\ ust1_supply' = ust1_supply - gross
                 /\ treasury_vfdusd' = treasury_vfdusd - v_out
                 /\ vfdusd' = [vfdusd EXCEPT ![user] = @ + v_out]
                 /\ UNCHANGED <<clock, oracle_vars, config_vars, window_gov_vars>>
<1>1. \A sender, new :
        UpdateRate(sender, new)
          <=> /\ UpdateGuard(sender, new)
              /\ StoreRate(new)
              /\ UNCHANGED <<clock, oracle_paused, oracle_operator, oracle_gov_vars>>
  BY Zenon DEF UpdateRate, UpdateGuard
<1>2. QED
  BY <1>1, Zenon DEF Deposit, Withdraw, DepositGuard, WithdrawGuard, EnsureLimits

(* A rate update is refused by the pause, the sender or check_rate_update. *)
LEMMA UpdateRefused ==
  ASSUME NEW sender \in Addr, NEW new \in Rates
  PROVE  UpdateRateError(sender, new) = "Ok" <=> UpdateGuard(sender, new)
<1> DEFINE b == RolledBaseline(clock, utc_day, baseline, rate)
           running == ~oracle_paused
           operator == sender = oracle_operator
           positive == new > 0
           early == ~Throttled(clock, last_update)
           above == new >= rate
           below == last_update = 0 \/ (DailyCapFits(b) /\ new <= MaxRateAfterDailyCap(b))
           checks == << <<running, "Paused">>, <<operator, "Unauthorized">>,
                        <<positive, "ZeroRate">>, <<early, "UpdateTooSoon">>,
                        <<above, "RateDecreased">>, <<below, "DailyCapExceeded">> >>
<1>1. /\ running \in BOOLEAN /\ operator \in BOOLEAN /\ positive \in BOOLEAN
      /\ early \in BOOLEAN /\ above \in BOOLEAN /\ below \in BOOLEAN
  OBVIOUS
<1>2. UpdateRateError(sender, new) = FirstError(checks)
  BY Zenon DEF UpdateRateError
<1>3. UpdateGuard(sender, new) <=> running /\ operator /\ positive /\ early /\ above /\ below
  BY Zenon DEF UpdateGuard, CheckRateUpdate
<1>4. /\ "Paused" \in CallErrors /\ "Unauthorized" \in CallErrors
      /\ "ZeroRate" \in CallErrors /\ "UpdateTooSoon" \in CallErrors
      /\ "RateDecreased" \in CallErrors /\ "DailyCapExceeded" \in CallErrors
  BY DEF CallErrors
<1> HIDE DEF running, operator, positive, early, above, below
<1>5. /\ checks \in Checks
      /\ Passes(checks) <=> running /\ operator /\ positive /\ early /\ above /\ below
  BY <1>1, <1>4 DEF Checks, Passes
<1>6. QED
  BY <1>2, <1>3, <1>5, OkWhenAllPass, Zenon

(* The oracle's checks, the same on both legs. *)
LEMMA OracleRefused == OracleChecks \in Checks /\ (Passes(OracleChecks) <=> OracleUsable)
<1> DEFINE running == ~oracle_paused
           checks == << <<running, "OraclePaused">>, <<OracleFresh, "OracleStale">> >>
<1>1. running \in BOOLEAN /\ OracleFresh \in BOOLEAN
  BY DEF OracleFresh
<1>2. "OraclePaused" \in CallErrors /\ "OracleStale" \in CallErrors
  BY DEF CallErrors
<1>3. OracleUsable <=> running /\ OracleFresh
  BY Zenon DEF OracleUsable, OracleFresh
<1>4. OracleChecks = checks
  BY Zenon DEF OracleChecks
<1> HIDE DEF running
<1>5. checks \in Checks /\ (Passes(checks) <=> running /\ OracleFresh)
  BY <1>1, <1>2 DEF Checks, Passes
<1>6. QED
  BY <1>3, <1>4, <1>5, Zenon

(* The limits': a volume within the rolling limit fits Uint128. *)
LEMMA LimitsRefused ==
  ASSUME TypeInv, NEW n \in Nat
  PROVE  /\ LimitChecks(n) \in Checks
         /\ Passes(LimitChecks(n))
              <=> WithinLimits(clock, window_start, volume, n, per_tx_limit, rolling_limit)
<1> DEFINE next == CarriedVolume(clock, window_start, volume) + n
           small == n <= per_tx_limit
           fits == FitsU128(next)
           within == next <= rolling_limit
           checks == << <<small, "PerTxLimit">>, <<fits, "Overflow">>, <<within, "RollingLimit">> >>
<1>1. small \in BOOLEAN /\ fits \in BOOLEAN /\ within \in BOOLEAN
  BY DEF FitsU128
<1>2. "PerTxLimit" \in CallErrors /\ "Overflow" \in CallErrors /\ "RollingLimit" \in CallErrors
  BY DEF CallErrors
<1>3. within => fits
  <2>1. /\ volume \in Nat /\ rolling_limit \in Nat /\ rolling_limit <= MaxU128 /\ MaxU128 \in Nat
    BY CommonAssumption DEF TypeInv, TypeOK
  <2>2. CarriedVolume(clock, window_start, volume) \in Nat
    BY <2>1 DEF CarriedVolume
  <2>3. QED
    BY <2>1, <2>2 DEF FitsU128
<1>4. WithinLimits(clock, window_start, volume, n, per_tx_limit, rolling_limit) <=> small /\ within
  BY Zenon DEF WithinLimits
<1>5. LimitChecks(n) = checks
  BY Zenon DEF LimitChecks
<1> HIDE DEF small, fits, within
<1>6. checks \in Checks /\ (Passes(checks) <=> small /\ fits /\ within)
  BY <1>1, <1>2 DEF Checks, Passes
<1>7. QED
  BY <1>3, <1>4, <1>5, <1>6, Zenon

(* What a CW20 Send meets before the handler: the token's balance, the       *)
(* window's pause and the hook.                                              *)
LEMMA SendRefused ==
  ASSUME NEW hold \in BOOLEAN, NEW hook \in BOOLEAN
  PROVE  LET checks == << <<hold, "InsufficientFunds">>, <<~window_paused, "Paused">>,
                          <<hook, "InvalidCw20Hook">> >>
         IN  checks \in Checks /\ (Passes(checks) <=> hold /\ ~window_paused /\ hook)
<1> DEFINE open == ~window_paused
           checks == << <<hold, "InsufficientFunds">>, <<open, "Paused">>,
                        <<hook, "InvalidCw20Hook">> >>
<1>1. open \in BOOLEAN
  OBVIOUS
<1>2. /\ "InsufficientFunds" \in CallErrors /\ "Paused" \in CallErrors
      /\ "InvalidCw20Hook" \in CallErrors
  BY DEF CallErrors
<1> HIDE DEF open
<1>3. checks \in Checks /\ (Passes(checks) <=> hold /\ open /\ hook)
  BY <1>1, <1>2 DEF Checks, Passes
<1>4. QED
  BY <1>3, Zenon DEF open

(* A Send of anything but UST1 is taken for a deposit, and only vFDUSD's is one. *)
LEMMA DepositRefused ==
  ASSUME TypeInv, NEW user \in Users, NEW amount \in Amounts, NEW min_out \in Amounts,
         NEW token, NEW word, token # "ust1"
  PROVE  SendError(user, token, amount, word, min_out) = "Ok"
           <=> token = "vfdusd" /\ word = "Deposit" /\ DepositGuard(user, amount)
<1> DEFINE out == DepositVfdusdToUst1(amount, rate, fee_bps)
           hold == amount <= Held(user, token)
           hook == <<token, word>> \in {<<"vfdusd", "Deposit">>, <<"ust1", "Withdraw">>}
           fits == DepositFits(amount, rate, fee_bps)
           positive == out > 0
           mints == FitsU128(ust1_supply + out)
           sent == << <<hold, "InsufficientFunds">>, <<~window_paused, "Paused">>,
                      <<hook, "InvalidCw20Hook">> >>
           priced == << <<fits, "Math">>, <<positive, "ZeroOutput">> >>
           minted == << <<mints, "Overflow">> >>
           limits == LimitChecks(out)
<1>1. /\ hold \in BOOLEAN /\ fits \in BOOLEAN /\ positive \in BOOLEAN /\ mints \in BOOLEAN
      /\ hook \in BOOLEAN /\ (hook <=> token = "vfdusd" /\ word = "Deposit")
  BY DEF DepositFits, FitsU128
<1>2. "Math" \in CallErrors /\ "ZeroOutput" \in CallErrors /\ "Overflow" \in CallErrors
  BY DEF CallErrors
<1>3. out \in Nat
  <2>1. amount \in Nat /\ rate \in Nat /\ fee_bps \in 0..BpsDenom
    BY WindowAssumption, CommonAssumption DEF TypeInv, TypeOK, OracleTypeOK
  <2>2. QED
    BY <2>1, DepositBelowValue
<1>4. token = "vfdusd" => Held(user, token) = vfdusd[user]
  BY DEF Held
<1>5. SendError(user, token, amount, word, min_out)
        = FirstError((sent \o OracleChecks) \o ((priced \o limits) \o minted))
  BY Zenon DEF SendError, DepositChecks
<1>6. token = "vfdusd" =>
        (DepositGuard(user, amount)
           <=> /\ hold /\ ~window_paused /\ OracleUsable /\ fits /\ positive
               /\ WithinLimits(clock, window_start, volume, out, per_tx_limit, rolling_limit)
               /\ mints)
  BY <1>4, Zenon DEF DepositGuard
<1> HIDE DEF out, hold, hook, fits, positive, mints
<1>7. sent \in Checks /\ (Passes(sent) <=> hold /\ ~window_paused /\ hook)
  BY <1>1, SendRefused
<1>8. priced \in Checks /\ (Passes(priced) <=> fits /\ positive)
  BY <1>1, <1>2 DEF Checks, Passes
<1>9. minted \in Checks /\ (Passes(minted) <=> mints)
  BY <1>1, <1>2 DEF Checks, Passes
<1>10. /\ limits \in Checks
       /\ Passes(limits)
            <=> WithinLimits(clock, window_start, volume, out, per_tx_limit, rolling_limit)
  BY <1>3, LimitsRefused
<1> HIDE DEF sent, priced, minted, limits
<1>11. sent \o OracleChecks \in Checks /\ (Passes(sent \o OracleChecks) <=> Passes(sent) /\ OracleUsable)
  BY <1>7, OracleRefused, ChecksJoined, Zenon
<1>12. priced \o limits \in Checks /\ (Passes(priced \o limits) <=> Passes(priced) /\ Passes(limits))
  BY <1>8, <1>10, ChecksJoined, Zenon
<1>13. /\ (priced \o limits) \o minted \in Checks
       /\ Passes((priced \o limits) \o minted) <=> Passes(priced \o limits) /\ Passes(minted)
  BY <1>9, <1>12, ChecksJoined, Zenon
<1>14. /\ (sent \o OracleChecks) \o ((priced \o limits) \o minted) \in Checks
       /\ Passes((sent \o OracleChecks) \o ((priced \o limits) \o minted))
            <=> Passes(sent \o OracleChecks) /\ Passes((priced \o limits) \o minted)
  BY <1>11, <1>13, ChecksJoined, Zenon
<1>15. FirstError((sent \o OracleChecks) \o ((priced \o limits) \o minted)) = "Ok"
         <=> Passes((sent \o OracleChecks) \o ((priced \o limits) \o minted))
  BY <1>14, OkWhenAllPass, Zenon
<1>16. QED
  BY <1>1, <1>5, <1>6, <1>7, <1>8, <1>9, <1>10, <1>11, <1>12, <1>13, <1>14, <1>15, Zenon

(* A Send of UST1 is a withdrawal or nothing. *)
LEMMA WithdrawRefused ==
  ASSUME TypeInv, NEW user \in Users, NEW gross \in Amounts, NEW min_out \in Amounts, NEW word
  PROVE  SendError(user, "ust1", gross, word, min_out) = "Ok"
           <=> word = "Withdraw" /\ WithdrawGuard(user, gross, min_out)
<1> DEFINE v == WithdrawGrossUst1ToVfdusd(gross, rate, fee_bps)
           hold == gross <= Held(user, "ust1")
           hook == <<"ust1", word>> \in {<<"vfdusd", "Deposit">>, <<"ust1", "Withdraw">>}
           fits == WithdrawFits(gross, rate, fee_bps)
           positive == v > 0
           enough == v >= min_out
           covered == v <= treasury_vfdusd
           sent == << <<hold, "InsufficientFunds">>, <<~window_paused, "Paused">>,
                      <<hook, "InvalidCw20Hook">> >>
           priced == << <<fits, "Math">>, <<positive, "ZeroOutput">>,
                        <<enough, "BelowMinimum">>, <<covered, "InsufficientVfdusd">> >>
           limits == LimitChecks(gross)
<1>1. /\ hold \in BOOLEAN /\ fits \in BOOLEAN /\ positive \in BOOLEAN
      /\ enough \in BOOLEAN /\ covered \in BOOLEAN
      /\ hook \in BOOLEAN /\ (hook <=> word = "Withdraw")
  BY DEF WithdrawFits
<1>2. /\ "Math" \in CallErrors /\ "ZeroOutput" \in CallErrors
      /\ "BelowMinimum" \in CallErrors /\ "InsufficientVfdusd" \in CallErrors
  BY DEF CallErrors
<1>3. gross \in Nat
  BY WindowAssumption, CommonAssumption
<1>4. Held(user, "ust1") = ust1[user]
  BY DEF Held
<1>5. SendError(user, "ust1", gross, word, min_out)
        = FirstError((sent \o OracleChecks) \o (priced \o limits))
  BY Zenon DEF SendError, WithdrawChecks
<1>6. WithdrawGuard(user, gross, min_out)
        <=> /\ hold /\ ~window_paused /\ OracleUsable
            /\ fits /\ positive /\ enough /\ covered
            /\ WithinLimits(clock, window_start, volume, gross, per_tx_limit, rolling_limit)
  BY <1>4, Zenon DEF WithdrawGuard
<1> HIDE DEF v, hold, hook, fits, positive, enough, covered
<1>7. sent \in Checks /\ (Passes(sent) <=> hold /\ ~window_paused /\ hook)
  BY <1>1, SendRefused
<1>8. priced \in Checks /\ (Passes(priced) <=> fits /\ positive /\ enough /\ covered)
  BY <1>1, <1>2 DEF Checks, Passes
<1>9. /\ limits \in Checks
      /\ Passes(limits)
           <=> WithinLimits(clock, window_start, volume, gross, per_tx_limit, rolling_limit)
  BY <1>3, LimitsRefused
<1> HIDE DEF sent, priced, limits
<1>10. sent \o OracleChecks \in Checks /\ (Passes(sent \o OracleChecks) <=> Passes(sent) /\ OracleUsable)
  BY <1>7, OracleRefused, ChecksJoined, Zenon
<1>11. priced \o limits \in Checks /\ (Passes(priced \o limits) <=> Passes(priced) /\ Passes(limits))
  BY <1>8, <1>9, ChecksJoined, Zenon
<1>12. /\ (sent \o OracleChecks) \o (priced \o limits) \in Checks
       /\ Passes((sent \o OracleChecks) \o (priced \o limits))
            <=> Passes(sent \o OracleChecks) /\ Passes(priced \o limits)
  BY <1>10, <1>11, ChecksJoined, Zenon
<1>13. FirstError((sent \o OracleChecks) \o (priced \o limits)) = "Ok"
         <=> Passes((sent \o OracleChecks) \o (priced \o limits))
  BY <1>12, OkWhenAllPass, Zenon
<1>14. QED
  BY <1>1, <1>5, <1>6, <1>7, <1>8, <1>9, <1>10, <1>11, <1>12, <1>13, Zenon

(* A governance call that validates what it is given. *)
LEMMA GovernanceRefused ==
  ASSUME NEW sender, NEW governor, NEW valid \in BOOLEAN, NEW error \in CallErrors
  PROVE  GovernanceError(sender, governor, valid, error) = "Ok" <=> valid /\ sender = governor
<1> DEFINE office == sender = governor
           checks == << <<valid, error>>, <<office, "Unauthorized">> >>
<1>1. GovernanceError(sender, governor, valid, error) = FirstError(checks)
  BY Zenon DEF GovernanceError
<1>2. office \in BOOLEAN /\ "Unauthorized" \in CallErrors
  BY DEF CallErrors
<1> HIDE DEF office
<1>3. checks \in Checks /\ (Passes(checks) <=> valid /\ office)
  BY <1>2 DEF Checks, Passes
<1>4. QED
  BY <1>1, <1>3, OkWhenAllPass, Zenon DEF office

(* An acceptance. *)
LEMMA AcceptRefused ==
  ASSUME NEW sender, NEW proposed
  PROVE  AcceptError(sender, proposed) = "Ok" <=> proposed # NoAddr /\ sender = proposed
<1> DEFINE proposal == proposed # NoAddr
           invited == sender = proposed
           checks == << <<proposal, "NoPendingGovernance">>,
                        <<invited, "InvalidGovernanceProposal">> >>
<1>1. AcceptError(sender, proposed) = FirstError(checks)
  BY Zenon DEF AcceptError
<1>2. /\ proposal \in BOOLEAN /\ invited \in BOOLEAN
      /\ "NoPendingGovernance" \in CallErrors /\ "InvalidGovernanceProposal" \in CallErrors
  BY DEF CallErrors
<1> HIDE DEF proposal, invited
<1>3. checks \in Checks /\ (Passes(checks) <=> proposal /\ invited)
  BY <1>2 DEF Checks, Passes
<1>4. QED
  BY <1>1, <1>3, OkWhenAllPass, Zenon DEF proposal, invited

(* No call is refused without a cause, and none is taken against one.        *)
THEOREM RefusalsHaveTheirCause == Spec => []RefusedForCause
<1>1. TypeInv => RefusedForCause
  <2>1. SUFFICES ASSUME TypeInv PROVE RefusedForCause
    OBVIOUS
  <2>2. QED
    <3>1. ASSUME NEW user \in Users, NEW amount \in Amounts, NEW min_out \in Amounts,
                 NEW token, NEW hook
          PROVE  SendError(user, token, amount, hook, min_out) = "Ok"
                   <=> \/ token = "vfdusd" /\ hook = "Deposit" /\ DepositGuard(user, amount)
                       \/ token = "ust1" /\ hook = "Withdraw" /\ WithdrawGuard(user, amount, min_out)
      <4>1. CASE token = "ust1"
        BY <2>1, <4>1, WithdrawRefused
      <4>2. CASE token # "ust1"
        BY <2>1, <4>2, DepositRefused
      <4>3. QED
        BY <4>1, <4>2
    <3>2. \A fee \in Fees : (fee <= BpsDenom) \in BOOLEAN
      OBVIOUS
    <3>3. \A max_age \in MaxAges : ValidMaxAge(max_age) \in BOOLEAN
      BY DEF ValidMaxAge
    <3>4. "InvalidFeeBps" \in CallErrors /\ "MaxOracleAgeTooShort" \in CallErrors
      BY DEF CallErrors
    <3>5. ASSUME NEW sender \in Addr, NEW fee \in Fees
          PROVE  GovernanceError(sender, window_governance, fee <= BpsDenom, "InvalidFeeBps") = "Ok"
                   <=> fee <= BpsDenom /\ sender = window_governance
      <4> DEFINE valid == fee <= BpsDenom
      <4>1. valid \in BOOLEAN
        BY <3>2
      <4> HIDE DEF valid
      <4>2. GovernanceError(sender, window_governance, valid, "InvalidFeeBps") = "Ok"
              <=> valid /\ sender = window_governance
        BY <3>4, <4>1, GovernanceRefused
      <4>3. QED
        BY <4>2, Zenon DEF valid
    <3>6. ASSUME NEW sender \in Addr, NEW max_age \in MaxAges
          PROVE  GovernanceError(sender, window_governance, ValidMaxAge(max_age),
                                 "MaxOracleAgeTooShort") = "Ok"
                   <=> ValidMaxAge(max_age) /\ sender = window_governance
      <4> DEFINE valid == ValidMaxAge(max_age)
      <4>1. valid \in BOOLEAN
        BY <3>3
      <4> HIDE DEF valid
      <4>2. GovernanceError(sender, window_governance, valid, "MaxOracleAgeTooShort") = "Ok"
              <=> valid /\ sender = window_governance
        BY <3>4, <4>1, GovernanceRefused
      <4>3. QED
        BY <4>2, Zenon DEF valid
    <3>7. QED
      BY <3>1, <3>5, <3>6, UpdateRefused, AcceptRefused, Zenon DEF RefusedForCause
<1>2. TypeInv /\ [Next]_vars => TypeInv'
  BY TypeStep
<1>3. QED
  BY <1>1, <1>2, InitTypes, PTL DEF Spec

(* An error names a check that fails. *)
LEMMA ErrorOfACheck ==
  ASSUME NEW checks \in Checks
  PROVE  \/ FirstError(checks) = "Ok"
         \/ \E i \in DOMAIN checks : ~checks[i][1] /\ FirstError(checks) = checks[i][2]
<1> DEFINE failed == {i \in DOMAIN checks : ~checks[i][1]}
<1>1. CASE failed = {}
  BY <1>1 DEF FirstError
<1>2. CASE failed # {}
  <2>1. Len(checks) \in Nat /\ failed \in SUBSET (1..Len(checks))
    BY DEF Checks
  <2>2. FirstError(checks) = checks[Min(failed)][2]
    BY <1>2 DEF FirstError
  <2> HIDE DEF failed
  <2>3. Min(failed) \in failed
    BY <1>2, <2>1, LeastPosition
  <2>4. QED
    BY <2>2, <2>3 DEF failed
<1>3. QED
  BY <1>1, <1>2

(* Of a withdrawal's checks only one is about the treasury. *)
LEMMA ShortOfVfdusd ==
  ASSUME TypeInv, NEW user \in Users, NEW gross \in Amounts, NEW min_out \in Amounts,
         SendError(user, "ust1", gross, "Withdraw", min_out) = "InsufficientVfdusd"
  PROVE  /\ gross <= ust1[user]
         /\ ~(WithdrawGrossUst1ToVfdusd(gross, rate, fee_bps) <= treasury_vfdusd)
<1> DEFINE v == WithdrawGrossUst1ToVfdusd(gross, rate, fee_bps)
           error == "InsufficientVfdusd"
           hold == gross <= Held(user, "ust1")
           open == ~window_paused
           hook == <<"ust1", "Withdraw">> \in {<<"vfdusd", "Deposit">>, <<"ust1", "Withdraw">>}
           fits == WithdrawFits(gross, rate, fee_bps)
           positive == v > 0
           enough == v >= min_out
           covered == v <= treasury_vfdusd
           sent == << <<hold, "InsufficientFunds">>, <<open, "Paused">>, <<hook, "InvalidCw20Hook">> >>
           priced == << <<fits, "Math">>, <<positive, "ZeroOutput">>,
                        <<enough, "BelowMinimum">>, <<covered, "InsufficientVfdusd">> >>
           limits == LimitChecks(gross)
           oracle == OracleChecks
<1>1. /\ hold \in BOOLEAN /\ open \in BOOLEAN /\ hook \in BOOLEAN /\ fits \in BOOLEAN
      /\ positive \in BOOLEAN /\ enough \in BOOLEAN /\ covered \in BOOLEAN
  BY DEF WithdrawFits
<1>2. error = FirstError((sent \o oracle) \o (priced \o limits))
  BY Zenon DEF SendError, WithdrawChecks
<1>3. hold <=> gross <= ust1[user]
  BY DEF Held
<1>4. limits \in Checks /\ FirstError(limits) # error
  <2>1. gross \in Nat
    BY WindowAssumption, CommonAssumption
  <2>2. limits \in Checks
    BY <2>1, LimitsRefused
  <2>3. DOMAIN limits = 1..3 /\ \A i \in 1..3 : limits[i][2] # error
    BY DEF LimitChecks
  <2> HIDE DEF limits
  <2>4. QED
    BY <2>2, <2>3, ErrorOfACheck
<1>5. oracle \in Checks /\ FirstError(oracle) # error
  <2>1. DOMAIN oracle = 1..2 /\ \A i \in 1..2 : oracle[i][2] # error
    BY DEF OracleChecks
  <2> HIDE DEF oracle
  <2>2. QED
    BY <2>1, OracleRefused, ErrorOfACheck DEF oracle
<1> HIDE DEF v, hold, open, hook, fits, positive, enough, covered, limits, oracle
<1>6. sent \in Checks /\ FirstError(sent) # error /\ (Passes(sent) => hold)
  <2>1. "InsufficientFunds" \in CallErrors /\ "Paused" \in CallErrors /\ "InvalidCw20Hook" \in CallErrors
    BY DEF CallErrors
  <2>2. sent \in Checks
    BY <1>1, <2>1 DEF Checks
  <2>3. DOMAIN sent = 1..3 /\ (\A i \in 1..3 : sent[i][2] # error) /\ sent[1][1] = hold
    BY <1>1
  <2> HIDE DEF sent
  <2>4. QED
    BY <2>2, <2>3, ErrorOfACheck DEF Passes
<1>7. priced \in Checks /\ (FirstError(priced) = error => ~covered)
  <2>1. /\ "Math" \in CallErrors /\ "ZeroOutput" \in CallErrors
        /\ "BelowMinimum" \in CallErrors /\ "InsufficientVfdusd" \in CallErrors
    BY DEF CallErrors
  <2>2. priced \in Checks
    BY <1>1, <2>1 DEF Checks
  <2>3. /\ DOMAIN priced = 1..4 /\ \A i \in 1..3 : priced[i][2] # error
        /\ priced[4][1] = covered
    BY <1>1
  <2> HIDE DEF priced
  <2>4. QED
    BY <2>2, <2>3, ErrorOfACheck
<1> HIDE DEF sent, priced
<1>8. /\ sent \o oracle \in Checks /\ priced \o limits \in Checks
      /\ Passes(sent \o oracle) => Passes(sent)
  BY <1>4, <1>5, <1>6, <1>7, ChecksJoined
<1>9. FirstError(sent \o oracle) # error
  BY <1>5, <1>6, ErrorsJoined
<1>10. Passes(sent \o oracle) /\ FirstError(priced \o limits) = error
  BY <1>2, <1>8, <1>9, ErrorsJoined
<1>11. FirstError(priced) = error
  BY <1>4, <1>7, <1>10, ErrorsJoined
<1>12. QED
  BY <1>3, <1>6, <1>7, <1>8, <1>10, <1>11 DEF v, covered

(* No holder ever finds the treasury short: what it sends is UST1 that it    *)
(* has, so part of the supply, and the supply is redeemable.                 *)
THEOREM NoHolderFindsItShort == Spec => []HoldersAreNeverShort
<1>1. TypeInv /\ Redeemable => HoldersAreNeverShort
  <2>1. SUFFICES ASSUME TypeInv, Redeemable, ~OpenCustody,
                        NEW user \in Users, NEW gross \in Amounts, NEW min_out \in Amounts,
                        SendError(user, "ust1", gross, "Withdraw", min_out) = "InsufficientVfdusd"
                 PROVE  FALSE
    BY DEF HoldersAreNeverShort
  <2>2. /\ gross <= ust1[user]
        /\ ~(WithdrawGrossUst1ToVfdusd(gross, rate, fee_bps) <= treasury_vfdusd)
    BY <2>1, ShortOfVfdusd
  <2>3. ust1 \in [Users -> Nat] /\ LedgerSum(Users, ust1, ust1_supply) /\ gross \in Nat
    BY <2>1, WindowAssumption, CommonAssumption DEF TypeInv, TypeOK
  <2>4. ust1_supply \in Nat /\ ust1[user] <= ust1_supply
    BY <2>3, LedgerBound
  <2>5. gross \in 0..ust1_supply
    BY <2>2, <2>3, <2>4
  <2>6. QED
    BY <2>1, <2>2, <2>5 DEF Redeemable
<1>2. TypeInv /\ [Next]_vars => TypeInv'
  BY TypeStep
<1>3. QED
  BY <1>1, <1>2, InitTypes, AlwaysRedeemable, PTL DEF Spec

-----------------------------------------------------------------------------
(* Swaps message by message (WindowTx).  The state of a running transaction  *)
(* is told by how far it has got: each stage below names the messages still  *)
(* queued and what the ones before them did to the state it began with.      *)

(* What outlives transactions and no message of one touches.                 *)
FrameInv ==
  /\ OracleTypeOK
  /\ PriceInv
  /\ fee_bps \in 0..BpsDenom
  /\ max_oracle_age \in Nat
  /\ max_oracle_age >= MinUpdateInterval

(* Scaled by RateScale: vFDUSD v is worth at least the UST1 u.               *)
Covers(v, u) == v * rate - u * RateScale >= 0

Idle ==
  /\ saved = NoTx /\ msgs = <<>>
  /\ treasury_vfdusd \in Nat /\ ust1_supply \in Int
  /\ window_vfdusd \in Int /\ window_ust1 \in Int
  /\ Covers(treasury_vfdusd, ust1_supply)

(* The state a transaction began with was one between transactions.          *)
SavedInv ==
  /\ saved.in_tx = TRUE
  /\ saved.treasury_vfdusd \in Nat /\ saved.ust1_supply \in Int
  /\ saved.window_vfdusd \in Int /\ saved.window_ust1 \in Int
  /\ Covers(saved.treasury_vfdusd, saved.ust1_supply)

SameRolling == window_start = saved.window_start /\ volume = saved.volume

RollingAfter(notional) ==
  /\ WithinLimits(clock, saved.window_start, saved.volume, notional, per_tx_limit, rolling_limit)
  /\ window_start = WindowStartAfter(clock, saved.window_start)
  /\ volume = CarriedVolume(clock, saved.window_start, saved.volume) + notional

(* A deposit: its vFDUSD is in the window from the first message on.         *)
DepositOut(amount) == DepositVfdusdToUst1(amount, rate, fee_bps)

DepositBegun(user, amount) ==
  /\ amount <= saved.vfdusd[user]
  /\ vfdusd = [saved.vfdusd EXCEPT ![user] = @ - amount]
  /\ window_ust1 = saved.window_ust1

DepositAccepted(amount) ==
  /\ ~window_paused
  /\ OracleUsable
  /\ DepositFits(amount, rate, fee_bps)
  /\ DepositOut(amount) > 0
  /\ RollingAfter(DepositOut(amount))

Unforwarded(amount) ==
  /\ window_vfdusd = saved.window_vfdusd + amount
  /\ treasury_vfdusd = saved.treasury_vfdusd

Unminted == ust1 = saved.ust1 /\ ust1_supply = saved.ust1_supply

Minted(user, amount) ==
  /\ FitsU128(saved.ust1_supply + DepositOut(amount))
  /\ ust1 = [saved.ust1 EXCEPT ![user] = @ + DepositOut(amount)]
  /\ ust1_supply = saved.ust1_supply + DepositOut(amount)

DepositSent(user, amount) ==
  /\ DepositBegun(user, amount) /\ SameRolling /\ Unforwarded(amount) /\ Unminted
  /\ \E hook \in Hook :
       msgs = <<[op |-> "receive_vfdusd", user |-> user, amount |-> amount, hook |-> hook]>>

DepositReceived(user, amount) ==
  /\ DepositBegun(user, amount) /\ DepositAccepted(amount) /\ Unforwarded(amount) /\ Unminted
  /\ msgs = <<[op |-> "mint", to |-> user, amount |-> DepositOut(amount)],
              [op |-> "transfer_vfdusd", amount |-> amount]>>

DepositMinted(user, amount) ==
  /\ DepositBegun(user, amount) /\ DepositAccepted(amount)
  /\ Unforwarded(amount) /\ Minted(user, amount)
  /\ msgs = <<[op |-> "transfer_vfdusd", amount |-> amount]>>

DepositDone(user, amount) ==
  /\ DepositBegun(user, amount) /\ DepositAccepted(amount) /\ Minted(user, amount)
  /\ window_vfdusd = saved.window_vfdusd
  /\ treasury_vfdusd = saved.treasury_vfdusd + amount
  /\ msgs = <<>>

(* A withdrawal: its UST1 is in the window until it is burned.               *)
WithdrawOut(gross) == WithdrawGrossUst1ToVfdusd(gross, rate, fee_bps)

WithdrawBegun(user, gross) ==
  /\ gross <= saved.ust1[user]
  /\ ust1 = [saved.ust1 EXCEPT ![user] = @ - gross]
  /\ window_vfdusd = saved.window_vfdusd

WithdrawAccepted(gross) ==
  /\ ~window_paused
  /\ OracleUsable
  /\ WithdrawFits(gross, rate, fee_bps)
  /\ WithdrawOut(gross) > 0
  /\ \E min_out \in Amounts : WithdrawOut(gross) >= min_out
  /\ WithdrawOut(gross) <= saved.treasury_vfdusd
  /\ RollingAfter(gross)

Unpulled == treasury_vfdusd = saved.treasury_vfdusd /\ vfdusd = saved.vfdusd

Unburned(gross) ==
  /\ window_ust1 = saved.window_ust1 + gross
  /\ ust1_supply = saved.ust1_supply

Burned(gross) ==
  /\ window_ust1 = saved.window_ust1
  /\ ust1_supply = saved.ust1_supply - gross

WithdrawSent(user, gross) ==
  /\ WithdrawBegun(user, gross) /\ SameRolling /\ Unpulled /\ Unburned(gross)
  /\ \E hook \in Hook :
       msgs = <<[op |-> "receive_ust1", user |-> user, amount |-> gross, hook |-> hook]>>

WithdrawReceived(user, gross) ==
  /\ WithdrawBegun(user, gross) /\ WithdrawAccepted(gross) /\ Unpulled /\ Unburned(gross)
  /\ msgs = <<[op |-> "burn", amount |-> gross],
              [op |-> "instant_withdraw", to |-> user, amount |-> WithdrawOut(gross)]>>

WithdrawBurned(user, gross) ==
  /\ WithdrawBegun(user, gross) /\ WithdrawAccepted(gross) /\ Unpulled /\ Burned(gross)
  /\ msgs = <<[op |-> "instant_withdraw", to |-> user, amount |-> WithdrawOut(gross)]>>

WithdrawDone(user, gross) ==
  /\ WithdrawBegun(user, gross) /\ WithdrawAccepted(gross) /\ Burned(gross)
  /\ treasury_vfdusd = saved.treasury_vfdusd - WithdrawOut(gross)
  /\ vfdusd = [saved.vfdusd EXCEPT ![user] = @ + WithdrawOut(gross)]
  /\ msgs = <<>>

Stage ==
  \E user \in Users, amount \in Amounts :
    \/ DepositSent(user, amount) \/ DepositReceived(user, amount)
    \/ DepositMinted(user, amount) \/ DepositDone(user, amount)
    \/ WithdrawSent(user, amount) \/ WithdrawReceived(user, amount)
    \/ WithdrawBurned(user, amount) \/ WithdrawDone(user, amount)

TxInv ==
  /\ FrameInv
  /\ Idle \/ (SavedInv /\ Stage)

-----------------------------------------------------------------------------
(* The queue of messages.                                                    *)
LEMMA OneMessage ==
  ASSUME NEW m
  PROVE  <<m>> # <<>> /\ Head(<<m>>) = m /\ Tail(<<m>>) = <<>>
OBVIOUS

LEMMA TwoMessages ==
  ASSUME NEW m, NEW n
  PROVE  /\ <<m, n>> # <<>> /\ Head(<<m, n>>) = m /\ Tail(<<m, n>>) = <<n>>
         /\ <<m, n>> \o <<>> = <<m, n>>
OBVIOUS

(* The first message of the queue decides which handler runs.                *)
LEMMA ExecuteCases ==
  ASSUME Execute
  PROVE  \/ Abort
         \/ Commit /\ msgs = <<>>
         \/ ReceiveVfdusd /\ msgs # <<>> /\ Head(msgs).op = "receive_vfdusd"
         \/ ReceiveUst1 /\ msgs # <<>> /\ Head(msgs).op = "receive_ust1"
         \/ Mint /\ msgs # <<>> /\ Head(msgs).op = "mint"
         \/ TransferVfdusd /\ msgs # <<>> /\ Head(msgs).op = "transfer_vfdusd"
         \/ Burn /\ msgs # <<>> /\ Head(msgs).op = "burn"
         \/ InstantWithdraw /\ msgs # <<>> /\ Head(msgs).op = "instant_withdraw"
BY DEF Execute, Commit, ReceiveVfdusd, ReceiveUst1, Mint, TransferVfdusd, Burn,
   InstantWithdraw, Running

LEMMA FrameKept ==
  ASSUME FrameInv, UNCHANGED frame_vars
  PROVE  FrameInv'
BY DEF FrameInv, frame_vars, oracle_vars, price_vars, oracle_gov_vars, config_vars,
   OracleTypeOK, OracleGov!TypeOK, PriceInv

LEMMA SavedKept ==
  ASSUME SavedInv, UNCHANGED <<frame_vars, saved>>
  PROVE  SavedInv'
BY DEF SavedInv, Covers, frame_vars, oracle_vars, price_vars

(* What a handler checked still holds for the messages it queued.            *)
LEMMA AcceptedKept ==
  ASSUME UNCHANGED <<frame_vars, saved, rolling_vars>>, NEW amount
  PROVE  /\ DepositOut(amount)' = DepositOut(amount)
         /\ WithdrawOut(amount)' = WithdrawOut(amount)
         /\ DepositAccepted(amount) => DepositAccepted(amount)'
         /\ WithdrawAccepted(amount) => WithdrawAccepted(amount)'
<1> USE DEF frame_vars, oracle_vars, price_vars, config_vars, rolling_vars
<1>1. /\ DepositOut(amount)' = DepositOut(amount)
      /\ WithdrawOut(amount)' = WithdrawOut(amount)
  BY DEF DepositOut, WithdrawOut
<1>2. /\ RollingAfter(DepositOut(amount)) => RollingAfter(DepositOut(amount))'
      /\ RollingAfter(amount) => RollingAfter(amount)'
  BY <1>1 DEF RollingAfter
<1>3. OracleUsable => OracleUsable'
  BY DEF OracleUsable
<1>4. QED
  BY <1>1, <1>2, <1>3 DEF DepositAccepted, WithdrawAccepted

(* A step of a running transaction that is not its last takes it one stage   *)
(* further, and touches nothing else.                                        *)
LEMMA DepositSentStep ==
  ASSUME NEW user \in Users, NEW amount \in Amounts, DepositSent(user, amount),
         Execute, ~Abort
  PROVE  UNCHANGED <<frame_vars, saved>> /\ DepositReceived(user, amount)'
<1>1. PICK hook \in Hook :
        msgs = <<[op |-> "receive_vfdusd", user |-> user, amount |-> amount, hook |-> hook]>>
  BY DEF DepositSent
<1>2. /\ msgs # <<>> /\ Tail(msgs) = <<>>
      /\ Head(msgs) = [op |-> "receive_vfdusd", user |-> user, amount |-> amount, hook |-> hook]
  BY <1>1, OneMessage
<1>3. /\ Head(msgs).op = "receive_vfdusd"
      /\ Head(msgs).user = user /\ Head(msgs).amount = amount
  BY <1>2
<1>4. ReceiveVfdusd
  BY <1>2, <1>3, ExecuteCases
<1>5. /\ UNCHANGED <<frame_vars, saved, ledger_vars, window_vfdusd, window_ust1>>
      /\ ~window_paused /\ OracleUsable /\ DepositFits(amount, rate, fee_bps)
      /\ DepositOut(amount) > 0 /\ EnsureLimits(DepositOut(amount))
      /\ msgs' = DepositMsgs(user, amount, DepositOut(amount)) \o <<>>
  BY <1>2, <1>3, <1>4 DEF ReceiveVfdusd, Respond, DepositOut
<1>6. DepositOut(amount)' = DepositOut(amount)
  BY <1>5 DEF DepositOut, frame_vars, oracle_vars, price_vars, config_vars
<1>7. DepositAccepted(amount)'
  BY <1>5, <1>6 DEF DepositAccepted, DepositSent, SameRolling, RollingAfter, EnsureLimits,
     OracleUsable, frame_vars, oracle_vars, price_vars, config_vars
<1>8. msgs' = <<[op |-> "mint", to |-> user, amount |-> DepositOut(amount)],
                [op |-> "transfer_vfdusd", amount |-> amount]>>
  BY <1>5, TwoMessages DEF DepositMsgs
<1>9. (DepositBegun(user, amount) /\ Unforwarded(amount) /\ Unminted)'
  BY <1>5 DEF DepositSent, DepositBegun, Unforwarded, Unminted, ledger_vars
<1>10. QED
  BY <1>5, <1>6, <1>7, <1>8, <1>9 DEF DepositReceived

LEMMA DepositReceivedStep ==
  ASSUME NEW user \in Users, NEW amount \in Amounts, DepositReceived(user, amount),
         Execute, ~Abort
  PROVE  UNCHANGED <<frame_vars, saved>> /\ DepositMinted(user, amount)'
<1>1. /\ msgs # <<>> /\ Tail(msgs) = <<[op |-> "transfer_vfdusd", amount |-> amount]>>
      /\ Head(msgs) = [op |-> "mint", to |-> user, amount |-> DepositOut(amount)]
  BY TwoMessages DEF DepositReceived
<1>2. /\ Head(msgs).op = "mint"
      /\ Head(msgs).to = user /\ Head(msgs).amount = DepositOut(amount)
  BY <1>1
<1>3. Mint
  BY <1>1, <1>2, ExecuteCases
<1>4. /\ UNCHANGED <<frame_vars, saved, rolling_vars, vfdusd, treasury_vfdusd,
                     window_vfdusd, window_ust1>>
      /\ FitsU128(ust1_supply + DepositOut(amount))
      /\ ust1' = [ust1 EXCEPT ![user] = @ + DepositOut(amount)]
      /\ ust1_supply' = ust1_supply + DepositOut(amount)
      /\ msgs' = Tail(msgs)
  BY <1>2, <1>3 DEF Mint
<1>5. DepositAccepted(amount)' /\ DepositOut(amount)' = DepositOut(amount)
  BY <1>4, AcceptedKept DEF DepositReceived
<1>6. (DepositBegun(user, amount) /\ Unforwarded(amount))'
  BY <1>4 DEF DepositReceived, DepositBegun, Unforwarded
<1>7. Minted(user, amount)'
  BY <1>4, <1>5 DEF DepositReceived, Unminted, Minted, FitsU128
<1>8. QED
  BY <1>1, <1>4, <1>5, <1>6, <1>7 DEF DepositMinted

LEMMA DepositMintedStep ==
  ASSUME SavedInv, NEW user \in Users, NEW amount \in Amounts, DepositMinted(user, amount),
         Execute, ~Abort
  PROVE  UNCHANGED <<frame_vars, saved>> /\ DepositDone(user, amount)'
<1>1. /\ msgs # <<>> /\ Tail(msgs) = <<>>
      /\ Head(msgs) = [op |-> "transfer_vfdusd", amount |-> amount]
  BY OneMessage DEF DepositMinted
<1>2. Head(msgs).op = "transfer_vfdusd" /\ Head(msgs).amount = amount
  BY <1>1
<1>3. TransferVfdusd
  BY <1>1, <1>2, ExecuteCases
<1>4. /\ UNCHANGED <<frame_vars, saved, rolling_vars, vfdusd, ust1, ust1_supply, window_ust1>>
      /\ window_vfdusd' = window_vfdusd - amount
      /\ treasury_vfdusd' = treasury_vfdusd + amount
      /\ msgs' = Tail(msgs)
  BY <1>2, <1>3 DEF TransferVfdusd
<1>5. DepositAccepted(amount)' /\ DepositOut(amount)' = DepositOut(amount)
  BY <1>4, AcceptedKept DEF DepositMinted
<1>6. DepositBegun(user, amount)' /\ Minted(user, amount)'
  BY <1>4, <1>5 DEF DepositMinted, DepositBegun, Minted
<1>7. /\ window_vfdusd' = saved'.window_vfdusd
      /\ treasury_vfdusd' = saved'.treasury_vfdusd + amount
  BY <1>4, WindowAssumption, CommonAssumption DEF DepositMinted, Unforwarded, SavedInv
<1>8. QED
  BY <1>1, <1>4, <1>5, <1>6, <1>7 DEF DepositDone

LEMMA WithdrawSentStep ==
  ASSUME NEW user \in Users, NEW gross \in Amounts, WithdrawSent(user, gross),
         Execute, ~Abort
  PROVE  UNCHANGED <<frame_vars, saved>> /\ WithdrawReceived(user, gross)'
<1>1. PICK hook \in Hook :
        msgs = <<[op |-> "receive_ust1", user |-> user, amount |-> gross, hook |-> hook]>>
  BY DEF WithdrawSent
<1>2. /\ msgs # <<>> /\ Tail(msgs) = <<>>
      /\ Head(msgs) = [op |-> "receive_ust1", user |-> user, amount |-> gross, hook |-> hook]
  BY <1>1, OneMessage
<1>3. /\ Head(msgs).op = "receive_ust1"
      /\ Head(msgs).user = user /\ Head(msgs).amount = gross /\ Head(msgs).hook = hook
  BY <1>2
<1>4. ReceiveUst1
  BY <1>2, <1>3, ExecuteCases
<1>5. /\ UNCHANGED <<frame_vars, saved, ledger_vars, window_vfdusd, window_ust1>>
      /\ ~window_paused /\ hook.hook = "withdraw" /\ OracleUsable
      /\ WithdrawFits(gross, rate, fee_bps)
      /\ WithdrawOut(gross) > 0 /\ WithdrawOut(gross) >= hook.min_vfdusd_out
      /\ WithdrawOut(gross) <= treasury_vfdusd
      /\ EnsureLimits(gross)
      /\ msgs' = WithdrawMsgs(user, gross, WithdrawOut(gross)) \o <<>>
  BY <1>2, <1>3, <1>4 DEF ReceiveUst1, Respond, WithdrawOut
<1>6. WithdrawOut(gross)' = WithdrawOut(gross)
  BY <1>5 DEF WithdrawOut, frame_vars, oracle_vars, price_vars, config_vars
<1>7. \E min_out \in Amounts : WithdrawOut(gross) >= min_out
  BY <1>5 DEF Hook
<1>8. RollingAfter(gross)'
  BY <1>5 DEF WithdrawSent, SameRolling, RollingAfter, EnsureLimits, frame_vars, config_vars
<1>9. WithdrawAccepted(gross)'
  BY <1>5, <1>6, <1>7, <1>8 DEF WithdrawAccepted, WithdrawSent, Unpulled, OracleUsable,
     frame_vars, oracle_vars, price_vars, config_vars
<1>10. msgs' = <<[op |-> "burn", amount |-> gross],
                 [op |-> "instant_withdraw", to |-> user, amount |-> WithdrawOut(gross)]>>
  BY <1>5, TwoMessages DEF WithdrawMsgs
<1>11. (WithdrawBegun(user, gross) /\ Unpulled /\ Unburned(gross))'
  BY <1>5 DEF WithdrawSent, WithdrawBegun, Unpulled, Unburned, ledger_vars
<1>12. QED
  BY <1>5, <1>6, <1>9, <1>10, <1>11 DEF WithdrawReceived

LEMMA WithdrawReceivedStep ==
  ASSUME SavedInv, NEW user \in Users, NEW gross \in Amounts, WithdrawReceived(user, gross),
         Execute, ~Abort
  PROVE  UNCHANGED <<frame_vars, saved>> /\ WithdrawBurned(user, gross)'
<1>1. /\ msgs # <<>> /\ Head(msgs) = [op |-> "burn", amount |-> gross]
      /\ Tail(msgs) = <<[op |-> "instant_withdraw", to |-> user, amount |-> WithdrawOut(gross)]>>
  BY TwoMessages DEF WithdrawReceived
<1>2. Head(msgs).op = "burn" /\ Head(msgs).amount = gross
  BY <1>1
<1>3. Burn
  BY <1>1, <1>2, ExecuteCases
<1>4. /\ UNCHANGED <<frame_vars, saved, rolling_vars, vfdusd, treasury_vfdusd, ust1, window_vfdusd>>
      /\ window_ust1' = window_ust1 - gross
      /\ ust1_supply' = ust1_supply - gross
      /\ msgs' = Tail(msgs)
  BY <1>2, <1>3 DEF Burn
<1>5. WithdrawAccepted(gross)' /\ WithdrawOut(gross)' = WithdrawOut(gross)
  BY <1>4, AcceptedKept DEF WithdrawReceived
<1>6. (WithdrawBegun(user, gross) /\ Unpulled)'
  BY <1>4 DEF WithdrawReceived, WithdrawBegun, Unpulled
<1>7. Burned(gross)'
  BY <1>4, WindowAssumption, CommonAssumption DEF WithdrawReceived, Unburned, Burned, SavedInv
<1>8. QED
  BY <1>1, <1>4, <1>5, <1>6, <1>7 DEF WithdrawBurned

LEMMA WithdrawBurnedStep ==
  ASSUME NEW user \in Users, NEW gross \in Amounts, WithdrawBurned(user, gross),
         Execute, ~Abort
  PROVE  UNCHANGED <<frame_vars, saved>> /\ WithdrawDone(user, gross)'
<1>1. /\ msgs # <<>> /\ Tail(msgs) = <<>>
      /\ Head(msgs) = [op |-> "instant_withdraw", to |-> user, amount |-> WithdrawOut(gross)]
  BY OneMessage DEF WithdrawBurned
<1>2. /\ Head(msgs).op = "instant_withdraw"
      /\ Head(msgs).to = user /\ Head(msgs).amount = WithdrawOut(gross)
  BY <1>1
<1>3. InstantWithdraw
  BY <1>1, <1>2, ExecuteCases
<1>4. /\ UNCHANGED <<frame_vars, saved, rolling_vars, ust1, ust1_supply, window_vfdusd, window_ust1>>
      /\ treasury_vfdusd' = treasury_vfdusd - WithdrawOut(gross)
      /\ vfdusd' = [vfdusd EXCEPT ![user] = @ + WithdrawOut(gross)]
      /\ msgs' = Tail(msgs)
  BY <1>2, <1>3 DEF InstantWithdraw
<1>5. WithdrawAccepted(gross)' /\ WithdrawOut(gross)' = WithdrawOut(gross)
  BY <1>4, AcceptedKept DEF WithdrawBurned
<1>6. WithdrawBegun(user, gross)' /\ Burned(gross)'
  BY <1>4 DEF WithdrawBurned, WithdrawBegun, Burned
<1>7. QED
  BY <1>1, <1>4, <1>5, <1>6 DEF WithdrawDone, WithdrawBurned, Unpulled

(* While messages are queued, none but Abort ends the transaction.           *)
LEMMA StageStep ==
  ASSUME SavedInv, Stage, Execute, ~Abort, ~Commit
  PROVE  UNCHANGED <<frame_vars, saved>> /\ Stage'
<1>1. PICK user \in Users, amount \in Amounts :
        \/ DepositSent(user, amount) \/ DepositReceived(user, amount)
        \/ DepositMinted(user, amount) \/ DepositDone(user, amount)
        \/ WithdrawSent(user, amount) \/ WithdrawReceived(user, amount)
        \/ WithdrawBurned(user, amount) \/ WithdrawDone(user, amount)
  BY DEF Stage
<1>2. ~DepositDone(user, amount) /\ ~WithdrawDone(user, amount)
  BY ExecuteCases DEF DepositDone, WithdrawDone
<1>3. /\ UNCHANGED <<frame_vars, saved>>
      /\ \/ DepositReceived(user, amount)' \/ DepositMinted(user, amount)'
         \/ DepositDone(user, amount)'
         \/ WithdrawReceived(user, amount)' \/ WithdrawBurned(user, amount)'
         \/ WithdrawDone(user, amount)'
  BY <1>1, <1>2, DepositSentStep, DepositReceivedStep, DepositMintedStep,
     WithdrawSentStep, WithdrawReceivedStep, WithdrawBurnedStep
<1>4. QED
  BY <1>3 DEF Stage

-----------------------------------------------------------------------------
(* A stage never leaves the outstanding UST1 uncovered.                      *)
LEMMA DepositCovered ==
  ASSUME FrameInv, NEW amount \in Amounts, NEW t \in Nat, NEW s \in Int, Covers(t, s)
  PROVE  /\ amount \in Nat /\ DepositOut(amount) \in Nat
         /\ Covers(t + amount, s)
         /\ Covers(t + amount, s + DepositOut(amount))
<1> DEFINE out == DepositOut(amount)
<1>1. amount \in Nat /\ rate \in Nat \ {0} /\ fee_bps \in 0..BpsDenom
  BY WindowAssumption, CommonAssumption DEF FrameInv, OracleTypeOK
<1>2. out \in Nat /\ out * RateScale <= amount * rate
  BY <1>1, DepositBelowValue DEF DepositOut
<1> HIDE DEF out
<1>3. (t + amount) * rate = t * rate + amount * rate
  BY <1>1, SMT
<1>4. (s + out) * RateScale = s * RateScale + out * RateScale
  BY <1>2, CommonAssumption, SMT
<1>5. amount * rate >= 0
  BY <1>1, Z3
<1>6. /\ t * rate \in Int /\ amount * rate \in Int /\ s * RateScale \in Int
      /\ out * RateScale \in Int
  BY <1>1, <1>2, CommonAssumption
<1>7. Covers(t + amount, s) /\ Covers(t + amount, s + out)
  BY <1>2, <1>3, <1>4, <1>5, <1>6 DEF Covers
<1>8. QED
  BY <1>1, <1>2, <1>7 DEF out

LEMMA WithdrawCovered ==
  ASSUME FrameInv, NEW gross \in Amounts, NEW t \in Nat, NEW s \in Int, Covers(t, s)
  PROVE  /\ gross \in Nat /\ WithdrawOut(gross) \in Nat
         /\ Covers(t, s - gross)
         /\ Covers(t - WithdrawOut(gross), s - gross)
<1> DEFINE v == WithdrawOut(gross)
<1>1. gross \in Nat /\ rate \in Nat \ {0} /\ fee_bps \in 0..BpsDenom
  BY WindowAssumption, CommonAssumption DEF FrameInv, OracleTypeOK
<1>2. v \in Nat /\ v * rate <= gross * RateScale
  BY <1>1, WithdrawBelowValue DEF WithdrawOut
<1> HIDE DEF v
<1>3. (t - v) * rate = t * rate - v * rate
  BY <1>1, <1>2, SMT
<1>4. (s - gross) * RateScale = s * RateScale - gross * RateScale
  BY <1>1, CommonAssumption, SMT
<1>5. gross * RateScale >= 0
  BY <1>1, CommonAssumption, Z3
<1>6. /\ t * rate \in Int /\ v * rate \in Int /\ s * RateScale \in Int
      /\ gross * RateScale \in Int
  BY <1>1, <1>2, CommonAssumption
<1>7. Covers(t, s - gross) /\ Covers(t - v, s - gross)
  BY <1>2, <1>3, <1>4, <1>5, <1>6 DEF Covers
<1>8. QED
  BY <1>1, <1>2, <1>7 DEF v

(* Where a transaction commits, it has done a whole swap.                    *)
LEMMA CommitCovered ==
  ASSUME FrameInv, SavedInv, Stage, msgs = <<>>
  PROVE  /\ treasury_vfdusd \in Nat /\ ust1_supply \in Int
         /\ window_vfdusd = saved.window_vfdusd /\ window_ust1 = saved.window_ust1
         /\ Covers(treasury_vfdusd, ust1_supply)
         /\ \E user \in Users, amount \in Amounts :
              DepositDone(user, amount) \/ WithdrawDone(user, amount)
<1>1. PICK user \in Users, amount \in Amounts :
        DepositDone(user, amount) \/ WithdrawDone(user, amount)
  BY OneMessage, TwoMessages DEF Stage, DepositSent, DepositReceived, DepositMinted,
     WithdrawSent, WithdrawReceived, WithdrawBurned
<1>2. CASE DepositDone(user, amount)
  <2>1. /\ treasury_vfdusd = saved.treasury_vfdusd + amount
        /\ ust1_supply = saved.ust1_supply + DepositOut(amount)
        /\ window_vfdusd = saved.window_vfdusd /\ window_ust1 = saved.window_ust1
    BY <1>2 DEF DepositDone, DepositBegun, Minted
  <2>2. /\ amount \in Nat /\ DepositOut(amount) \in Nat
        /\ Covers(saved.treasury_vfdusd + amount, saved.ust1_supply + DepositOut(amount))
    BY DepositCovered DEF SavedInv
  <2>3. QED
    BY <1>2, <2>1, <2>2 DEF SavedInv
<1>3. CASE WithdrawDone(user, amount)
  <2>1. /\ treasury_vfdusd = saved.treasury_vfdusd - WithdrawOut(amount)
        /\ WithdrawOut(amount) <= saved.treasury_vfdusd
        /\ ust1_supply = saved.ust1_supply - amount
        /\ window_vfdusd = saved.window_vfdusd /\ window_ust1 = saved.window_ust1
    BY <1>3 DEF WithdrawDone, WithdrawBegun, WithdrawAccepted, Burned
  <2>2. /\ amount \in Nat /\ WithdrawOut(amount) \in Nat
        /\ Covers(saved.treasury_vfdusd - WithdrawOut(amount), saved.ust1_supply - amount)
    BY WithdrawCovered DEF SavedInv
  <2>3. QED
    BY <1>3, <2>1, <2>2 DEF SavedInv
<1>4. QED
  BY <1>1, <1>2, <1>3

-----------------------------------------------------------------------------
(* The invariant.                                                            *)
LEMMA TxInitInv == TxInit => TxInv
<1>1. SUFFICES ASSUME TxInit PROVE TxInv
  OBVIOUS
<1>2. FrameInv
  BY <1>1, InitSolvent DEF TxInit, SolvencyInv, FrameInv
<1>3. treasury_vfdusd \in Nat /\ ust1_supply = 0 /\ rate \in Nat
  BY <1>1, <1>2, WindowAssumption DEF TxInit, Init, FrameInv, OracleTypeOK
<1>4. Covers(treasury_vfdusd, ust1_supply)
  <2>1. treasury_vfdusd * rate >= 0
    BY <1>3, Z3
  <2>2. ust1_supply * RateScale = 0
    BY <1>3, CommonAssumption
  <2>3. treasury_vfdusd * rate \in Int
    BY <1>3
  <2>4. QED
    BY <2>1, <2>2, <2>3 DEF Covers
<1>5. Idle
  BY <1>1, <1>3, <1>4, WindowTxAssumption DEF TxInit, Idle
<1>6. QED
  BY <1>2, <1>5 DEF TxInv

LEMMA IdleIsSolvent ==
  ASSUME FrameInv, Idle
  PROVE  SolvencyInv /\ Surplus >= 0
BY DEF FrameInv, Idle, Covers, SolvencyInv, Surplus

(* Between transactions nothing moves but the price and the configuration.   *)
LEMMA BetweenTxsStep ==
  ASSUME FrameInv, Idle, BetweenTxs
  PROVE  /\ FrameInv' /\ Idle'
         /\ UNCHANGED <<tx_vars, ledger_vars>>
<1>1. SolvencyInv /\ Surplus >= 0
  BY IdleIsSolvent
<1>2. UNCHANGED tx_vars /\ [Next]_vars
  BY DEF BetweenTxs, Next
<1>3. SolvencyInv'
  BY <1>1, <1>2, SolvencyStep
<1>4. UNCHANGED ledger_vars
  BY <1>1, GovernanceStep DEF BetweenTxs, OracleStep, window_vars
<1>5. Surplus' >= Surplus
  <2>1. CASE OracleStep
    BY <1>1, <2>1, OracleSurplus
  <2>2. CASE Governance
    <3>1. Surplus' = Surplus
      BY <1>1, <1>4, <2>2, GovernanceStep DEF Surplus, oracle_vars, price_vars, ledger_vars
    <3>2. Surplus \in Int
      BY <1>1, SurplusIsInt DEF SolvencyInv, OracleTypeOK, Surplus
    <3>3. QED
      BY <3>1, <3>2
  <2>3. QED
    BY <2>1, <2>2 DEF BetweenTxs
<1>6. Surplus' >= 0
  <2>1. Surplus \in Int
    BY <1>1, SurplusIsInt DEF SolvencyInv, OracleTypeOK, Surplus
  <2>2. Surplus' \in Int
    BY <1>3, SurplusIsInt DEF SolvencyInv, OracleTypeOK, Surplus
  <2>3. QED
    BY <1>1, <1>5, <2>1, <2>2
<1>7. Idle'
  <2>1. Covers(treasury_vfdusd, ust1_supply)'
    BY <1>6 DEF Covers, Surplus
  <2>2. QED
    BY <1>2, <1>4, <2>1 DEF Idle, tx_vars, ledger_vars
<1>8. QED
  BY <1>2, <1>3, <1>4, <1>7 DEF SolvencyInv, FrameInv

(* The user's Send opens a transaction on the state it finds.                *)
LEMMA SendStep ==
  ASSUME FrameInv, Idle, Send
  PROVE  UNCHANGED frame_vars /\ saved' = Snapshot /\ SavedInv' /\ Stage'
<1>1. PICK user \in Users, amount \in Amounts, hook \in Hook :
        SendVfdusd(user, amount, hook) \/ SendUst1(user, amount, hook)
  BY DEF Send
<1>2. UNCHANGED <<frame_vars, rolling_vars>> /\ saved' = Snapshot
  BY <1>1 DEF SendVfdusd, SendUst1
<1>3. SavedInv'
  BY <1>2 DEF Snapshot, Idle, SavedInv, Covers, frame_vars, oracle_vars, price_vars
<1>4. SameRolling'
  BY <1>2 DEF SameRolling, Snapshot, rolling_vars
<1>5. CASE SendVfdusd(user, amount, hook)
  <2>1. DepositSent(user, amount)'
    BY <1>2, <1>4, <1>5 DEF SendVfdusd, Snapshot, DepositSent, DepositBegun, Unforwarded, Unminted
  <2>2. QED
    BY <1>2, <1>3, <2>1 DEF Stage
<1>6. CASE SendUst1(user, amount, hook)
  <2>1. WithdrawSent(user, amount)'
    BY <1>2, <1>4, <1>6 DEF SendUst1, Snapshot, WithdrawSent, WithdrawBegun, Unpulled, Unburned
  <2>2. QED
    BY <1>2, <1>3, <2>1 DEF Stage
<1>7. QED
  BY <1>1, <1>5, <1>6

(* A transaction runs only where one is open, and nothing else does there.   *)
LEMMA OpenOrIdle ==
  /\ Idle => ~InTx /\ ~Execute
  /\ SavedInv => InTx /\ ~Send /\ ~BetweenTxs
BY DEF Idle, NoTx, SavedInv, InTx, Execute, Send, SendVfdusd, SendUst1, BetweenTxs, ReceiveVfdusd,
   ReceiveUst1, Mint, TransferVfdusd, Burn, InstantWithdraw, Running, Commit, Abort

LEMMA CommitStep ==
  ASSUME FrameInv, SavedInv, Stage, Commit
  PROVE  UNCHANGED frame_vars /\ Idle'
<1>1. msgs = <<>> /\ saved' = NoTx /\ UNCHANGED <<vars, msgs, window_vfdusd, window_ust1>>
  BY DEF Commit
<1>2. /\ treasury_vfdusd \in Nat /\ ust1_supply \in Int
      /\ window_vfdusd = saved.window_vfdusd /\ window_ust1 = saved.window_ust1
      /\ Covers(treasury_vfdusd, ust1_supply)
  BY <1>1, CommitCovered
<1>3. UNCHANGED <<frame_vars, treasury_vfdusd, ust1_supply, rate>>
  BY <1>1 DEF vars, frame_vars, oracle_vars, price_vars, window_vars, ledger_vars
<1>4. QED
  BY <1>1, <1>2, <1>3 DEF Idle, SavedInv, Covers

LEMMA AbortStep ==
  ASSUME SavedInv, Abort
  PROVE  UNCHANGED frame_vars /\ Idle'
BY DEF Abort, Idle, SavedInv, Covers, frame_vars, oracle_vars, price_vars

LEMMA TxStep ==
  ASSUME TxInv, [TxNext]_all_vars
  PROVE  TxInv'
<1>1. CASE UNCHANGED all_vars
  <2>1. UNCHANGED <<frame_vars, saved, msgs, rolling_vars, ledger_vars, window_vfdusd, window_ust1>>
    BY <1>1 DEF all_vars, vars, tx_vars, frame_vars, window_vars
  <2>2. FrameInv'
    BY <2>1, FrameKept DEF TxInv
  <2>3. CASE Idle
    BY <2>1, <2>2, <2>3 DEF TxInv, Idle, Covers, ledger_vars, frame_vars, oracle_vars, price_vars
  <2>4. CASE SavedInv /\ Stage
    <3>1. SavedInv'
      BY <2>1, <2>4, SavedKept
    <3>2. PICK user \in Users, amount \in Amounts :
            \/ DepositSent(user, amount) \/ DepositReceived(user, amount)
            \/ DepositMinted(user, amount) \/ DepositDone(user, amount)
            \/ WithdrawSent(user, amount) \/ WithdrawReceived(user, amount)
            \/ WithdrawBurned(user, amount) \/ WithdrawDone(user, amount)
      BY <2>4 DEF Stage
    <3>3. /\ DepositOut(amount)' = DepositOut(amount)
          /\ WithdrawOut(amount)' = WithdrawOut(amount)
          /\ DepositAccepted(amount) => DepositAccepted(amount)'
          /\ WithdrawAccepted(amount) => WithdrawAccepted(amount)'
      BY <2>1, AcceptedKept
    <3>4. /\ DepositBegun(user, amount) => DepositBegun(user, amount)'
          /\ Unforwarded(amount) => Unforwarded(amount)'
          /\ Unminted => Unminted'
          /\ Minted(user, amount) => Minted(user, amount)'
          /\ WithdrawBegun(user, amount) => WithdrawBegun(user, amount)'
          /\ Unpulled => Unpulled'
          /\ Unburned(amount) => Unburned(amount)'
          /\ Burned(amount) => Burned(amount)'
          /\ SameRolling => SameRolling'
      BY <2>1, <3>3 DEF DepositBegun, Unforwarded, Unminted, Minted, WithdrawBegun, Unpulled,
         Unburned, Burned, SameRolling, ledger_vars, rolling_vars
    <3>5. Stage'
      <4>1. CASE DepositSent(user, amount) \/ DepositReceived(user, amount)
        BY <2>1, <3>3, <3>4, <4>1 DEF Stage, DepositSent, DepositReceived
      <4>2. CASE DepositMinted(user, amount) \/ DepositDone(user, amount)
        BY <2>1, <3>3, <3>4, <4>2 DEF Stage, DepositMinted, DepositDone, ledger_vars
      <4>3. CASE WithdrawSent(user, amount) \/ WithdrawReceived(user, amount)
        BY <2>1, <3>3, <3>4, <4>3 DEF Stage, WithdrawSent, WithdrawReceived
      <4>4. CASE WithdrawBurned(user, amount) \/ WithdrawDone(user, amount)
        BY <2>1, <3>3, <3>4, <4>4 DEF Stage, WithdrawBurned, WithdrawDone, ledger_vars
      <4>5. QED
        BY <3>2, <4>1, <4>2, <4>3, <4>4
    <3>6. QED
      BY <2>2, <3>1, <3>5 DEF TxInv
  <2>5. QED
    BY <2>3, <2>4 DEF TxInv
<1>2. CASE Send
  <2>1. FrameInv /\ Idle
    BY <1>2, OpenOrIdle DEF TxInv
  <2>2. QED
    BY <1>2, <2>1, SendStep, FrameKept DEF TxInv
<1>3. CASE BetweenTxs
  <2>1. FrameInv /\ Idle
    BY <1>3, OpenOrIdle DEF TxInv
  <2>2. QED
    BY <1>3, <2>1, BetweenTxsStep DEF TxInv
<1>4. CASE Execute
  <2>1. FrameInv /\ SavedInv /\ Stage
    BY <1>4, OpenOrIdle DEF TxInv
  <2>2. CASE Abort
    BY <2>1, <2>2, AbortStep, FrameKept DEF TxInv
  <2>3. CASE Commit
    BY <2>1, <2>3, CommitStep, FrameKept DEF TxInv
  <2>4. CASE ~Abort /\ ~Commit
    BY <1>4, <2>1, <2>4, StageStep, SavedKept, FrameKept DEF TxInv
  <2>5. QED
    BY <2>2, <2>3, <2>4
<1>5. QED
  BY <1>1, <1>2, <1>3, <1>4 DEF TxNext

(* Message by message, a transaction stands where the code brought it. *)
THEOREM TxInvariant == TxSpec => []TxInv
<1>1. TxInv /\ [TxNext]_all_vars => TxInv'
  BY TxStep
<1>2. QED
  BY <1>1, TxInitInv, PTL DEF TxSpec

(* No message of a swap, at any amount, rate or fee, leaves UST1 in          *)
(* existence that the treasury and what is on its way there do not cover.    *)
THEOREM BackedThroughoutSwaps == TxSpec => []BackedAtEveryMessage
<1>1. TxInv => BackedAtEveryMessage
  <2>1. SUFFICES ASSUME TxInv PROVE BackedAtEveryMessage
    OBVIOUS
  <2> DEFINE on_its_way == IF InTx THEN window_vfdusd - saved.window_vfdusd ELSE 0
  <2>2. FrameInv /\ rate \in Int
    BY <2>1, CommonAssumption DEF TxInv, FrameInv, OracleTypeOK
  <2>3. /\ treasury_vfdusd + on_its_way \in Int /\ ust1_supply \in Int
        /\ Covers(treasury_vfdusd + on_its_way, ust1_supply)
    <3>1. CASE Idle
      <4>1. on_its_way = 0
        BY <3>1, OpenOrIdle
      <4>2. treasury_vfdusd + on_its_way = treasury_vfdusd
        BY <3>1, <4>1 DEF Idle
      <4>3. QED
        BY <3>1, <4>2 DEF Idle
    <3>2. CASE SavedInv /\ Stage
      <4>1. on_its_way = window_vfdusd - saved.window_vfdusd
        BY <3>2, OpenOrIdle
      <4>2. PICK user \in Users, amount \in Amounts :
              \/ DepositSent(user, amount) \/ DepositReceived(user, amount)
              \/ DepositMinted(user, amount) \/ DepositDone(user, amount)
              \/ WithdrawSent(user, amount) \/ WithdrawReceived(user, amount)
              \/ WithdrawBurned(user, amount) \/ WithdrawDone(user, amount)
        BY <3>2 DEF Stage
      <4> DEFINE t == saved.treasury_vfdusd
                 s == saved.ust1_supply
                 out == DepositOut(amount)
                 v == WithdrawOut(amount)
      <4>3. t \in Nat /\ s \in Int /\ saved.window_vfdusd \in Int /\ Covers(t, s)
        BY <3>2 DEF SavedInv
      <4>4. /\ amount \in Nat /\ out \in Nat /\ v \in Nat
            /\ Covers(t + amount, s) /\ Covers(t + amount, s + out)
            /\ Covers(t, s - amount) /\ Covers(t - v, s - amount)
        BY <2>2, <4>3, DepositCovered, WithdrawCovered
      <4>5. \/ treasury_vfdusd + on_its_way = t + amount /\ ust1_supply = s
            \/ treasury_vfdusd + on_its_way = t + amount /\ ust1_supply = s + out
            \/ treasury_vfdusd + on_its_way = t /\ ust1_supply = s
            \/ treasury_vfdusd + on_its_way = t /\ ust1_supply = s - amount
            \/ treasury_vfdusd + on_its_way = t - v /\ ust1_supply = s - amount
        <5>1. CASE DepositSent(user, amount) \/ DepositReceived(user, amount)
          BY <4>1, <4>3, <4>4, <5>1 DEF DepositSent, DepositReceived, Unforwarded, Unminted
        <5>2. CASE DepositMinted(user, amount) \/ DepositDone(user, amount)
          BY <4>1, <4>3, <4>4, <5>2 DEF DepositMinted, DepositDone, Unforwarded, Minted
        <5>3. CASE WithdrawSent(user, amount) \/ WithdrawReceived(user, amount)
          BY <4>1, <4>3, <4>4, <5>3 DEF WithdrawSent, WithdrawReceived, WithdrawBegun, Unpulled,
             Unburned
        <5>4. CASE WithdrawBurned(user, amount) \/ WithdrawDone(user, amount)
          BY <4>1, <4>3, <4>4, <5>4 DEF WithdrawBurned, WithdrawDone, WithdrawBegun, Unpulled,
             Burned
        <5>5. QED
          BY <4>2, <5>1, <5>2, <5>3, <5>4
      <4> HIDE DEF out, v, t, s, on_its_way
      <4>6. QED
        BY <4>3, <4>4, <4>5
    <3>3. QED
      BY <2>1, <3>1, <3>2 DEF TxInv
  <2> HIDE DEF on_its_way
  <2>4. ust1_supply * RateScale <= (treasury_vfdusd + on_its_way) * rate
    BY <2>2, <2>3, CommonAssumption DEF Covers
  <2>5. QED
    BY <2>4 DEF BackedAtEveryMessage, on_its_way
<1>2. QED
  BY <1>1, TxInvariant, PTL

(* Whatever of a swap commits or fails, the window holds afterwards what it  *)
(* held before.                                                              *)
THEOREM NothingStaysInTheWindow == TxSpec => SwapsPassThrough
<1>1. TxInv /\ [TxNext]_all_vars
        => [InTx /\ ~InTx' =>
              window_vfdusd' = saved.window_vfdusd /\ window_ust1' = saved.window_ust1]_all_vars
  <2>1. SUFFICES ASSUME TxInv, TxNext, InTx, ~InTx'
                 PROVE  window_vfdusd' = saved.window_vfdusd /\ window_ust1' = saved.window_ust1
    OBVIOUS
  <2>2. FrameInv /\ SavedInv /\ Stage /\ Execute
    BY <2>1, OpenOrIdle DEF TxInv, TxNext
  <2>3. CASE Abort
    BY <2>3 DEF Abort
  <2>4. CASE Commit
    BY <2>2, <2>4, CommitCovered DEF Commit
  <2>5. CASE ~Abort /\ ~Commit
    BY <2>1, <2>2, <2>5, StageStep DEF InTx
  <2>6. QED
    BY <2>3, <2>4, <2>5
<1>2. QED
  BY <1>1, TxInvariant, PTL DEF TxSpec, SwapsPassThrough

-----------------------------------------------------------------------------
(* The refinement: what other transactions see is the atomic window.         *)
LEMMA CommittedInit == TxInit => Committed!Init
<1>1. SUFFICES ASSUME TxInit PROVE Committed!Init
  OBVIOUS
<1>2. InTx = FALSE
  BY <1>1 DEF TxInit, NoTx, InTx
<1>3. QED
  BY <1>1, <1>2 DEF TxInit, Init, Committed!Init, OracleInit, Committed!OracleInit,
     UtcDay, Committed!UtcDay, ValidMaxAge, Committed!ValidMaxAge,
     OracleGov!Init, Committed!OracleGov!Init, WindowGov!Init, Committed!WindowGov!Init

(* A deposit commits as the atomic one.                                      *)
LEMMA CommittedDeposit ==
  ASSUME SavedInv, Commit, NEW user \in Users, NEW amount \in Amounts, DepositDone(user, amount)
  PROVE  Committed!Deposit(user, amount)
<1>1. InTx = TRUE /\ InTx' = FALSE
  BY DEF SavedInv, InTx, Commit, NoTx
<1>2. UNCHANGED vars
  BY DEF Commit
<1>3. UNCHANGED <<frame_vars, ledger_vars, rolling_vars>>
  BY <1>2 DEF vars, frame_vars, window_vars
<1>4. DepositOut(amount) = Committed!DepositVfdusdToUst1(amount, rate, fee_bps)
  BY DEF DepositOut, DepositVfdusdToUst1, Committed!DepositVfdusdToUst1,
     ApplyFeeUst1, Committed!ApplyFeeUst1, VfdusdToUst1BeforeFee, Committed!VfdusdToUst1BeforeFee
<1>5. Committed!OracleUsable /\ Committed!DepositFits(amount, rate, fee_bps)
  BY DEF DepositDone, DepositAccepted, OracleUsable, Committed!OracleUsable,
     DepositFits, Committed!DepositFits, ApplyFeeFits, Committed!ApplyFeeFits,
     VfdusdToUst1BeforeFee, Committed!VfdusdToUst1BeforeFee, FitsU128, Committed!FitsU128
<1>6. Committed!EnsureLimits(DepositOut(amount))
  BY <1>1, <1>3 DEF DepositDone, DepositAccepted, RollingAfter, rolling_vars,
     Committed!EnsureLimits, WithinLimits, Committed!WithinLimits,
     CarriedVolume, Committed!CarriedVolume, WindowStartAfter, Committed!WindowStartAfter,
     WindowExpired, Committed!WindowExpired
<1>7. QED
  BY <1>1, <1>3, <1>4, <1>5, <1>6 DEF DepositDone, DepositBegun, DepositAccepted, Minted,
     ledger_vars, FitsU128, Committed!FitsU128, Committed!Deposit, frame_vars, oracle_vars,
     price_vars, oracle_gov_vars, config_vars, window_gov_vars, Committed!oracle_vars,
     Committed!price_vars, Committed!oracle_gov_vars, Committed!config_vars, Committed!window_gov_vars

LEMMA CommittedWithdraw ==
  ASSUME SavedInv, Commit, NEW user \in Users, NEW gross \in Amounts, WithdrawDone(user, gross)
  PROVE  \E min_out \in Amounts : Committed!Withdraw(user, gross, min_out)
<1>1. InTx = TRUE /\ InTx' = FALSE
  BY DEF SavedInv, InTx, Commit, NoTx
<1>2. UNCHANGED vars
  BY DEF Commit
<1>3. UNCHANGED <<frame_vars, ledger_vars, rolling_vars>>
  BY <1>2 DEF vars, frame_vars, window_vars
<1>4. WithdrawOut(gross) = Committed!WithdrawGrossUst1ToVfdusd(gross, rate, fee_bps)
  BY DEF WithdrawOut, WithdrawGrossUst1ToVfdusd, Committed!WithdrawGrossUst1ToVfdusd,
     ApplyFeeUst1, Committed!ApplyFeeUst1, Ust1AfterFeeToVfdusd, Committed!Ust1AfterFeeToVfdusd
<1>5. Committed!OracleUsable /\ Committed!WithdrawFits(gross, rate, fee_bps)
  BY DEF WithdrawDone, WithdrawAccepted, OracleUsable, Committed!OracleUsable,
     WithdrawFits, Committed!WithdrawFits, ApplyFeeFits, Committed!ApplyFeeFits,
     ApplyFeeUst1, Committed!ApplyFeeUst1, Ust1AfterFeeToVfdusd, Committed!Ust1AfterFeeToVfdusd,
     FitsU128, Committed!FitsU128
<1>6. Committed!EnsureLimits(gross)
  BY <1>1, <1>3 DEF WithdrawDone, WithdrawAccepted, RollingAfter, rolling_vars,
     Committed!EnsureLimits, WithinLimits, Committed!WithinLimits,
     CarriedVolume, Committed!CarriedVolume, WindowStartAfter, Committed!WindowStartAfter,
     WindowExpired, Committed!WindowExpired
<1>7. PICK min_out \in Amounts : WithdrawOut(gross) >= min_out
  BY DEF WithdrawDone, WithdrawAccepted
<1>8. Committed!Withdraw(user, gross, min_out)
  BY <1>1, <1>3, <1>4, <1>5, <1>6, <1>7 DEF WithdrawDone, WithdrawBegun, WithdrawAccepted,
     Burned, ledger_vars, Committed!Withdraw, frame_vars, oracle_vars, price_vars, oracle_gov_vars,
     config_vars, window_gov_vars, Committed!oracle_vars, Committed!price_vars,
     Committed!oracle_gov_vars, Committed!config_vars, Committed!window_gov_vars
<1>9. QED
  BY <1>8

(* Between transactions the two modules take the same steps.                 *)
LEMMA CommittedOracleStep ==
  ASSUME InTx = FALSE, InTx' = FALSE, OracleStep
  PROVE  Committed!OracleStep
<1> USE DEF price_vars, oracle_gov_vars, oracle_vars, Committed!price_vars,
    Committed!oracle_gov_vars, Committed!oracle_vars
<1>1. Committed!OracleNext
  <2>1. CASE Tick
    BY <2>1 DEF Tick, Committed!Tick, Committed!OracleNext
  <2>2. ASSUME NEW sender \in Addr, NEW new \in Rates, UpdateRate(sender, new)
        PROVE  Committed!UpdateRate(sender, new)
    BY <2>2 DEF UpdateRate, Committed!UpdateRate, StoreRate, Committed!StoreRate,
       CheckRateUpdate, Committed!CheckRateUpdate, Throttled, Committed!Throttled,
       BaselineAfterUpdate, Committed!BaselineAfterUpdate,
       RolledBaseline, Committed!RolledBaseline, UtcDay, Committed!UtcDay,
       DailyCapFits, Committed!DailyCapFits, FitsU128, Committed!FitsU128,
       MaxRateAfterDailyCap, Committed!MaxRateAfterDailyCap
  <2>3. ASSUME NEW sender \in Addr, OracleCall(sender)
        PROVE  Committed!OracleCall(sender)
    BY <2>2, <2>3 DEF OracleCall, Committed!OracleCall,
       SetOracleOperator, Committed!SetOracleOperator, SetOraclePaused, Committed!SetOraclePaused,
       OracleProposeGovernance, Committed!OracleProposeGovernance,
       OracleAcceptGovernance, Committed!OracleAcceptGovernance,
       OracleGov!ProposeGovernance, Committed!OracleGov!ProposeGovernance,
       OracleGov!AcceptGovernance, Committed!OracleGov!AcceptGovernance
  <2>4. QED
    BY <2>1, <2>3 DEF OracleStep, OracleNext, Committed!OracleNext
<1>2. UNCHANGED Committed!window_vars
  BY DEF OracleStep, window_vars, config_vars, rolling_vars, window_gov_vars, ledger_vars,
     Committed!window_vars, Committed!config_vars, Committed!rolling_vars,
     Committed!window_gov_vars, Committed!ledger_vars
<1>3. QED
  BY <1>1, <1>2 DEF Committed!OracleStep

LEMMA CommittedGovernance ==
  ASSUME InTx = FALSE, InTx' = FALSE, Governance
  PROVE  Committed!Governance
<1> USE DEF price_vars, oracle_gov_vars, oracle_vars, config_vars, rolling_vars, window_gov_vars,
    ledger_vars, Committed!price_vars, Committed!oracle_gov_vars, Committed!oracle_vars,
    Committed!config_vars, Committed!rolling_vars, Committed!window_gov_vars,
    Committed!ledger_vars
<1>1. PICK sender \in Addr :
        \/ \E per_tx, rolling \in Limits : SetLimits(sender, per_tx, rolling)
        \/ \E paused \in BOOLEAN : SetWindowPaused(sender, paused)
        \/ \E fee \in Fees : SetFeeBps(sender, fee)
        \/ \E max_age \in MaxAges : SetMaxOracleAge(sender, max_age)
        \/ \E addr \in Addr : WindowProposeGovernance(sender, addr)
        \/ WindowAcceptGovernance(sender)
  BY DEF Governance
<1>2. ASSUME NEW per_tx \in Limits, NEW rolling \in Limits, SetLimits(sender, per_tx, rolling)
      PROVE  Committed!SetLimits(sender, per_tx, rolling)
  BY <1>2 DEF SetLimits, Committed!SetLimits
<1>3. ASSUME NEW paused \in BOOLEAN, SetWindowPaused(sender, paused)
      PROVE  Committed!SetWindowPaused(sender, paused)
  BY <1>3 DEF SetWindowPaused, Committed!SetWindowPaused
<1>4. ASSUME NEW fee \in Fees, SetFeeBps(sender, fee)
      PROVE  Committed!SetFeeBps(sender, fee)
  BY <1>4 DEF SetFeeBps, Committed!SetFeeBps
<1>5. ASSUME NEW max_age \in MaxAges, SetMaxOracleAge(sender, max_age)
      PROVE  Committed!SetMaxOracleAge(sender, max_age)
  BY <1>5 DEF SetMaxOracleAge, Committed!SetMaxOracleAge, ValidMaxAge, Committed!ValidMaxAge
<1>6. ASSUME NEW addr \in Addr, WindowProposeGovernance(sender, addr)
      PROVE  Committed!WindowProposeGovernance(sender, addr)
  BY <1>6 DEF WindowProposeGovernance, Committed!WindowProposeGovernance,
     WindowGov!ProposeGovernance, Committed!WindowGov!ProposeGovernance
<1>7. WindowAcceptGovernance(sender) => Committed!WindowAcceptGovernance(sender)
  BY DEF WindowAcceptGovernance, Committed!WindowAcceptGovernance,
     WindowGov!AcceptGovernance, Committed!WindowGov!AcceptGovernance
<1>8. QED
  BY <1>1, <1>2, <1>3, <1>4, <1>5, <1>6, <1>7 DEF Committed!Governance

(* A step the other transactions do not see.                                 *)
LEMMA CommittedStutter ==
  ASSUME UNCHANGED frame_vars,
         (IF InTx THEN saved.vfdusd ELSE vfdusd)'
           = (IF InTx THEN saved.vfdusd ELSE vfdusd),
         (IF InTx THEN saved.treasury_vfdusd ELSE treasury_vfdusd)'
           = (IF InTx THEN saved.treasury_vfdusd ELSE treasury_vfdusd),
         (IF InTx THEN saved.ust1 ELSE ust1)' = (IF InTx THEN saved.ust1 ELSE ust1),
         (IF InTx THEN saved.ust1_supply ELSE ust1_supply)'
           = (IF InTx THEN saved.ust1_supply ELSE ust1_supply),
         (IF InTx THEN saved.window_start ELSE window_start)'
           = (IF InTx THEN saved.window_start ELSE window_start),
         (IF InTx THEN saved.volume ELSE volume)' = (IF InTx THEN saved.volume ELSE volume)
  PROVE  UNCHANGED Committed!vars
BY DEF frame_vars, oracle_vars, price_vars, oracle_gov_vars, config_vars, window_gov_vars,
   Committed!vars, Committed!oracle_vars, Committed!price_vars, Committed!oracle_gov_vars,
   Committed!window_vars, Committed!config_vars, Committed!rolling_vars,
   Committed!window_gov_vars, Committed!ledger_vars

LEMMA CommittedStep ==
  ASSUME TxInv, [TxNext]_all_vars
  PROVE  [Committed!Next]_(Committed!vars)
<1>1. CASE UNCHANGED all_vars
  <2>1. UNCHANGED Committed!vars
    BY <1>1, CommittedStutter DEF InTx, all_vars, vars, tx_vars, frame_vars, window_vars,
       rolling_vars, ledger_vars
  <2>2. QED
    BY <2>1
<1>2. CASE Send
  <2>1. FrameInv /\ Idle
    BY <1>2, OpenOrIdle DEF TxInv
  <2>2. UNCHANGED frame_vars /\ saved' = Snapshot
    BY <1>2, <2>1, SendStep
  <2>3. InTx = FALSE /\ InTx' = TRUE
    BY <2>1, <2>2 DEF Idle, NoTx, InTx, Snapshot
  <2>4. UNCHANGED Committed!vars
    BY <2>2, <2>3, CommittedStutter DEF Snapshot
  <2>5. QED
    BY <2>4
<1>3. CASE BetweenTxs
  <2>1. FrameInv /\ Idle
    BY <1>3, OpenOrIdle DEF TxInv
  <2>2. InTx = FALSE /\ InTx' = FALSE
    BY <1>3, <2>1 DEF BetweenTxs, tx_vars, Idle, NoTx, InTx
  <2>3. Committed!Governance \/ Committed!OracleStep
    BY <1>3, <2>2, CommittedGovernance, CommittedOracleStep DEF BetweenTxs
  <2>4. QED
    BY <2>3 DEF Committed!Next
<1>4. CASE Execute
  <2>1. FrameInv /\ SavedInv /\ Stage
    BY <1>4, OpenOrIdle DEF TxInv
  <2>2. InTx = TRUE
    BY <2>1 DEF SavedInv, InTx
  <2>3. CASE Abort
    <3>1. InTx' = FALSE
      BY <2>3 DEF Abort, NoTx, InTx
    <3>2. UNCHANGED Committed!vars
      BY <2>2, <2>3, <3>1, CommittedStutter DEF Abort
    <3>3. QED
      BY <3>2
  <2>4. CASE Commit
    <3>1. PICK user \in Users, amount \in Amounts :
            DepositDone(user, amount) \/ WithdrawDone(user, amount)
      BY <2>1, <2>4, CommitCovered DEF Commit
    <3>2. Committed!Swap
      BY <2>1, <2>4, <3>1, CommittedDeposit, CommittedWithdraw DEF Committed!Swap
    <3>3. QED
      BY <3>2 DEF Committed!Next
  <2>5. CASE ~Abort /\ ~Commit
    <3>1. UNCHANGED <<frame_vars, saved>>
      BY <1>4, <2>1, <2>5, StageStep
    <3>2. UNCHANGED Committed!vars
      BY <2>2, <3>1, CommittedStutter DEF InTx
    <3>3. QED
      BY <3>2
  <2>6. QED
    BY <2>3, <2>4, <2>5
<1>5. QED
  BY <1>1, <1>2, <1>3, <1>4 DEF TxNext

(* Every behaviour of swaps run message by message, with a failure anywhere, *)
(* is one of the atomic window to whoever reads committed state.             *)
THEOREM SwapsAreAtomic == TxSpec => ImplementsAtomicWindow
<1>1. TxInit => Committed!Init
  BY CommittedInit
<1>2. TxInv /\ [TxNext]_all_vars => [Committed!Next]_(Committed!vars)
  BY CommittedStep
<1>3. QED
  BY <1>1, <1>2, TxInvariant, PTL DEF TxSpec, ImplementsAtomicWindow, Committed!Spec
=============================================================================
