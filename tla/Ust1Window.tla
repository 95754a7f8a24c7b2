----------------------------- MODULE Ust1Window -----------------------------
(***************************************************************************)
(* The ust1-window contract on the chain it runs on: the oracle it reads,  *)
(* the two CW20 ledgers and the CMM treasury it moves tokens between.      *)
(* A transaction is atomic, so a swap is one action from the user's CW20   *)
(* Send to the last message the window emits; WindowTx takes it apart.     *)
(***************************************************************************)
EXTENDS Ust1Oracle, RollingLimit

CONSTANTS
  Users,            \* holders of vFDUSD and UST1
  Amounts,          \* amounts a user sends, and min_vfdusd_out values
  Fees,             \* fee_bps values
  Limits,           \* values of the two volume limits
  MaxAges,          \* max_oracle_age_sec values
  UserVfdusd,       \* what each user holds of vFDUSD when the window is created
  TreasuryVfdusd,   \* what the treasury holds of it
  OpenCustody       \* TRUE: others may mint UST1 and spend from the treasury

ASSUME WindowAssumption ==
  /\ Amounts \subseteq 0..MaxU128
  /\ Fees \subseteq Nat
  /\ Limits \subseteq 0..MaxU128
  /\ MaxAges \subseteq Nat
  /\ UserVfdusd \in Nat
  /\ TreasuryVfdusd \in Nat
  /\ OpenCustody \in BOOLEAN

VARIABLES
  fee_bps,             \* Config.fee_bps
  per_tx_limit,        \* Config.per_tx_ust1_limit
  rolling_limit,       \* Config.rolling_24h_ust1_limit
  window_paused,       \* Config.paused
  max_oracle_age,      \* Config.max_oracle_age_sec
  window_start,        \* RollingVolume.window_start_sec
  volume,              \* RollingVolume.volume_ust1
  window_governance,   \* Config.governance
  window_pending,      \* PENDING_GOVERNANCE
  vfdusd,              \* vFDUSD balances of the users
  treasury_vfdusd,     \* vFDUSD balance of the CMM treasury
  ust1,                \* UST1 balances of the users
  ust1_supply          \* total_supply of the UST1 CW20

WindowGov == INSTANCE TwoStepGovernance
         WITH governance <- window_governance, pending <- window_pending

config_vars == <<fee_bps, per_tx_limit, rolling_limit, window_paused, max_oracle_age>>
rolling_vars == <<window_start, volume>>
window_gov_vars == <<window_governance, window_pending>>
ledger_vars == <<vfdusd, treasury_vfdusd, ust1, ust1_supply>>
window_vars == <<config_vars, rolling_vars, window_gov_vars, ledger_vars>>
vars == <<clock, oracle_vars, window_vars>>

ValidMaxAge_Any(max_age) == TRUE

(* validate_max_oracle_age_sec *)
ValidMaxAge(max_age) == max_age >= MinUpdateInterval

(* instantiate *)
Init ==
  /\ OracleInit
  /\ fee_bps \in {f \in Fees : f <= BpsDenom}
  /\ per_tx_limit \in Limits
  /\ rolling_limit \in Limits
  /\ window_paused = FALSE
  /\ max_oracle_age \in {a \in MaxAges : ValidMaxAge(a)}
  /\ window_start = 0 /\ volume = 0
  /\ WindowGov!Init
  /\ vfdusd = [u \in Users |-> UserVfdusd]
  /\ treasury_vfdusd = TreasuryVfdusd
  /\ ust1 = [u \in Users |-> 0]
  /\ ust1_supply = 0

-----------------------------------------------------------------------------
(* Swaps *)

(* ensure_oracle_usable; last_update = 0 is an oracle never seeded. *)
OracleUsable ==
  /\ ~oracle_paused
  /\ last_update > 0
  /\ clock - last_update <= max_oracle_age

(* ensure_limits and the ROLLING.save that follows it in both handlers. *)
EnsureLimits_NotSaved(notional) ==
  /\ WithinLimits(clock, window_start, volume, notional, per_tx_limit, rolling_limit)
  /\ UNCHANGED rolling_vars

EnsureLimits(notional) ==
  /\ WithinLimits(clock, window_start, volume, notional, per_tx_limit, rolling_limit)
  /\ window_start' = WindowStartAfter(clock, window_start)
  /\ volume' = CarriedVolume(clock, window_start, volume) + notional

(* receive_cw20 on vFDUSD with the Deposit hook: mint UST1 to the sender and *)
(* forward what was sent to the treasury.                                    *)
Deposit(user, amount) ==
  LET ust1_out == DepositVfdusdToUst1(amount, rate, fee_bps)
  IN  /\ amount <= vfdusd[user]
      /\ ~window_paused
      /\ OracleUsable
      /\ DepositFits(amount, rate, fee_bps)
      /\ ust1_out > 0
      /\ EnsureLimits(ust1_out)
      /\ FitsU128(ust1_supply + ust1_out)
      /\ vfdusd' = [vfdusd EXCEPT ![user] = @ - amount]
      /\ treasury_vfdusd' = treasury_vfdusd + amount
      /\ ust1' = [ust1 EXCEPT ![user] = @ + ust1_out]
      /\ ust1_supply' = ust1_supply + ust1_out
      /\ UNCHANGED <<clock, oracle_vars, config_vars, window_gov_vars>>

(* receive_cw20 on UST1 with the Withdraw hook: burn what was sent and pull  *)
(* vFDUSD from the treasury to the sender.  The limit counts the gross UST1. *)
Withdraw(user, gross, min_vfdusd_out) ==
  LET v_out == WithdrawGrossUst1ToVfdusd(gross, rate, fee_bps)
  IN  /\ gross <= ust1[user]
      /\ ~window_paused
      /\ OracleUsable
      /\ WithdrawFits(gross, rate, fee_bps)
      /\ v_out > 0
      /\ v_out >= min_vfdusd_out
      /\ v_out <= treasury_vfdusd
      /\ EnsureLimits(gross)
      /\ ust1' = [ust1 EXCEPT ![user] = @ - gross]
      /\ ust1_supply' = ust1_supply - gross
      /\ treasury_vfdusd' = treasury_vfdusd - v_out
      /\ vfdusd' = [vfdusd EXCEPT ![user] = @ + v_out]
      /\ UNCHANGED <<clock, oracle_vars, config_vars, window_gov_vars>>

-----------------------------------------------------------------------------
(* Governance.  SetFeeBps and SetMaxOracleAge validate before they check the *)
(* sender; a call rejected either way changes nothing.                       *)
SetLimits(sender, per_tx, rolling) ==
  /\ sender = window_governance
  /\ per_tx_limit' = per_tx
  /\ rolling_limit' = rolling
  /\ UNCHANGED <<clock, oracle_vars, fee_bps, window_paused, max_oracle_age,
                 rolling_vars, window_gov_vars, ledger_vars>>

SetWindowPaused(sender, paused) ==
  /\ sender = window_governance
  /\ window_paused' = paused
  /\ UNCHANGED <<clock, oracle_vars, fee_bps, per_tx_limit, rolling_limit,
                 max_oracle_age, rolling_vars, window_gov_vars, ledger_vars>>

SetFeeBps_Unvalidated(sender, fee) ==
  /\ sender = window_governance
  /\ fee_bps' = fee
  /\ UNCHANGED <<clock, oracle_vars, per_tx_limit, rolling_limit, window_paused,
                 max_oracle_age, rolling_vars, window_gov_vars, ledger_vars>>

SetFeeBps(sender, fee) ==
  /\ fee <= BpsDenom
  /\ sender = window_governance
  /\ fee_bps' = fee
  /\ UNCHANGED <<clock, oracle_vars, per_tx_limit, rolling_limit, window_paused,
                 max_oracle_age, rolling_vars, window_gov_vars, ledger_vars>>

SetMaxOracleAge(sender, max_age) ==
  /\ ValidMaxAge(max_age)
  /\ sender = window_governance
  /\ max_oracle_age' = max_age
  /\ UNCHANGED <<clock, oracle_vars, fee_bps, per_tx_limit, rolling_limit,
                 window_paused, rolling_vars, window_gov_vars, ledger_vars>>

WindowProposeGovernance(sender, addr) ==
  /\ WindowGov!ProposeGovernance(sender, addr)
  /\ UNCHANGED <<clock, oracle_vars, config_vars, rolling_vars, ledger_vars>>

WindowAcceptGovernance(sender) ==
  /\ WindowGov!AcceptGovernance(sender)
  /\ UNCHANGED <<clock, oracle_vars, config_vars, rolling_vars, ledger_vars>>

-----------------------------------------------------------------------------
(* The chain around the window.  With OpenCustody the treasury's owner and   *)
(* other registered spenders may take vFDUSD out, and other minters of the   *)
(* UST1 CW20 may issue it; neither is code of this repository.               *)
TreasurySpend(amount) ==
  /\ OpenCustody
  /\ amount <= treasury_vfdusd
  /\ treasury_vfdusd' = treasury_vfdusd - amount
  /\ UNCHANGED <<clock, oracle_vars, config_vars, rolling_vars, window_gov_vars,
                 vfdusd, ust1, ust1_supply>>

OtherMint(user, amount) ==
  /\ OpenCustody
  /\ FitsU128(ust1_supply + amount)
  /\ ust1' = [ust1 EXCEPT ![user] = @ + amount]
  /\ ust1_supply' = ust1_supply + amount
  /\ UNCHANGED <<clock, oracle_vars, config_vars, rolling_vars, window_gov_vars,
                 vfdusd, treasury_vfdusd>>

Swap ==
  \E user \in Users, amount \in Amounts :
    \/ Deposit(user, amount)
    \/ \E min_out \in Amounts : Withdraw(user, amount, min_out)

Governance ==
  \E sender \in Addr :
    \/ \E per_tx, rolling \in Limits : SetLimits(sender, per_tx, rolling)
    \/ \E paused \in BOOLEAN : SetWindowPaused(sender, paused)
    \/ \E fee \in Fees : SetFeeBps(sender, fee)
    \/ \E max_age \in MaxAges : SetMaxOracleAge(sender, max_age)
    \/ \E addr \in Addr : WindowProposeGovernance(sender, addr)
    \/ WindowAcceptGovernance(sender)

Custody ==
  \E amount \in Amounts :
    \/ TreasurySpend(amount)
    \/ \E user \in Users : OtherMint(user, amount)

OracleStep == OracleNext /\ UNCHANGED window_vars

Next == Swap \/ Governance \/ Custody \/ OracleStep

Spec == Init /\ [][Next]_vars

-----------------------------------------------------------------------------
(* Properties *)

TypeOK ==
  /\ OracleTypeOK
  /\ fee_bps \in 0..BpsDenom
  /\ per_tx_limit \in 0..MaxU128 /\ rolling_limit \in 0..MaxU128
  /\ window_paused \in BOOLEAN
  /\ max_oracle_age \in Nat
  /\ window_start \in 0..clock /\ volume \in 0..MaxU128
  /\ WindowGov!TypeOK
  /\ vfdusd \in [Users -> Nat] /\ treasury_vfdusd \in Nat
  /\ ust1 \in [Users -> Nat] /\ ust1_supply \in 0..MaxU128

(* What the treasury holds beyond the outstanding UST1, at the stored rate   *)
(* and scaled by RateScale.                                                  *)
Surplus == treasury_vfdusd * rate - ust1_supply * RateScale

(* INV-SWAP-001 and INV-SWAP-002 over every interleaving of swaps, rate      *)
(* updates, fee changes and governance: none of them costs the treasury      *)
(* anything; only an outside spender or minter can lower the surplus.  The   *)
(* roundings of both legs favour the treasury and the rate never falls.      *)
SurplusNeverFalls == [][Custody \/ Surplus' >= Surplus]_vars

(* While the window is the only minter and the only spender, any part of the *)
(* outstanding UST1 can be redeemed from the treasury, whatever the fee: the *)
(* InsufficientVfdusd rejection is unreachable for a holder.                 *)
Redeemable ==
  ~OpenCustody =>
    \A gross \in 0..ust1_supply :
      WithdrawGrossUst1ToVfdusd(gross, rate, fee_bps) <= treasury_vfdusd

(* What the treasury gains is less than the fee on value_in and the two       *)
(* roundings' units.                                                         *)
CostBelow(value_in, last_unit) ==
  (Surplus' - Surplus) * BpsDenom
    < value_in * fee_bps + (RateScale + last_unit) * BpsDenom

SwapCost ==
  /\ ust1_supply' > ust1_supply
       => CostBelow((treasury_vfdusd' - treasury_vfdusd) * rate, RateScale)
  /\ ust1_supply' < ust1_supply
       => CostBelow((ust1_supply - ust1_supply') * RateScale, rate)

(* The other side: a swap costs its user the configured fee on what was sent *)
(* and, beyond it, less than one unit of each of the two roundings, whose    *)
(* second unit is UST1 for a deposit and vFDUSD for a withdrawal.            *)
SwapCostBounded == [][Custody \/ SwapCost]_vars

(* Whenever swaps are halted only because the rate has aged, the operator    *)
(* can end the halt in this very block with a heartbeat: no governance       *)
(* setting makes the age limit shorter than the oracle's throttle            *)
(* (DEFAULT_MAX_ORACLE_AGE_SECS: "so swaps are not impossible between        *)
(* on-chain oracle updates").                                                *)
StaleRateIsCurable ==
  ~oracle_paused /\ last_update > 0 /\ ~OracleUsable /\ DailyCapFits(rate)
    => CheckRateUpdate(clock, last_update, rate, rate, utc_day, baseline)
=============================================================================
