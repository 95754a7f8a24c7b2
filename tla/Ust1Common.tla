----------------------------- MODULE Ust1Common -----------------------------
(***************************************************************************)
(* The ust1-common crate: fixed-point arithmetic of the swaps (math.rs)    *)
(* and the rules an oracle rate update must satisfy (oracle_policy.rs).    *)
(* Contracts and the off-chain service share these definitions, as they    *)
(* share the crate.  Every amount is a natural number of base units; a     *)
(* result wider than Uint128 is an error, which a caller sees as a failed  *)
(* call, so the ...Fits predicates are conjuncts of the callers' guards.   *)
(***************************************************************************)
EXTENDS Integers

CONSTANTS
  RateScale,            \* RATE_SCALE: fixed-point scale of the rate
  BpsDenom,             \* BPS_DENOM
  MaxDailyIncreaseBps,  \* MAX_DAILY_INCREASE_BPS
  MinUpdateInterval,    \* MIN_ORACLE_UPDATE_INTERVAL_SECS
  Day,                  \* 86_400, in the model's time units
  MaxU128               \* Uint128::MAX

ASSUME CommonAssumption ==
  /\ RateScale \in Nat \ {0}
  /\ BpsDenom \in Nat \ {0}
  /\ MaxDailyIncreaseBps \in Nat
  /\ MinUpdateInterval \in Nat \ {0}
  /\ Day \in Nat \ {0}
  /\ MaxU128 \in Nat

FitsU128(n) == n <= MaxU128

-----------------------------------------------------------------------------
(* math.rs *)

(* Definitions named F_Something, in every module, are the code's F with a   *)
(* plausible bug: the properties must tell them from F.                      *)
CeilDiv(n, d) == (n + d - 1) \div d

ApplyFeeFits(amount, fee_bps) ==
  /\ fee_bps <= BpsDenom
  /\ FitsU128(amount * (BpsDenom - fee_bps))

ApplyFeeUst1_RoundsUp(amount, fee_bps) ==
  CeilDiv(amount * (BpsDenom - fee_bps), BpsDenom)

ApplyFeeUst1(amount, fee_bps) == (amount * (BpsDenom - fee_bps)) \div BpsDenom

VfdusdToUst1BeforeFee_RoundsUp(x, rate) == CeilDiv(x * rate, RateScale)

VfdusdToUst1BeforeFee(x, rate) == (x * rate) \div RateScale

Ust1AfterFeeToVfdusd_RoundsUp(u, rate) == CeilDiv(u * RateScale, rate)

Ust1AfterFeeToVfdusd(u, rate) == (u * RateScale) \div rate

(* deposit_vfdusd_to_ust1: rate first, then the fee on the UST1 leg. *)
DepositFits(x, rate, fee_bps) ==
  /\ FitsU128(VfdusdToUst1BeforeFee(x, rate))
  /\ ApplyFeeFits(VfdusdToUst1BeforeFee(x, rate), fee_bps)

DepositVfdusdToUst1_FeeTwice(x, rate, fee_bps) ==
  ApplyFeeUst1(ApplyFeeUst1(VfdusdToUst1BeforeFee(x, rate), fee_bps), fee_bps)

DepositVfdusdToUst1(x, rate, fee_bps) ==
  ApplyFeeUst1(VfdusdToUst1BeforeFee(x, rate), fee_bps)

(* withdraw_gross_ust1_to_vfdusd: fee on the UST1 leg first, then the rate. *)
WithdrawFits(u, rate, fee_bps) ==
  /\ rate > 0
  /\ ApplyFeeFits(u, fee_bps)
  /\ FitsU128(Ust1AfterFeeToVfdusd(ApplyFeeUst1(u, fee_bps), rate))

WithdrawGrossUst1ToVfdusd(u, rate, fee_bps) ==
  Ust1AfterFeeToVfdusd(ApplyFeeUst1(u, fee_bps), rate)

DailyCapFits(baseline) == FitsU128(baseline * (BpsDenom + MaxDailyIncreaseBps))

MaxRateAfterDailyCap(baseline) ==
  (baseline * (BpsDenom + MaxDailyIncreaseBps)) \div BpsDenom

-----------------------------------------------------------------------------
(* oracle_policy.rs *)

UtcDay(t) == t \div Day

(* The baseline the daily cap of an update at time now is measured from: a  *)
(* stored baseline of an earlier day gives way to the rate in force.        *)
RolledBaseline(now, utc_day, baseline, rate) ==
  IF UtcDay(now) # utc_day THEN rate ELSE baseline

Throttled(now, last_update) ==
  last_update > 0 /\ now - last_update < MinUpdateInterval

(* check_rate_update returns Ok exactly when these four rules hold; the     *)
(* first one that fails names the error.  last_update = 0 is the bootstrap: *)
(* an oracle that was never updated takes any rate the others allow.        *)
CheckRateUpdate(now, last_update, rate, new, utc_day, baseline) ==
  /\ new > 0
  /\ ~Throttled(now, last_update)
  /\ new >= rate
  /\ \/ last_update = 0
     \/ LET b == RolledBaseline(now, utc_day, baseline, rate)
        IN  DailyCapFits(b) /\ new <= MaxRateAfterDailyCap(b)

(* The (utc_day_id, day_baseline_rate) pair an accepted update persists is  *)
(* UtcDay(now) and this baseline.                                           *)
BaselineAfterUpdate_BootstrapKeeps(now, last_update, rate, new, utc_day, baseline) ==
  RolledBaseline(now, utc_day, baseline, rate)

BaselineAfterUpdate(now, last_update, rate, new, utc_day, baseline) ==
  IF last_update = 0 THEN new ELSE RolledBaseline(now, utc_day, baseline, rate)
=============================================================================
