--------------------------- MODULE ContractErrors ---------------------------
(***************************************************************************)
(* What a caller of ust1-oracle and ust1-window gets back: the error of    *)
(* the first check a call fails, in the order of the handlers, and the     *)
(* fee attributes of the event of a swap that passes.  The actions of the  *)
(* two contracts say only when a call succeeds; here every way to fail has *)
(* the name its ContractError variant has.                                 *)
(***************************************************************************)
EXTENDS Ust1Window, Sequences, FiniteSetsExt

(* A check is a pair of its condition and the error it returns.             *)
FirstError(checks) ==
  LET failed == {i \in DOMAIN checks : ~checks[i][1]}
  IN  IF failed = {} THEN "Ok" ELSE checks[Min(failed)][2]

-----------------------------------------------------------------------------
(* ust1-oracle *)

(* execute_update_rate, check_rate_update *)
UpdateRateError(sender, new) ==
  LET b == RolledBaseline(clock, utc_day, baseline, rate)
  IN  FirstError(<<
        <<~oracle_paused, "Paused">>,
        <<sender = oracle_operator, "Unauthorized">>,
        <<new > 0, "ZeroRate">>,
        <<~Throttled(clock, last_update), "UpdateTooSoon">>,
        <<new >= rate, "RateDecreased">>,
        <<last_update = 0 \/ (DailyCapFits(b) /\ new <= MaxRateAfterDailyCap(b)),
          "DailyCapExceeded">> >>)

(* The checks of AcceptGovernance, the same in both contracts.              *)
AcceptError(sender, proposed) ==
  FirstError(<< <<proposed # NoAddr, "NoPendingGovernance">>,
                <<sender = proposed, "InvalidGovernanceProposal">> >>)

-----------------------------------------------------------------------------
(* ust1-window *)

OracleFresh_AgeOnly == clock - last_update <= max_oracle_age

OracleFresh == last_update > 0 /\ clock - last_update <= max_oracle_age

(* ensure_oracle_usable: the pause is reported before the age.              *)
OracleChecks ==
  << <<~oracle_paused, "OraclePaused">>, <<OracleFresh, "OracleStale">> >>

LimitChecks_IgnoresCarried(notional) ==
  << <<notional <= per_tx_limit, "PerTxLimit">>, <<notional <= rolling_limit, "RollingLimit">> >>

LimitChecks(notional) ==
  LET next == CarriedVolume(clock, window_start, volume) + notional
  IN  << <<notional <= per_tx_limit, "PerTxLimit">>,
         <<FitsU128(next), "Overflow">>,
         <<next <= rolling_limit, "RollingLimit">> >>

DepositChecks(amount) ==
  LET ust1_out == DepositVfdusdToUst1(amount, rate, fee_bps)
  IN  << <<DepositFits(amount, rate, fee_bps), "Math">>,
         <<ust1_out > 0, "ZeroOutput">> >>
      \o LimitChecks(ust1_out)
      \o << <<FitsU128(ust1_supply + ust1_out), "Overflow">> >>

WithdrawChecks_TreasuryOfGross(gross, min_vfdusd_out) ==
  LET v_out == WithdrawGrossUst1ToVfdusd(gross, rate, fee_bps)
  IN  << <<WithdrawFits(gross, rate, fee_bps), "Math">>,
         <<v_out > 0, "ZeroOutput">>,
         <<v_out >= min_vfdusd_out, "BelowMinimum">>,
         <<gross <= treasury_vfdusd, "InsufficientVfdusd">> >>
      \o LimitChecks(gross)

WithdrawChecks(gross, min_vfdusd_out) ==
  LET v_out == WithdrawGrossUst1ToVfdusd(gross, rate, fee_bps)
  IN  << <<WithdrawFits(gross, rate, fee_bps), "Math">>,
         <<v_out > 0, "ZeroOutput">>,
         <<v_out >= min_vfdusd_out, "BelowMinimum">>,
         <<v_out <= treasury_vfdusd, "InsufficientVfdusd">> >>
      \o LimitChecks(gross)

Held(user, token) ==
  CASE token = "vfdusd" -> vfdusd[user]
    [] token = "ust1"   -> ust1[user]
    [] OTHER            -> MaxU128

(* A CW20 Send to the window, from the token's own balance check to          *)
(* receive_cw20 and the handler it chooses by the token that calls it.       *)
SendError(user, token, amount, hook, min_vfdusd_out) ==
  FirstError(
    << <<amount <= Held(user, token), "InsufficientFunds">>,
       <<~window_paused, "Paused">>,
       <<<<token, hook>> \in {<<"vfdusd", "Deposit">>, <<"ust1", "Withdraw">>}, "InvalidCw20Hook">> >>
    \o OracleChecks
    \o (IF token = "ust1" THEN WithdrawChecks(amount, min_vfdusd_out) ELSE DepositChecks(amount)))

(* The messages only governance may send; what they validate comes first.   *)
GovernanceError(sender, governor, valid, error) ==
  FirstError(<< <<valid, error>>, <<sender = governor, "Unauthorized">> >>)

-----------------------------------------------------------------------------
(* Fee attributes *)

FeeAmountUst1_OfTheNet(gross, fee) == (ApplyFeeUst1(gross, fee) * fee) \div BpsDenom

(* fee_amount_ust1: what apply_fee_ust1 withholds *)
FeeAmountUst1(gross, fee) == gross - ApplyFeeUst1(gross, fee)

(* chain_tax_and_cmm_protocol *)
ChainTax(fee) == fee \div 2
CmmProtocol(fee) == fee - ChainTax(fee)

(* with_fee_event_attrs: fee_amount is on the UST1 leg of either direction.  *)
FeeEvent(action, gross_ust1) ==
  [action               |-> action,
   fee_total_bps        |-> fee_bps,
   fee_chain_tax_bps    |-> ChainTax(fee_bps),
   fee_cmm_protocol_bps |-> CmmProtocol(fee_bps),
   fee_amount           |-> FeeAmountUst1(gross_ust1, fee_bps)]

DepositEvent(amount) == FeeEvent("deposit", VfdusdToUst1BeforeFee(amount, rate))

WithdrawEvent(gross) == FeeEvent("withdraw", gross)

-----------------------------------------------------------------------------
(* Properties *)

(* INV-FEE-EVENT-001: the fee a swap's event names is what the ledgers       *)
(* withheld in UST1, on a deposit (minted is less than what the treasury got *)
(* is worth) and on a withdrawal (paid is what the burnt UST1 less the fee   *)
(* is worth), and its two parts add up to the fee in force.                  *)
EventMatchesLedgers(e) ==
  /\ e.fee_chain_tax_bps + e.fee_cmm_protocol_bps = fee_bps
  /\ IF e.action = "deposit"
       THEN (ust1_supply' - ust1_supply) + e.fee_amount
              = VfdusdToUst1BeforeFee(treasury_vfdusd' - treasury_vfdusd, rate)
       ELSE treasury_vfdusd - treasury_vfdusd'
              = Ust1AfterFeeToVfdusd((ust1_supply - ust1_supply') - e.fee_amount, rate)

(* So for every swap of any size at any rate and fee, a reader that adds up  *)
(* the fees of the events has what the ledgers withheld.                     *)
SwapEventsMatch ==
  [][\A user \in Users, amount \in Amounts :
       /\ Deposit(user, amount) => EventMatchesLedgers(DepositEvent(amount))
       /\ \A min_out \in Amounts :
            Withdraw(user, amount, min_out) => EventMatchesLedgers(WithdrawEvent(amount))]_vars

(* InsufficientVfdusd ("treasury vFDUSD balance insufficient") is not an     *)
(* answer any holder gets while the window alone mints and spends: whatever  *)
(* it sends, one of the checks before that one refuses it, or none.          *)
HoldersAreNeverShort ==
  ~OpenCustody =>
    \A user \in Users, gross \in Amounts, min_out \in Amounts :
      SendError(user, "ust1", gross, "Withdraw", min_out) # "InsufficientVfdusd"
=============================================================================
