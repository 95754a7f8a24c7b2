----------------------------- MODULE NativeWrap -----------------------------
(***************************************************************************)
(* The cmm-native-wrap contract: a native coin in, its wrapped CW20 minted *)
(* one to one after the fee; the CW20 in, burnt, and the coin sent back.   *)
(* The contract itself holds the coins.  Denominations share the fee, the  *)
(* pause and the governor; limits and meters are kept per denomination.    *)
(***************************************************************************)
EXTENDS RollingLimit

CONSTANTS
  Addr, NoAddr,  \* accounts that may govern; no proposal
  Users,         \* holders of coins and wrapped tokens
  Denoms,        \* the denominations of Config.pairs
  Amounts,       \* amounts a user sends, and min_native_out values
  Fees,          \* fee_bps values
  Limits,        \* values of the volume limits
  UserNative,    \* what each user holds of each coin at first
  StartTimes, MaxTime,
  OpenMint       \* denominations whose wrapped token has other minters

ASSUME NativeWrapAssumption ==
  /\ Amounts \subseteq 0..MaxU128
  /\ Fees \subseteq Nat
  /\ Limits \subseteq 0..MaxU128
  /\ UserNative \in Nat
  /\ StartTimes \subseteq Nat \ {0}
  /\ MaxTime \in Nat
  /\ OpenMint \subseteq Denoms

VARIABLES
  clock,            \* env.block.time in seconds
  fee_bps,          \* Config.fee_bps
  paused,           \* Config.paused
  per_tx_limit,     \* DenomPair.per_tx_wrap_limit, per denomination
  rolling_limit,    \* DenomPair.rolling_24h_wrap_limit, per denomination
  window_start,     \* ROLLING[denom].window_start_sec
  volume,           \* ROLLING[denom].volume_wrap
  governance,       \* Config.governance
  pending,          \* PENDING_GOVERNANCE
  native,           \* coins of each denomination each user holds
  reserve,          \* coins of each denomination the contract holds
  wrapped,          \* wrapped tokens each user holds
  wrapped_supply    \* total_supply of each wrapped token

WrapGov == INSTANCE TwoStepGovernance

config_vars == <<fee_bps, paused, per_tx_limit, rolling_limit>>
rolling_vars == <<window_start, volume>>
gov_vars == <<governance, pending>>
ledger_vars == <<native, reserve, wrapped, wrapped_supply>>
vars == <<clock, config_vars, rolling_vars, gov_vars, ledger_vars>>

(* instantiate; validate_pairs makes the pairs a function of the denomination. *)
Init ==
  /\ clock \in StartTimes
  /\ fee_bps \in {f \in Fees : f <= BpsDenom}
  /\ paused = FALSE
  /\ per_tx_limit \in [Denoms -> Limits]
  /\ rolling_limit \in [Denoms -> Limits]
  /\ window_start = [d \in Denoms |-> 0]
  /\ volume = [d \in Denoms |-> 0]
  /\ WrapGov!Init
  /\ native = [d \in Denoms |-> [u \in Users |-> UserNative]]
  /\ reserve = [d \in Denoms |-> 0]
  /\ wrapped = [d \in Denoms |-> [u \in Users |-> 0]]
  /\ wrapped_supply = [d \in Denoms |-> 0]

-----------------------------------------------------------------------------
(* ensure_limits and the ROLLING.save that follows it in both handlers. *)
EnsureLimits_Shared(denom, notional) ==
  /\ WithinLimits(clock, window_start[denom], volume[denom], notional,
                  per_tx_limit[denom], rolling_limit[denom])
  /\ window_start' = [d \in Denoms |-> WindowStartAfter(clock, window_start[denom])]
  /\ volume' = [d \in Denoms |->
       CarriedVolume(clock, window_start[denom], volume[denom]) + notional]

EnsureLimits(denom, notional) ==
  /\ WithinLimits(clock, window_start[denom], volume[denom], notional,
                  per_tx_limit[denom], rolling_limit[denom])
  /\ window_start' = [window_start EXCEPT ![denom] = WindowStartAfter(clock, @)]
  /\ volume' = [volume EXCEPT ![denom] =
       CarriedVolume(clock, window_start[denom], @) + notional]

(* execute_wrap: the coin arrives with the call.  The amount minted may be 0. *)
Wrap(user, denom, amount) ==
  LET mint_amount == ApplyFeeUst1(amount, fee_bps)
  IN  /\ ~paused
      /\ amount \in 1..native[denom][user]
      /\ ApplyFeeFits(amount, fee_bps)
      /\ EnsureLimits(denom, mint_amount)
      /\ FitsU128(wrapped_supply[denom] + mint_amount)
      /\ native' = [native EXCEPT ![denom][user] = @ - amount]
      /\ reserve' = [reserve EXCEPT ![denom] = @ + amount]
      /\ wrapped' = [wrapped EXCEPT ![denom][user] = @ + mint_amount]
      /\ wrapped_supply' = [wrapped_supply EXCEPT ![denom] = @ + mint_amount]
      /\ UNCHANGED <<clock, config_vars, gov_vars>>

(* receive_cw20 with the Unwrap hook.  The limit counts the gross amount.    *)
(* An output of 0 passes the handler and fails in the bank module.           *)
Unwrap_BurnsNet(user, denom, gross, min_native_out) ==
  LET native_out == ApplyFeeUst1(gross, fee_bps)
  IN  /\ ~paused
      /\ gross <= wrapped[denom][user]
      /\ ApplyFeeFits(gross, fee_bps)
      /\ native_out >= min_native_out
      /\ gross <= reserve[denom]
      /\ EnsureLimits(denom, gross)
      /\ native_out > 0
      /\ wrapped' = [wrapped EXCEPT ![denom][user] = @ - gross]
      /\ wrapped_supply' = [wrapped_supply EXCEPT ![denom] = @ - native_out]
      /\ reserve' = [reserve EXCEPT ![denom] = @ - gross]
      /\ native' = [native EXCEPT ![denom][user] = @ + gross]
      /\ UNCHANGED <<clock, config_vars, gov_vars>>

Unwrap(user, denom, gross, min_native_out) ==
  LET native_out == ApplyFeeUst1(gross, fee_bps)
  IN  /\ ~paused
      /\ gross <= wrapped[denom][user]
      /\ ApplyFeeFits(gross, fee_bps)
      /\ native_out >= min_native_out
      /\ native_out <= reserve[denom]
      /\ EnsureLimits(denom, gross)
      /\ native_out > 0
      /\ wrapped' = [wrapped EXCEPT ![denom][user] = @ - gross]
      /\ wrapped_supply' = [wrapped_supply EXCEPT ![denom] = @ - gross]
      /\ reserve' = [reserve EXCEPT ![denom] = @ - native_out]
      /\ native' = [native EXCEPT ![denom][user] = @ + native_out]
      /\ UNCHANGED <<clock, config_vars, gov_vars>>
-----------------------------------------------------------------------------
(* gov.rs *)
SetPairLimits(sender, denom, per_tx, rolling) ==
  /\ sender = governance
  /\ per_tx_limit' = [per_tx_limit EXCEPT ![denom] = per_tx]
  /\ rolling_limit' = [rolling_limit EXCEPT ![denom] = rolling]
  /\ UNCHANGED <<clock, fee_bps, paused, rolling_vars, gov_vars, ledger_vars>>

SetPaused(sender, p) ==
  /\ sender = governance
  /\ paused' = p
  /\ UNCHANGED <<clock, fee_bps, per_tx_limit, rolling_limit, rolling_vars, gov_vars,
                 ledger_vars>>

SetFeeBps_Unvalidated(sender, fee) ==
  /\ sender = governance
  /\ fee_bps' = fee
  /\ UNCHANGED <<clock, paused, per_tx_limit, rolling_limit, rolling_vars, gov_vars,
                 ledger_vars>>

SetFeeBps(sender, fee) ==
  /\ fee <= BpsDenom
  /\ sender = governance
  /\ fee_bps' = fee
  /\ UNCHANGED <<clock, paused, per_tx_limit, rolling_limit, rolling_vars, gov_vars,
                 ledger_vars>>

ProposeGovernance(sender, addr) ==
  /\ WrapGov!ProposeGovernance(sender, addr)
  /\ UNCHANGED <<clock, config_vars, rolling_vars, ledger_vars>>

AcceptGovernance(sender) ==
  /\ WrapGov!AcceptGovernance(sender)
  /\ UNCHANGED <<clock, config_vars, rolling_vars, ledger_vars>>

-----------------------------------------------------------------------------
(* The chain around the contract. *)
OtherMint(user, denom, amount) ==
  /\ denom \in OpenMint
  /\ FitsU128(wrapped_supply[denom] + amount)
  /\ wrapped' = [wrapped EXCEPT ![denom][user] = @ + amount]
  /\ wrapped_supply' = [wrapped_supply EXCEPT ![denom] = @ + amount]
  /\ UNCHANGED <<clock, config_vars, rolling_vars, gov_vars, native, reserve>>

Tick ==
  /\ clock < MaxTime
  /\ clock' = clock + 1
  /\ UNCHANGED <<config_vars, rolling_vars, gov_vars, ledger_vars>>

Swap(denom) ==
  \E user \in Users, amount \in Amounts :
    \/ Wrap(user, denom, amount)
    \/ \E min_out \in Amounts : Unwrap(user, denom, amount, min_out)

Governance ==
  \E sender \in Addr :
    \/ \E denom \in Denoms, per_tx, rolling \in Limits :
         SetPairLimits(sender, denom, per_tx, rolling)
    \/ \E p \in BOOLEAN : SetPaused(sender, p)
    \/ \E fee \in Fees : SetFeeBps(sender, fee)
    \/ \E addr \in Addr : ProposeGovernance(sender, addr)
    \/ AcceptGovernance(sender)

Minting == \E user \in Users, denom \in Denoms, amount \in Amounts : OtherMint(user, denom, amount)

Next == (\E denom \in Denoms : Swap(denom)) \/ Governance \/ Minting \/ Tick

Spec == Init /\ [][Next]_vars

-----------------------------------------------------------------------------
(* Properties *)

TypeOK ==
  /\ clock \in Nat \ {0}
  /\ fee_bps \in 0..BpsDenom
  /\ paused \in BOOLEAN
  /\ per_tx_limit \in [Denoms -> 0..MaxU128] /\ rolling_limit \in [Denoms -> 0..MaxU128]
  /\ window_start \in [Denoms -> 0..clock] /\ volume \in [Denoms -> 0..MaxU128]
  /\ WrapGov!TypeOK
  /\ native \in [Denoms -> [Users -> Nat]] /\ reserve \in [Denoms -> Nat]
  /\ wrapped \in [Denoms -> [Users -> Nat]] /\ wrapped_supply \in [Denoms -> 0..MaxU128]

(* The contract stores no liability, so nothing but its arithmetic keeps it  *)
(* solvent: where it is the only minter, every wrapped token can be          *)
(* unwrapped at the fee in force and InsufficientNative is unreachable for a *)
(* holder, whatever has become of the other denominations.                   *)
AlwaysUnwrappable ==
  \A denom \in Denoms \ OpenMint : \A gross \in 0..wrapped_supply[denom] :
    ApplyFeeUst1(gross, fee_bps) <= reserve[denom]

(* What a step adds to a reserve beyond its wrapped supply is the fee on what *)
(* it moved, rounded up to one unit.                                         *)
FeeKept(denom) ==
  LET gain == (reserve'[denom] - wrapped_supply'[denom])
                - (reserve[denom] - wrapped_supply[denom])
      sent == IF reserve'[denom] > reserve[denom]
                THEN reserve'[denom] - reserve[denom]
                ELSE wrapped_supply[denom] - wrapped_supply'[denom]
  IN  /\ gain * BpsDenom >= sent * fee_bps
      /\ gain * BpsDenom < sent * fee_bps + BpsDenom

(* What a call moves between coins and wrapped tokens leaves exactly the fee *)
(* behind, rounded up to one unit, in either direction and at any fee;       *)
(* nothing but an outside mint lowers what a reserve holds beyond its        *)
(* wrapped supply.                                                           *)
ReserveKeepsTheFee == [][Minting \/ \A denom \in Denoms : FeeKept(denom)]_vars
=============================================================================
