-------------------------- MODULE NativeWrap_proofs --------------------------
(* cmm-native-wrap, for every set of denominations and every value of the    *)
(* constants: it stays solvent, its ledgers stay those of tokens, and its    *)
(* meters are exact.                                                         *)
EXTENDS NativeWrapHistory, Ust1Common_lemmas

(* The inductive invariant.  It needs the fee's range because a fee above    *)
(* BpsDenom would make a swap's output leave the range of its input.         *)
ReserveInv ==
  /\ fee_bps \in 0..BpsDenom
  /\ reserve \in [Denoms -> Nat]
  /\ wrapped_supply \in [Denoms -> Int]
  /\ \A d \in Denoms \ OpenMint : wrapped_supply[d] <= reserve[d]

LEMMA InitReserve == Init => ReserveInv
BY CommonAssumption, NativeWrapAssumption DEF Init, ReserveInv

LEMMA WrapKeepsReserve ==
  ASSUME ReserveInv, NEW user \in Users, NEW denom \in Denoms, NEW amount \in Amounts,
         Wrap(user, denom, amount)
  PROVE  ReserveInv'
<1> DEFINE mint == ApplyFeeUst1(amount, fee_bps)
<1>1. amount \in Nat
  BY NativeWrapAssumption, CommonAssumption
<1>2. mint \in 0..amount
  BY <1>1, FeeWithinAmount DEF ReserveInv
<1>3. /\ reserve' = [reserve EXCEPT ![denom] = @ + amount]
      /\ wrapped_supply' = [wrapped_supply EXCEPT ![denom] = @ + mint]
      /\ fee_bps' = fee_bps
  BY DEF Wrap, config_vars
<1> HIDE DEF mint
<1>4. reserve' \in [Denoms -> Nat] /\ wrapped_supply' \in [Denoms -> Int]
  BY <1>1, <1>2, <1>3 DEF ReserveInv
<1>5. ASSUME NEW d \in Denoms \ OpenMint PROVE wrapped_supply'[d] <= reserve'[d]
  BY <1>1, <1>2, <1>3, <1>5 DEF ReserveInv
<1>6. QED
  BY <1>3, <1>4, <1>5 DEF ReserveInv

LEMMA UnwrapKeepsReserve ==
  ASSUME ReserveInv, NEW user \in Users, NEW denom \in Denoms, NEW gross \in Amounts,
         NEW min_out \in Amounts, Unwrap(user, denom, gross, min_out)
  PROVE  ReserveInv'
<1> DEFINE out == ApplyFeeUst1(gross, fee_bps)
<1>1. gross \in Nat
  BY NativeWrapAssumption, CommonAssumption
<1>2. out \in 0..gross
  BY <1>1, FeeWithinAmount DEF ReserveInv
<1>3. /\ reserve' = [reserve EXCEPT ![denom] = @ - out]
      /\ wrapped_supply' = [wrapped_supply EXCEPT ![denom] = @ - gross]
      /\ out <= reserve[denom]
      /\ fee_bps' = fee_bps
  BY DEF Unwrap, config_vars
<1> HIDE DEF out
<1>4. reserve' \in [Denoms -> Nat] /\ wrapped_supply' \in [Denoms -> Int]
  BY <1>1, <1>2, <1>3 DEF ReserveInv
<1>5. ASSUME NEW d \in Denoms \ OpenMint PROVE wrapped_supply'[d] <= reserve'[d]
  BY <1>1, <1>2, <1>3, <1>5 DEF ReserveInv
<1>6. QED
  BY <1>3, <1>4, <1>5 DEF ReserveInv

LEMMA ReserveStep ==
  ASSUME ReserveInv, [Next]_vars
  PROVE  ReserveInv'
<1>1. ASSUME NEW denom \in Denoms, Swap(denom) PROVE ReserveInv'
  BY <1>1, WrapKeepsReserve, UnwrapKeepsReserve DEF Swap
<1>2. CASE Governance
  <2>1. PICK sender \in Addr :
          \/ \E denom \in Denoms, per_tx, rolling \in Limits :
               SetPairLimits(sender, denom, per_tx, rolling)
          \/ \E p \in BOOLEAN : SetPaused(sender, p)
          \/ \E fee \in Fees : SetFeeBps(sender, fee)
          \/ \E addr \in Addr : ProposeGovernance(sender, addr)
          \/ AcceptGovernance(sender)
    BY <1>2 DEF Governance
  <2>2. UNCHANGED <<reserve, wrapped_supply>>
    BY <2>1 DEF SetPairLimits, SetPaused, SetFeeBps, ProposeGovernance, AcceptGovernance,
       ledger_vars
  <2>3. fee_bps' \in 0..BpsDenom
    BY <2>1, NativeWrapAssumption, CommonAssumption DEF SetPairLimits, SetPaused, SetFeeBps,
       ProposeGovernance, AcceptGovernance, config_vars, ReserveInv
  <2>4. QED
    BY <2>2, <2>3 DEF ReserveInv
<1>3. CASE Minting
  <2>1. PICK user \in Users, denom \in Denoms, amount \in Amounts : OtherMint(user, denom, amount)
    BY <1>3 DEF Minting
  <2>2. QED
    BY <2>1, NativeWrapAssumption, CommonAssumption DEF OtherMint, config_vars, ReserveInv
<1>4. CASE UNCHANGED <<fee_bps, reserve, wrapped_supply>>
  BY <1>4 DEF ReserveInv
<1>5. QED
  BY <1>1, <1>2, <1>3, <1>4 DEF Next, Tick, vars, config_vars, ledger_vars

(* Every wrapped token of every denomination can be unwrapped at any fee.    *)
THEOREM WrappedAlwaysCovered == Spec => []AlwaysUnwrappable
<1>1. ReserveInv /\ [Next]_vars => ReserveInv'
  BY ReserveStep
<1>2. ReserveInv => AlwaysUnwrappable
  <2>1. SUFFICES ASSUME ReserveInv, NEW denom \in Denoms \ OpenMint,
                        NEW gross \in 0..wrapped_supply[denom]
                 PROVE  ApplyFeeUst1(gross, fee_bps) <= reserve[denom]
    BY DEF AlwaysUnwrappable
  <2>2. gross \in Nat /\ gross <= wrapped_supply[denom] /\ wrapped_supply[denom] \in Int
        /\ reserve[denom] \in Nat /\ wrapped_supply[denom] <= reserve[denom]
    BY <2>1 DEF ReserveInv
  <2>3. ApplyFeeUst1(gross, fee_bps) \in 0..gross
    BY <2>1, <2>2, FeeWithinAmount DEF ReserveInv
  <2>4. QED
    BY <2>2, <2>3
<1>3. QED
  BY <1>1, <1>2, InitReserve, PTL DEF Spec

(* A call keeps its fee, rounded up, in the reserve it touches, and leaves   *)
(* the other denominations alone.                                            *)
THEOREM FeeStaysInReserve == Spec => ReserveKeepsTheFee
<1> DEFINE
      gain(d) == (reserve'[d] - wrapped_supply'[d]) - (reserve[d] - wrapped_supply[d])
      sent(d) == IF reserve'[d] > reserve[d]
                   THEN reserve'[d] - reserve[d]
                   ELSE wrapped_supply[d] - wrapped_supply'[d]
<1>1. ASSUME ReserveInv, NEW d \in Denoms,
             reserve'[d] = reserve[d], wrapped_supply'[d] = wrapped_supply[d]
      PROVE  FeeKept(d)
  <2>1. gain(d) = 0 /\ sent(d) = 0
    BY <1>1 DEF ReserveInv
  <2>2. QED
    BY <1>1, <2>1, CommonAssumption DEF ReserveInv, FeeKept
<1>2. ASSUME ReserveInv, NEW user \in Users, NEW denom \in Denoms, NEW amount \in Amounts,
             Wrap(user, denom, amount), NEW d \in Denoms
      PROVE  FeeKept(d)
  <2> DEFINE mint == ApplyFeeUst1(amount, fee_bps)
  <2>1. amount \in Nat /\ amount >= 1
    BY <1>2, NativeWrapAssumption, CommonAssumption DEF Wrap
  <2>2. /\ reserve' = [reserve EXCEPT ![denom] = @ + amount]
        /\ wrapped_supply' = [wrapped_supply EXCEPT ![denom] = @ + mint]
    BY <1>2 DEF Wrap
  <2>3. CASE d # denom
    BY <1>1, <1>2, <2>2, <2>3 DEF ReserveInv
  <2>4. CASE d = denom
    <3>1. mint \in 0..amount
      BY <1>2, <2>1, FeeWithinAmount DEF ReserveInv
    <3>2. /\ amount * fee_bps <= (amount - mint) * BpsDenom
          /\ (amount - mint) * BpsDenom < amount * fee_bps + BpsDenom
      BY <1>2, <2>1, FeeRoundsUp DEF ReserveInv
    <3> HIDE DEF mint
    <3>3. reserve[d] \in Nat /\ wrapped_supply[d] \in Int
      BY <1>2 DEF ReserveInv
    <3>4. reserve'[d] = reserve[d] + amount /\ wrapped_supply'[d] = wrapped_supply[d] + mint
      BY <1>2, <2>2, <2>4 DEF ReserveInv
    <3>5. gain(d) = amount - mint /\ sent(d) = amount
      BY <2>1, <3>1, <3>3, <3>4
    <3>6. QED
      BY <3>2, <3>5, <2>1, <3>1, <1>2, CommonAssumption DEF ReserveInv, FeeKept
  <2>5. QED
    BY <2>3, <2>4
<1>3. ASSUME ReserveInv, NEW user \in Users, NEW denom \in Denoms, NEW gross \in Amounts,
             NEW min_out \in Amounts, Unwrap(user, denom, gross, min_out), NEW d \in Denoms
      PROVE  FeeKept(d)
  <2> DEFINE out == ApplyFeeUst1(gross, fee_bps)
  <2>1. gross \in Nat
    BY NativeWrapAssumption, CommonAssumption
  <2>2. /\ reserve' = [reserve EXCEPT ![denom] = @ - out]
        /\ wrapped_supply' = [wrapped_supply EXCEPT ![denom] = @ - gross]
    BY <1>3 DEF Unwrap
  <2>3. CASE d # denom
    BY <1>1, <1>3, <2>2, <2>3 DEF ReserveInv
  <2>4. CASE d = denom
    <3>1. out \in 0..gross
      BY <1>3, <2>1, FeeWithinAmount DEF ReserveInv
    <3>2. /\ gross * fee_bps <= (gross - out) * BpsDenom
          /\ (gross - out) * BpsDenom < gross * fee_bps + BpsDenom
      BY <1>3, <2>1, FeeRoundsUp DEF ReserveInv
    <3> HIDE DEF out
    <3>3. reserve[d] \in Nat /\ wrapped_supply[d] \in Int
      BY <1>3 DEF ReserveInv
    <3>4. reserve'[d] = reserve[d] - out /\ wrapped_supply'[d] = wrapped_supply[d] - gross
      BY <1>3, <2>2, <2>4 DEF ReserveInv
    <3>5. gain(d) = gross - out /\ sent(d) = gross
      BY <2>1, <3>1, <3>3, <3>4
    <3>6. QED
      BY <3>2, <3>5, <2>1, <3>1, <1>3, CommonAssumption DEF ReserveInv, FeeKept
  <2>5. QED
    BY <2>3, <2>4
<1>4. ReserveInv /\ [Next]_vars => [Minting \/ \A denom \in Denoms : FeeKept(denom)]_vars
  <2>1. SUFFICES ASSUME ReserveInv, Next, ~Minting, NEW d \in Denoms PROVE FeeKept(d)
    BY Zenon
  <2>2. CASE \E denom \in Denoms : Swap(denom)
    BY <1>2, <1>3, <2>1, <2>2 DEF Swap
  <2>3. CASE UNCHANGED ledger_vars
    BY <1>1, <2>1, <2>3 DEF ledger_vars
  <2>4. QED
    BY <2>1, <2>2, <2>3 DEF Next, Tick, Governance, SetPairLimits, SetPaused, SetFeeBps,
       ProposeGovernance, AcceptGovernance
<1>5. ReserveInv /\ [Next]_vars => ReserveInv'
  BY ReserveStep
<1>6. QED
  BY <1>4, <1>5, InitReserve, PTL DEF Spec, ReserveKeepsTheFee

-----------------------------------------------------------------------------
(* Types.  As in ust1-window, that a wrapped supply stays a natural number   *)
(* rests on its being what the users hold.                                   *)
TypeInv ==
  /\ TypeOK
  /\ \A d \in Denoms : LedgerSum(Users, wrapped[d], wrapped_supply[d])

(* instantiate sets fields of the right types, and nobody holds a wrapped    *)
(* token yet.                                                                *)
LEMMA InitTypes == Init => TypeInv
<1>1. SUFFICES ASSUME Init PROVE TypeInv
  OBVIOUS
<1>2. /\ clock \in Nat \ {0} /\ fee_bps \in 0..BpsDenom
      /\ per_tx_limit \in [Denoms -> Limits] /\ rolling_limit \in [Denoms -> Limits]
      /\ \A l \in Limits : l \in 0..MaxU128
      /\ window_start \in [Denoms -> 0..clock] /\ volume \in [Denoms -> 0..MaxU128]
      /\ native \in [Denoms -> [Users -> Nat]] /\ reserve \in [Denoms -> Nat]
      /\ wrapped \in [Denoms -> [Users -> Nat]] /\ wrapped_supply \in [Denoms -> 0..MaxU128]
  BY <1>1, NativeWrapAssumption, CommonAssumption DEF Init
<1>3. paused \in BOOLEAN /\ WrapGov!TypeOK
  BY <1>1, Zenon DEF Init, WrapGov!Init, WrapGov!TypeOK
<1>4. ASSUME NEW d \in Denoms PROVE LedgerSum(Users, wrapped[d], wrapped_supply[d])
  <2>1. wrapped[d] = [u \in Users |-> 0] /\ wrapped_supply[d] = 0
    BY <1>1 DEF Init
  <2>2. QED
    BY <2>1, LedgerOpens
<1>5. per_tx_limit \in [Denoms -> 0..MaxU128] /\ rolling_limit \in [Denoms -> 0..MaxU128]
  BY <1>2
<1>6. QED
  BY <1>2, <1>3, <1>4, <1>5 DEF TypeInv, TypeOK

(* What ensure_limits stores is in range, for the denomination it checks.    *)
LEMMA EnsureLimitsTypes ==
  ASSUME TypeInv, NEW denom \in Denoms, NEW n \in Nat, EnsureLimits(denom, n)
  PROVE  window_start' \in [Denoms -> 0..clock] /\ volume' \in [Denoms -> 0..MaxU128]
<1>1. /\ clock \in Nat /\ MaxU128 \in Nat
      /\ window_start \in [Denoms -> 0..clock] /\ volume \in [Denoms -> 0..MaxU128]
      /\ rolling_limit[denom] \in 0..MaxU128
  BY CommonAssumption DEF TypeInv, TypeOK
<1>2. CarriedVolume(clock, window_start[denom], volume[denom]) \in Nat
  BY <1>1 DEF CarriedVolume
<1>3. WindowStartAfter(clock, window_start[denom]) \in 0..clock
  BY <1>1 DEF WindowStartAfter
<1>4. CarriedVolume(clock, window_start[denom], volume[denom]) + n \in 0..MaxU128
  BY <1>1, <1>2 DEF EnsureLimits, WithinLimits
<1>5. QED
  BY <1>1, <1>3, <1>4 DEF EnsureLimits

(* Moving one user's tokens of one denomination and their supply alike.      *)
LEMMA WrappedMoves ==
  ASSUME TypeInv, NEW user \in Users, NEW denom \in Denoms, NEW n \in Int,
         wrapped[denom][user] + n \in Nat,
         wrapped' = [wrapped EXCEPT ![denom][user] = @ + n],
         wrapped_supply' = [wrapped_supply EXCEPT ![denom] = @ + n],
         wrapped_supply[denom] + n <= MaxU128
  PROVE  /\ wrapped' \in [Denoms -> [Users -> Nat]]
         /\ wrapped_supply' \in [Denoms -> 0..MaxU128]
         /\ \A d \in Denoms : LedgerSum(Users, wrapped'[d], wrapped_supply'[d])
<1> DEFINE held == wrapped[denom][user] + n
<1>1. /\ wrapped \in [Denoms -> [Users -> Nat]] /\ wrapped_supply \in [Denoms -> 0..MaxU128]
      /\ wrapped[denom] \in [Users -> Nat] /\ MaxU128 \in Nat
      /\ \A d \in Denoms : LedgerSum(Users, wrapped[d], wrapped_supply[d])
  BY CommonAssumption DEF TypeInv, TypeOK
<1>2. held \in Nat
  OBVIOUS
<1>3. wrapped_supply[denom] + held - wrapped[denom][user] = wrapped_supply[denom] + n
  BY <1>1
<1>4. wrapped' = [wrapped EXCEPT ![denom] = [wrapped[denom] EXCEPT ![user] = held]]
  OBVIOUS
<1> HIDE DEF held
<1>5. LedgerSum(Users, [wrapped[denom] EXCEPT ![user] = held],
                wrapped_supply[denom] + held - wrapped[denom][user])
  BY <1>1, <1>2, LedgerMoves
<1>6. wrapped' \in [Denoms -> [Users -> Nat]]
  BY <1>1, <1>2, <1>4
<1>7. wrapped'[denom] \in [Users -> Nat] /\ LedgerSum(Users, wrapped'[denom], wrapped_supply'[denom])
  BY <1>1, <1>3, <1>4, <1>5, <1>6
<1>8. wrapped_supply'[denom] \in Nat
  BY <1>7, LedgerBound
<1>9. \A d \in Denoms : LedgerSum(Users, wrapped'[d], wrapped_supply'[d])
  <2>1. ASSUME NEW d \in Denoms, d # denom
        PROVE  wrapped'[d] = wrapped[d] /\ wrapped_supply'[d] = wrapped_supply[d]
    BY <1>1, <1>4, <2>1
  <2>2. QED
    BY <1>1, <1>7, <2>1
<1>10. wrapped_supply' \in [Denoms -> 0..MaxU128]
  <2>1. wrapped_supply'[denom] = wrapped_supply[denom] + n
    BY <1>1
  <2>2. wrapped_supply[denom] + n \in 0..MaxU128
    BY <1>1, <1>8, <2>1
  <2>3. QED
    BY <1>1, <2>2
<1>11. QED
  BY <1>6, <1>9, <1>10

(* Each operation keeps the types.                                           *)
LEMMA WrapTypes ==
  ASSUME TypeInv, NEW user \in Users, NEW denom \in Denoms, NEW amount \in Amounts,
         Wrap(user, denom, amount)
  PROVE  TypeInv'
<1> DEFINE mint == ApplyFeeUst1(amount, fee_bps)
<1>1. /\ amount \in Nat /\ fee_bps \in 0..BpsDenom
      /\ native \in [Denoms -> [Users -> Nat]] /\ reserve \in [Denoms -> Nat]
      /\ wrapped[denom][user] \in Nat /\ wrapped_supply[denom] \in 0..MaxU128
  BY NativeWrapAssumption, CommonAssumption DEF TypeInv, TypeOK
<1>2. mint \in Nat
  BY <1>1, FeeWithinAmount
<1>3. /\ amount <= native[denom][user]
      /\ EnsureLimits(denom, mint)
      /\ wrapped_supply[denom] + mint <= MaxU128
      /\ native' = [native EXCEPT ![denom][user] = @ - amount]
      /\ reserve' = [reserve EXCEPT ![denom] = @ + amount]
      /\ wrapped' = [wrapped EXCEPT ![denom][user] = @ + mint]
      /\ wrapped_supply' = [wrapped_supply EXCEPT ![denom] = @ + mint]
      /\ UNCHANGED <<clock, config_vars, gov_vars>>
  BY DEF Wrap, FitsU128
<1> HIDE DEF mint
<1>4. native' \in [Denoms -> [Users -> Nat]] /\ reserve' \in [Denoms -> Nat]
  <2>1. native[denom][user] - amount \in Nat /\ reserve[denom] + amount \in Nat
    BY <1>1, <1>3
  <2>2. QED
    BY <1>1, <1>3, <2>1
<1>5. /\ wrapped' \in [Denoms -> [Users -> Nat]]
      /\ wrapped_supply' \in [Denoms -> 0..MaxU128]
      /\ \A d \in Denoms : LedgerSum(Users, wrapped'[d], wrapped_supply'[d])
  <2>1. mint \in Int /\ wrapped[denom][user] + mint \in Nat
    BY <1>1, <1>2
  <2>2. QED
    BY <1>3, <2>1, WrappedMoves
<1>6. window_start' \in [Denoms -> 0..clock'] /\ volume' \in [Denoms -> 0..MaxU128]
  BY <1>2, <1>3, EnsureLimitsTypes
<1>7. QED
  BY <1>3, <1>4, <1>5, <1>6 DEF TypeInv, TypeOK, config_vars, gov_vars, WrapGov!TypeOK

LEMMA UnwrapTypes ==
  ASSUME TypeInv, NEW user \in Users, NEW denom \in Denoms, NEW gross \in Amounts,
         NEW min_out \in Amounts, Unwrap(user, denom, gross, min_out)
  PROVE  TypeInv'
<1> DEFINE out == ApplyFeeUst1(gross, fee_bps)
           n == 0 - gross
<1>1. /\ gross \in Nat /\ fee_bps \in 0..BpsDenom
      /\ native \in [Denoms -> [Users -> Nat]] /\ reserve \in [Denoms -> Nat]
      /\ wrapped \in [Denoms -> [Users -> Nat]]
      /\ wrapped_supply \in [Denoms -> 0..MaxU128] /\ MaxU128 \in Nat
      /\ wrapped[denom][user] \in Nat /\ wrapped_supply[denom] \in 0..MaxU128
  BY NativeWrapAssumption, CommonAssumption DEF TypeInv, TypeOK
<1>2. out \in Nat
  BY <1>1, FeeWithinAmount
<1>3. /\ gross <= wrapped[denom][user]
      /\ out <= reserve[denom]
      /\ EnsureLimits(denom, gross)
      /\ wrapped' = [wrapped EXCEPT ![denom][user] = @ - gross]
      /\ wrapped_supply' = [wrapped_supply EXCEPT ![denom] = @ - gross]
      /\ reserve' = [reserve EXCEPT ![denom] = @ - out]
      /\ native' = [native EXCEPT ![denom][user] = @ + out]
      /\ UNCHANGED <<clock, config_vars, gov_vars>>
  BY DEF Unwrap
<1> HIDE DEF out
<1>4. native' \in [Denoms -> [Users -> Nat]] /\ reserve' \in [Denoms -> Nat]
  <2>1. native[denom][user] + out \in Nat /\ reserve[denom] - out \in Nat
    BY <1>1, <1>2, <1>3
  <2>2. QED
    BY <1>1, <1>3, <2>1
<1>5. /\ wrapped' \in [Denoms -> [Users -> Nat]]
      /\ wrapped_supply' \in [Denoms -> 0..MaxU128]
      /\ \A d \in Denoms : LedgerSum(Users, wrapped'[d], wrapped_supply'[d])
  <2>1. /\ n \in Int
        /\ wrapped[denom][user] + n = wrapped[denom][user] - gross
        /\ wrapped_supply[denom] + n = wrapped_supply[denom] - gross
    BY <1>1
  <2>2. /\ wrapped[denom][user] + n \in Nat
        /\ wrapped_supply[denom] + n <= MaxU128
    BY <1>1, <1>3, <2>1
  <2> HIDE DEF n
  <2>3. /\ wrapped' = [wrapped EXCEPT ![denom][user] = @ + n]
        /\ wrapped_supply' = [wrapped_supply EXCEPT ![denom] = @ + n]
    BY <1>3, <2>1
  <2>4. QED
    BY <2>1, <2>2, <2>3, WrappedMoves
<1>6. window_start' \in [Denoms -> 0..clock'] /\ volume' \in [Denoms -> 0..MaxU128]
  BY <1>1, <1>3, EnsureLimitsTypes
<1>7. QED
  BY <1>3, <1>4, <1>5, <1>6 DEF TypeInv, TypeOK, config_vars, gov_vars, WrapGov!TypeOK

(* The chain around the contract, governance, and every other step.          *)
LEMMA MintingTypes ==
  ASSUME TypeInv, Minting
  PROVE  TypeInv'
<1>1. PICK user \in Users, denom \in Denoms, amount \in Amounts : OtherMint(user, denom, amount)
  BY DEF Minting
<1>2. /\ wrapped_supply[denom] + amount <= MaxU128
      /\ wrapped' = [wrapped EXCEPT ![denom][user] = @ + amount]
      /\ wrapped_supply' = [wrapped_supply EXCEPT ![denom] = @ + amount]
      /\ UNCHANGED <<clock, config_vars, rolling_vars, gov_vars, native, reserve>>
  BY <1>1 DEF OtherMint, FitsU128
<1>3. amount \in Int /\ wrapped[denom][user] + amount \in Nat
  BY NativeWrapAssumption, CommonAssumption DEF TypeInv, TypeOK
<1>4. /\ wrapped' \in [Denoms -> [Users -> Nat]]
      /\ wrapped_supply' \in [Denoms -> 0..MaxU128]
      /\ \A d \in Denoms : LedgerSum(Users, wrapped'[d], wrapped_supply'[d])
  BY <1>2, <1>3, WrappedMoves
<1>5. QED
  BY <1>2, <1>4 DEF TypeInv, TypeOK, config_vars, rolling_vars, gov_vars, WrapGov!TypeOK

LEMMA GovernanceTypes ==
  ASSUME TypeInv, Governance
  PROVE  TypeInv'
<1>1. PICK sender \in Addr :
        \/ \E denom \in Denoms, per_tx, rolling \in Limits :
             SetPairLimits(sender, denom, per_tx, rolling)
        \/ \E p \in BOOLEAN : SetPaused(sender, p)
        \/ \E fee \in Fees : SetFeeBps(sender, fee)
        \/ \E addr \in Addr : ProposeGovernance(sender, addr)
        \/ AcceptGovernance(sender)
  BY DEF Governance
<1>2. UNCHANGED <<clock, rolling_vars, ledger_vars>>
  BY <1>1 DEF SetPairLimits, SetPaused, SetFeeBps, ProposeGovernance, AcceptGovernance
<1>3. /\ fee_bps' \in 0..BpsDenom
      /\ per_tx_limit' \in [Denoms -> 0..MaxU128] /\ rolling_limit' \in [Denoms -> 0..MaxU128]
  <2>1. /\ fee_bps \in 0..BpsDenom /\ BpsDenom \in Nat /\ Fees \subseteq Nat
        /\ \A l \in Limits : l \in 0..MaxU128
        /\ per_tx_limit \in [Denoms -> 0..MaxU128] /\ rolling_limit \in [Denoms -> 0..MaxU128]
    BY NativeWrapAssumption, CommonAssumption DEF TypeInv, TypeOK
  <2>2. ASSUME NEW denom \in Denoms, NEW per_tx \in Limits, NEW rolling \in Limits,
               SetPairLimits(sender, denom, per_tx, rolling)
        PROVE  /\ fee_bps' \in 0..BpsDenom
               /\ per_tx_limit' \in [Denoms -> 0..MaxU128]
               /\ rolling_limit' \in [Denoms -> 0..MaxU128]
    BY <2>1, <2>2 DEF SetPairLimits
  <2>3. CASE UNCHANGED <<per_tx_limit, rolling_limit>> /\ fee_bps' \in 0..BpsDenom
    BY <2>1, <2>3
  <2>4. QED
    BY <1>1, <2>1, <2>2, <2>3 DEF config_vars, SetPaused, SetFeeBps, ProposeGovernance,
       AcceptGovernance
<1>4. paused' \in BOOLEAN
  BY <1>1, Zenon DEF TypeInv, TypeOK, config_vars, SetPairLimits, SetPaused, SetFeeBps,
     ProposeGovernance, AcceptGovernance
<1>5. WrapGov!TypeOK'
  BY <1>1 DEF TypeInv, TypeOK, gov_vars, SetPairLimits, SetPaused, SetFeeBps,
     ProposeGovernance, AcceptGovernance, WrapGov!TypeOK, WrapGov!ProposeGovernance,
     WrapGov!AcceptGovernance
<1>6. QED
  BY <1>2, <1>3, <1>4, <1>5 DEF TypeInv, TypeOK, rolling_vars, ledger_vars

LEMMA TypeStep ==
  ASSUME TypeInv, [Next]_vars
  PROVE  TypeInv'
<1>1. ASSUME NEW denom \in Denoms, Swap(denom) PROVE TypeInv'
  BY <1>1, WrapTypes, UnwrapTypes DEF Swap
<1>2. CASE Tick
  <2>1. clock \in Nat \ {0} /\ clock' = clock + 1
    BY <1>2 DEF Tick, TypeInv, TypeOK
  <2>2. clock' \in Nat \ {0} /\ 0..clock \subseteq 0..clock'
    BY <2>1
  <2>3. window_start' \in [Denoms -> 0..clock']
    BY <1>2, <2>2 DEF Tick, TypeInv, TypeOK, rolling_vars
  <2>4. QED
    BY <1>2, <2>2, <2>3 DEF Tick, TypeInv, TypeOK, config_vars, rolling_vars, gov_vars,
       ledger_vars, WrapGov!TypeOK
<1>3. CASE UNCHANGED vars
  BY <1>3 DEF vars, TypeInv, TypeOK, config_vars, rolling_vars, gov_vars, ledger_vars,
     WrapGov!TypeOK
<1>4. QED
  BY <1>1, <1>2, <1>3, GovernanceTypes, MintingTypes DEF Next

(* Every stored field keeps its type: no balance goes below zero, no supply  *)
(* or metered volume leaves Uint128, no window opens in the future.          *)
THEOREM WrapTypesKept == Spec => []TypeOK
<1>1. TypeInv /\ [Next]_vars => TypeInv'
  BY TypeStep
<1>2. TypeInv => TypeOK
  BY DEF TypeInv
<1>3. QED
  BY <1>1, <1>2, InitTypes, PTL DEF Spec

-----------------------------------------------------------------------------
(* The meters against the record of what was settled (NativeWrapHistory).    *)
HistoryInv ==
  /\ TypeInv
  /\ clock \in 1..MaxTime
  /\ settled \in [Denoms -> [1..MaxTime -> Nat]]
  /\ limit_ceiling \in [Denoms -> Nat]
  /\ \A d \in Denoms :
       /\ rolling_limit[d] <= limit_ceiling[d]
       /\ MeterInv(MaxTime, settled[d], clock, window_start[d], volume[d], limit_ceiling[d])

(* At first nothing was settled and no window has been opened.               *)
LEMMA InitHistory == HistoryInit => HistoryInv
<1>1. SUFFICES ASSUME HistoryInit PROVE HistoryInv
  OBVIOUS
<1>2. TypeInv
  BY <1>1, InitTypes DEF HistoryInit
<1>3. /\ clock \in 1..MaxTime /\ MaxTime \in Nat
      /\ limit_ceiling = rolling_limit /\ limit_ceiling \in [Denoms -> Nat]
  BY <1>1, <1>2, NativeWrapAssumption, HistoryAssumption, CommonAssumption
     DEF HistoryInit, Init, TypeInv, TypeOK
<1>4. settled \in [Denoms -> [1..MaxTime -> Nat]]
  BY <1>1 DEF HistoryInit
<1>5. ASSUME NEW d \in Denoms
      PROVE  /\ rolling_limit[d] <= limit_ceiling[d]
             /\ MeterInv(MaxTime, settled[d], clock, window_start[d], volume[d], limit_ceiling[d])
  <2>1. settled[d] = [t \in 1..MaxTime |-> 0] /\ window_start[d] = 0 /\ volume[d] = 0
    BY <1>1 DEF HistoryInit, Init
  <2>2. limit_ceiling[d] \in Nat /\ rolling_limit[d] = limit_ceiling[d]
    BY <1>3
  <2>3. QED
    BY <1>3, <2>1, <2>2, MeterOpens
<1>6. QED
  BY <1>2, <1>3, <1>4, <1>5 DEF HistoryInv

(* Each call moves the wrapped supply by the notional its limits were        *)
(* checked for, which is 0 when a fee takes all of a wrap.                   *)
LEMMA SwapMoves ==
  ASSUME TypeInv, NEW denom \in Denoms, Swap(denom)
  PROVE  \E n \in Nat :
           /\ EnsureLimits(denom, n)
           /\ n = IF wrapped_supply'[denom] > wrapped_supply[denom]
                    THEN wrapped_supply'[denom] - wrapped_supply[denom]
                    ELSE wrapped_supply[denom] - wrapped_supply'[denom]
           /\ UNCHANGED <<clock, config_vars>>
<1>1. PICK user \in Users, amount \in Amounts :
        \/ Wrap(user, denom, amount)
        \/ \E min_out \in Amounts : Unwrap(user, denom, amount, min_out)
  BY DEF Swap
<1>2. /\ amount \in Nat /\ fee_bps \in 0..BpsDenom
      /\ wrapped_supply \in [Denoms -> 0..MaxU128] /\ wrapped_supply[denom] \in Nat
  BY NativeWrapAssumption, CommonAssumption DEF TypeInv, TypeOK
<1>3. CASE Wrap(user, denom, amount)
  <2> DEFINE n == ApplyFeeUst1(amount, fee_bps)
  <2>1. n \in Nat
    BY <1>2, FeeWithinAmount
  <2>2. /\ EnsureLimits(denom, n)
        /\ wrapped_supply' = [wrapped_supply EXCEPT ![denom] = @ + n]
        /\ UNCHANGED <<clock, config_vars>>
    BY <1>3 DEF Wrap
  <2> HIDE DEF n
  <2>3. wrapped_supply'[denom] = wrapped_supply[denom] + n
    BY <1>2, <2>2
  <2>4. n = IF wrapped_supply'[denom] > wrapped_supply[denom]
              THEN wrapped_supply'[denom] - wrapped_supply[denom]
              ELSE wrapped_supply[denom] - wrapped_supply'[denom]
    BY <1>2, <2>1, <2>3
  <2>5. QED
    BY <2>1, <2>2, <2>4
<1>4. CASE \E min_out \in Amounts : Unwrap(user, denom, amount, min_out)
  <2>1. /\ EnsureLimits(denom, amount)
        /\ wrapped_supply' = [wrapped_supply EXCEPT ![denom] = @ - amount]
        /\ UNCHANGED <<clock, config_vars>>
    BY <1>4 DEF Unwrap
  <2>2. wrapped_supply'[denom] = wrapped_supply[denom] - amount
    BY <1>2, <2>1
  <2>3. amount = IF wrapped_supply'[denom] > wrapped_supply[denom]
                   THEN wrapped_supply'[denom] - wrapped_supply[denom]
                   ELSE wrapped_supply[denom] - wrapped_supply'[denom]
    BY <1>2, <2>2
  <2>4. QED
    BY <1>2, <2>1, <2>3
<1>5. QED
  BY <1>1, <1>3, <1>4

(* The meter of the denomination swapped takes the notional; the others      *)
(* keep theirs.                                                              *)
LEMMA HistorySwapStep ==
  ASSUME HistoryInv, NEW denom \in Denoms, HistorySwap(denom), TypeInv'
  PROVE  HistoryInv'
<1>1. /\ clock \in 1..MaxTime
      /\ settled \in [Denoms -> [1..MaxTime -> Nat]] /\ settled[denom] \in [1..MaxTime -> Nat]
      /\ window_start \in [Denoms -> 0..clock] /\ volume \in [Denoms -> 0..MaxU128]
      /\ rolling_limit[denom] \in Nat /\ limit_ceiling \in [Denoms -> Nat]
      /\ MaxTime \in Nat
  <2>1. 0..MaxU128 \subseteq Nat
    BY CommonAssumption
  <2>2. QED
    BY <2>1, NativeWrapAssumption DEF HistoryInv, TypeInv, TypeOK
<1>2. PICK n \in Nat :
        /\ EnsureLimits(denom, n)
        /\ n = IF wrapped_supply'[denom] > wrapped_supply[denom]
                 THEN wrapped_supply'[denom] - wrapped_supply[denom]
                 ELSE wrapped_supply[denom] - wrapped_supply'[denom]
        /\ UNCHANGED <<clock, config_vars>>
  BY SwapMoves DEF HistoryInv, HistorySwap
<1>3. /\ settled' = [settled EXCEPT ![denom] = Settle(settled[denom], clock, n)]
      /\ limit_ceiling' = limit_ceiling /\ clock' = clock /\ rolling_limit' = rolling_limit
  BY <1>2 DEF HistorySwap, Settle, config_vars
<1>4. /\ WithinLimits(clock, window_start[denom], volume[denom], n, per_tx_limit[denom],
                      rolling_limit[denom])
      /\ window_start' = [window_start EXCEPT ![denom] = WindowStartAfter(clock, @)]
      /\ volume' = [volume EXCEPT ![denom] = CarriedVolume(clock, window_start[denom], @) + n]
  BY <1>2 DEF EnsureLimits
<1>5. Settle(settled[denom], clock, n) \in [1..MaxTime -> Nat]
  BY <1>1 DEF Settle
<1>6. settled' \in [Denoms -> [1..MaxTime -> Nat]]
  BY <1>1, <1>3, <1>5
<1>7. MeterInv(MaxTime, Settle(settled[denom], clock, n), clock,
               WindowStartAfter(clock, window_start[denom]),
               CarriedVolume(clock, window_start[denom], volume[denom]) + n,
               limit_ceiling[denom])
  <2>1. /\ MeterInv(MaxTime, settled[denom], clock, window_start[denom], volume[denom],
                    limit_ceiling[denom])
        /\ rolling_limit[denom] <= limit_ceiling[denom]
    BY DEF HistoryInv
  <2>2. QED
    BY <1>1, <1>4, <2>1, MeteredSwap
<1>8. ASSUME NEW d \in Denoms
      PROVE  /\ rolling_limit'[d] <= limit_ceiling'[d]
             /\ MeterInv(MaxTime, settled'[d], clock', window_start'[d], volume'[d],
                         limit_ceiling'[d])
  <2>1. /\ rolling_limit[d] <= limit_ceiling[d]
        /\ MeterInv(MaxTime, settled[d], clock, window_start[d], volume[d], limit_ceiling[d])
    BY DEF HistoryInv
  <2>2. CASE d = denom
    <3>1. /\ settled'[d] = Settle(settled[denom], clock, n)
          /\ window_start'[d] = WindowStartAfter(clock, window_start[denom])
          /\ volume'[d] = CarriedVolume(clock, window_start[denom], volume[denom]) + n
      BY <1>1, <1>3, <1>4, <2>2
    <3>2. QED
      BY <1>3, <1>7, <2>1, <2>2, <3>1
  <2>3. CASE d # denom
    <3>1. settled'[d] = settled[d] /\ window_start'[d] = window_start[d] /\ volume'[d] = volume[d]
      BY <1>1, <1>3, <1>4, <2>3
    <3>2. QED
      BY <1>3, <2>1, <3>1
  <2>4. QED
    BY <2>2, <2>3
<1>9. QED
  BY <1>1, <1>3, <1>6, <1>8 DEF HistoryInv

(* Any other step leaves record and meters alone, and only lets time pass or *)
(* a ceiling rise.                                                           *)
LEMMA HistoryStep ==
  ASSUME HistoryInv, [HistoryNext]_<<vars, history_vars>>
  PROVE  HistoryInv'
<1>1. TypeInv'
  <2>1. [Next]_vars
    BY DEF HistoryNext, HistorySwap, HistoryGovernance, HistoryOther, Next
  <2>2. QED
    BY <2>1, TypeStep DEF HistoryInv
<1>2. ASSUME NEW denom \in Denoms, HistorySwap(denom) PROVE HistoryInv'
  BY <1>1, <1>2, HistorySwapStep
<1>3. ASSUME UNCHANGED <<settled, rolling_vars>>,
             clock' \in 1..MaxTime, clock <= clock',
             limit_ceiling' \in [Denoms -> Nat],
             \A d \in Denoms : /\ limit_ceiling[d] <= limit_ceiling'[d]
                               /\ rolling_limit'[d] <= limit_ceiling'[d]
      PROVE  HistoryInv'
  <2>1. ASSUME NEW d \in Denoms
        PROVE  MeterInv(MaxTime, settled[d], clock', window_start[d], volume[d], limit_ceiling'[d])
    <3>1. /\ MeterInv(MaxTime, settled[d], clock, window_start[d], volume[d], limit_ceiling[d])
          /\ MaxTime \in Nat /\ limit_ceiling'[d] \in Nat
      BY <1>3, NativeWrapAssumption DEF HistoryInv
    <3>2. QED
      BY <1>3, <3>1, MeterKept
  <2>2. QED
    BY <1>1, <1>3, <2>1 DEF HistoryInv, rolling_vars
<1>4. /\ clock \in Nat \ {0} /\ clock' \in Nat \ {0} /\ MaxTime \in Nat
      /\ rolling_limit \in [Denoms -> Nat] /\ rolling_limit' \in [Denoms -> Nat]
      /\ limit_ceiling \in [Denoms -> Nat]
      /\ \A d \in Denoms : rolling_limit[d] <= limit_ceiling[d]
  <2>1. 0..MaxU128 \subseteq Nat
    BY CommonAssumption
  <2>2. rolling_limit \in [Denoms -> 0..MaxU128] /\ rolling_limit' \in [Denoms -> 0..MaxU128]
    BY <1>1 DEF HistoryInv, TypeInv, TypeOK
  <2>3. rolling_limit \in [Denoms -> Nat] /\ rolling_limit' \in [Denoms -> Nat]
    BY <2>1, <2>2
  <2>4. QED
    BY <1>1, <2>3, NativeWrapAssumption DEF HistoryInv, TypeInv, TypeOK
<1>5. CASE HistoryGovernance
  <2>1. UNCHANGED <<clock, rolling_vars, settled>>
    BY <1>5, Zenon DEF HistoryGovernance, Governance, SetPairLimits, SetPaused, SetFeeBps,
       ProposeGovernance, AcceptGovernance
  <2>2. /\ limit_ceiling' \in [Denoms -> Nat]
        /\ \A d \in Denoms : /\ limit_ceiling[d] <= limit_ceiling'[d]
                             /\ rolling_limit'[d] <= limit_ceiling'[d]
    BY <1>4, <1>5 DEF HistoryGovernance
  <2>3. clock' \in 1..MaxTime /\ clock <= clock'
    BY <1>4, <2>1 DEF HistoryInv
  <2>4. QED
    BY <1>3, <2>1, <2>2, <2>3
<1>6. CASE HistoryOther \/ UNCHANGED <<vars, history_vars>>
  <2>1. /\ clock' = clock \/ (clock' = clock + 1 /\ clock < MaxTime)
        /\ UNCHANGED <<rolling_limit, rolling_vars, settled, limit_ceiling>>
    BY <1>6 DEF HistoryOther, Minting, OtherMint, Tick, vars, config_vars, history_vars
  <2>2. clock' \in 1..MaxTime /\ clock <= clock'
    BY <1>4, <2>1 DEF HistoryInv
  <2>3. \A d \in Denoms : /\ limit_ceiling[d] <= limit_ceiling'[d]
                          /\ rolling_limit'[d] <= limit_ceiling'[d]
    BY <1>4, <2>1
  <2>4. QED
    BY <1>3, <1>4, <2>1, <2>2, <2>3
<1>7. QED
  BY <1>2, <1>5, <1>6 DEF HistoryNext

(* So every meter is true of the record in every reachable state.            *)
THEOREM WrapMeters == HistorySpec => []HistoryInv
<1>1. HistoryInv /\ [HistoryNext]_<<vars, history_vars>> => HistoryInv'
  BY HistoryStep
<1>2. QED
  BY <1>1, InitHistory, PTL DEF HistorySpec

(* Each denomination's meter holds exactly what that denomination settled    *)
(* since its own window opened, whatever the others did.                     *)
THEOREM WrapMetersAreExact == HistorySpec => []MetersAreExact
<1>1. HistoryInv => MetersAreExact
  <2>1. SUFFICES ASSUME HistoryInv, NEW d \in Denoms
                 PROVE  /\ volume[d] = SettledIn(d, window_start[d], window_start[d] + Day - 1)
                        /\ window_start[d] > 0
                             => SettledIn(d, window_start[d] + Day, MaxTime) = 0
    BY DEF MetersAreExact
  <2>2. /\ MaxTime \in Nat
        /\ MeterInv(MaxTime, settled[d], clock, window_start[d], volume[d], limit_ceiling[d])
    BY <2>1, NativeWrapAssumption DEF HistoryInv
  <2>3. /\ volume[d] = Span(settled[d], window_start[d], window_start[d] + Day - 1)
        /\ window_start[d] > 0 => Span(settled[d], window_start[d] + Day, MaxTime) = 0
    BY <2>2, MeterExact
  <2>4. QED
    BY <2>3, Zenon DEF SettledIn, Span
<1>2. QED
  BY <1>1, WrapMeters, PTL

(* No day carries more than twice the greatest limit its denomination had.   *)
THEOREM WrapDayWithinTwiceLimit == HistorySpec => []AnyDayWithinTwiceLimit
<1>1. HistoryInv => AnyDayWithinTwiceLimit
  BY DEF HistoryInv, MeterInv, AnyDayWithinTwiceLimit, SettledIn, Span
<1>2. QED
  BY <1>1, WrapMeters, PTL
=============================================================================
