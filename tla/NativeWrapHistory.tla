------------------------- MODULE NativeWrapHistory -------------------------
(***************************************************************************)
(* cmm-native-wrap with the history its limits are about, per              *)
(* denomination: the notional settled at every block time (tokens minted   *)
(* by a wrap, burnt by an unwrap), and the greatest rolling limit so far.  *)
(***************************************************************************)
EXTENDS NativeWrap, Functions

(* The record has an entry for every block time up to the bound.             *)
ASSUME HistoryAssumption == StartTimes \subseteq 1..MaxTime

VARIABLES settled, limit_ceiling

history_vars == <<settled, limit_ceiling>>

HistoryInit ==
  /\ Init
  /\ settled = [d \in Denoms |-> [t \in 1..MaxTime |-> 0]]
  /\ limit_ceiling = rolling_limit

HistorySwap(denom) ==
  /\ Swap(denom)
  /\ LET moved == IF wrapped_supply'[denom] > wrapped_supply[denom]
                    THEN wrapped_supply'[denom] - wrapped_supply[denom]
                    ELSE wrapped_supply[denom] - wrapped_supply'[denom]
     IN  settled' = [settled EXCEPT ![denom][clock] = @ + moved]
  /\ UNCHANGED limit_ceiling

HistoryGovernance ==
  /\ Governance
  /\ limit_ceiling' = [d \in Denoms |->
       IF rolling_limit'[d] > limit_ceiling[d] THEN rolling_limit'[d] ELSE limit_ceiling[d]]
  /\ UNCHANGED settled

HistoryOther == (Minting \/ Tick) /\ UNCHANGED history_vars

HistoryNext ==
  (\E denom \in Denoms : HistorySwap(denom)) \/ HistoryGovernance \/ HistoryOther

HistorySpec == HistoryInit /\ [][HistoryNext]_<<vars, history_vars>>

-----------------------------------------------------------------------------
(* Properties *)

SettledIn(denom, from, to) ==
  SumFunctionOnSet(settled[denom], (from..to) \cap DOMAIN settled[denom])

(* INV-LIMIT-NATIVE-001: the meter of a denomination holds exactly what that *)
(* denomination settled in its own window, whatever the other one did and    *)
(* whichever of them opened its window first.                                *)
MetersAreExact ==
  \A d \in Denoms :
    /\ volume[d] = SettledIn(d, window_start[d], window_start[d] + Day - 1)
    /\ window_start[d] > 0 => SettledIn(d, window_start[d] + Day, MaxTime) = 0

(* Any span of one day carries at most twice the greatest limit the          *)
(* denomination has had.                                                     *)
AnyDayWithinTwiceLimit ==
  \A d \in Denoms, t \in 1..MaxTime :
    SettledIn(d, t, t + Day - 1) <= 2 * limit_ceiling[d]
=============================================================================
