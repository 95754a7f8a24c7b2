--------------------------- MODULE WindowHistory ---------------------------
(***************************************************************************)
(* ust1-window with the history its volume limit is about: the UST1        *)
(* notional settled at every block time, and the greatest rolling limit    *)
(* governance has had in force.                                            *)
(***************************************************************************)
EXTENDS Ust1Window, Functions

(* The record has an entry for every block time up to the bound.             *)
ASSUME HistoryAssumption == StartTimes \subseteq 1..MaxTime

VARIABLES
  settled,        \* UST1 notional of the swaps of each block time
  limit_ceiling   \* the greatest rolling_limit so far

history_vars == <<settled, limit_ceiling>>

HistoryInit ==
  /\ Init
  /\ settled = [t \in 1..MaxTime |-> 0]
  /\ limit_ceiling = rolling_limit

(* A swap's notional is what it moves the supply of UST1 by.                 *)
HistorySwap ==
  /\ Swap
  /\ LET moved == IF ust1_supply' > ust1_supply
                    THEN ust1_supply' - ust1_supply
                    ELSE ust1_supply - ust1_supply'
     IN  settled' = [settled EXCEPT ![clock] = @ + moved]
  /\ UNCHANGED limit_ceiling

HistoryGovernance ==
  /\ Governance
  /\ limit_ceiling' = IF rolling_limit' > limit_ceiling THEN rolling_limit' ELSE limit_ceiling
  /\ UNCHANGED settled

HistoryOther == (OracleStep \/ Custody) /\ UNCHANGED history_vars

HistoryNext == HistorySwap \/ HistoryGovernance \/ HistoryOther

HistorySpec == HistoryInit /\ [][HistoryNext]_<<vars, history_vars>>

-----------------------------------------------------------------------------
(* Properties *)

SettledIn(from, to) == SumFunctionOnSet(settled, (from..to) \cap DOMAIN settled)

(* INV-LIMIT-001: the metered volume is exactly what was settled since the   *)
(* window opened, and nothing was settled after the window's day ended: no   *)
(* swap escapes the meter, whichever handler it went through and whatever    *)
(* governance did to the limits in between.                                  *)
VolumeIsExact ==
  /\ volume = SettledIn(window_start, window_start + Day - 1)
  /\ window_start > 0 => SettledIn(window_start + Day, MaxTime) = 0

(* What the fixed window really guarantees: any span of one day, wherever it *)
(* begins, carries at most twice the greatest limit in force.                *)
AnyDayWithinTwiceLimit ==
  \A t \in 1..MaxTime : SettledIn(t, t + Day - 1) <= 2 * limit_ceiling

(* EffectiveSwap reports the stored volume, which its type calls the         *)
(* "notional consumed in the current rolling window" that applies "to the    *)
(* next deposit or withdraw".                                                *)
ReportedVolumeApplies ==
  volume = CarriedVolume(clock, window_start, volume)
=============================================================================
