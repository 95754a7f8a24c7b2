--------------------------- MODULE OracleHistory ---------------------------
(***************************************************************************)
(* ust1-oracle with two history variables, for what the contract promises  *)
(* about the past and does not itself store.                               *)
(***************************************************************************)
EXTENDS Ust1Oracle

VARIABLES
  day_open,   \* the rate in force when the current UTC day began, or the
              \* seeded rate if the oracle was first updated today
  nominator   \* the governor who made the pending proposal

history_vars == <<day_open, nominator>>

HistoryInit ==
  /\ OracleInit
  /\ day_open = rate
  /\ nominator = NoAddr

HistoryTick ==
  /\ Tick
  /\ day_open' = IF UtcDay(clock') # UtcDay(clock) THEN rate ELSE day_open
  /\ UNCHANGED nominator

HistoryUpdateRate(sender, new) ==
  /\ UpdateRate(sender, new)
  /\ day_open' = IF last_update = 0 THEN new ELSE day_open
  /\ UNCHANGED nominator

HistoryPropose(sender, addr) ==
  /\ OracleProposeGovernance(sender, addr)
  /\ nominator' = sender
  /\ UNCHANGED day_open

HistoryOther(sender) ==
  /\ \/ \E addr \in Addr : SetOracleOperator(sender, addr)
     \/ \E paused \in BOOLEAN : SetOraclePaused(sender, paused)
     \/ OracleAcceptGovernance(sender)
  /\ UNCHANGED history_vars

HistoryNext ==
  \/ HistoryTick
  \/ \E sender \in Addr :
       \/ \E new \in Rates : HistoryUpdateRate(sender, new)
       \/ \E addr \in Addr : HistoryPropose(sender, addr)
       \/ HistoryOther(sender)

HistorySpec == HistoryInit /\ [][HistoryNext]_<<chain_vars, history_vars>>

-----------------------------------------------------------------------------
(* Properties *)

HistoryTypeOK ==
  /\ OracleTypeOK
  /\ day_open \in 1..MaxU128
  /\ nominator \in Addr \cup {NoAddr}

(* INV-ORACLE-DAILY-001 as a reader means it: within a UTC day the rate stays *)
(* within the cap of the rate the day really began with, although the         *)
(* contract only learns that the day changed when it is next updated.  Only   *)
(* the very first update is exempt, and the cap is measured from it.          *)
WithinDailyCap ==
  \/ rate = day_open
  \/ DailyCapFits(day_open) /\ rate <= MaxRateAfterDailyCap(day_open)

(* A pending transfer of governance was always proposed by the governor in   *)
(* office: no proposal outlives the term of the one who made it.             *)
ProposalIsCurrent ==
  oracle_pending # NoAddr => nominator = oracle_governance
=============================================================================
