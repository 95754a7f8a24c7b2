----------------------------- MODULE Ust1Oracle -----------------------------
(***************************************************************************)
(* The ust1-oracle contract: the FDUSD-per-vFDUSD rate, raised by one      *)
(* operator under the policy of ust1-common, and its governance.  A call   *)
(* the contract rejects leaves the chain as it was and is not an action.   *)
(***************************************************************************)
EXTENDS Ust1Common

CONSTANTS
  Addr,        \* accounts that may govern or operate a contract
  NoAddr,      \* no proposal is pending
  Rates,       \* rates a caller submits, and the initial rates
  StartTimes,  \* block times at which the oracle may be instantiated
  MaxTime      \* bound on the block time

ASSUME OracleAssumption ==
  /\ NoAddr \notin Addr
  /\ Rates \subseteq 0..MaxU128
  /\ StartTimes \subseteq Nat \ {0}
  /\ MaxTime \in Nat

VARIABLES
  clock,             \* env.block.time in seconds
  rate,              \* OracleState.rate
  last_update,       \* OracleState.last_update_sec, 0 before the first update
  utc_day,           \* OracleState.utc_day_id
  baseline,          \* OracleState.day_baseline_rate
  oracle_paused,     \* Config.paused
  oracle_operator,   \* Config.oracle_operator
  oracle_governance, \* Config.governance
  oracle_pending     \* PENDING_GOVERNANCE

price_vars == <<rate, last_update, utc_day, baseline>>
oracle_gov_vars == <<oracle_governance, oracle_pending>>
oracle_vars == <<price_vars, oracle_paused, oracle_operator, oracle_gov_vars>>
chain_vars == <<clock, oracle_vars>>

OracleGov == INSTANCE TwoStepGovernance
         WITH governance <- oracle_governance, pending <- oracle_pending

(* instantiate: initial_rate must not be zero; the baseline starts there.   *)
OracleInit ==
  /\ clock \in StartTimes
  /\ rate \in Rates \ {0}
  /\ last_update = 0
  /\ utc_day = UtcDay(clock)
  /\ baseline = rate
  /\ oracle_paused = FALSE
  /\ oracle_operator \in Addr
  /\ OracleGov!Init

(* execute_update_rate.  The state a successful update writes is split out  *)
(* of the handler: StoreRate(new) is its last block.                        *)
StoreRate_NextAllowedTime(new) ==
  /\ utc_day' = UtcDay(clock)
  /\ baseline' = BaselineAfterUpdate(clock, last_update, rate, new, utc_day, baseline)
  /\ rate' = new
  /\ last_update' = clock + MinUpdateInterval

StoreRate_ForgetsDay(new) ==
  /\ baseline' = BaselineAfterUpdate(clock, last_update, rate, new, utc_day, baseline)
  /\ rate' = new
  /\ last_update' = clock
  /\ UNCHANGED utc_day

StoreRate(new) ==
  /\ utc_day' = UtcDay(clock)
  /\ baseline' = BaselineAfterUpdate(clock, last_update, rate, new, utc_day, baseline)
  /\ rate' = new
  /\ last_update' = clock

UpdateRate_IgnoresPause(sender, new) ==
  /\ sender = oracle_operator
  /\ CheckRateUpdate(clock, last_update, rate, new, utc_day, baseline)
  /\ StoreRate(new)
  /\ UNCHANGED <<clock, oracle_paused, oracle_operator, oracle_gov_vars>>

UpdateRate(sender, new) ==
  /\ ~oracle_paused
  /\ sender = oracle_operator
  /\ CheckRateUpdate(clock, last_update, rate, new, utc_day, baseline)
  /\ StoreRate(new)
  /\ UNCHANGED <<clock, oracle_paused, oracle_operator, oracle_gov_vars>>

SetOracleOperator(sender, addr) ==
  /\ sender = oracle_governance
  /\ oracle_operator' = addr
  /\ UNCHANGED <<clock, price_vars, oracle_paused, oracle_gov_vars>>

SetOraclePaused(sender, paused) ==
  /\ sender = oracle_governance
  /\ oracle_paused' = paused
  /\ UNCHANGED <<clock, price_vars, oracle_operator, oracle_gov_vars>>

OracleProposeGovernance(sender, addr) ==
  /\ OracleGov!ProposeGovernance(sender, addr)
  /\ UNCHANGED <<clock, price_vars, oracle_paused, oracle_operator>>

OracleAcceptGovernance(sender) ==
  /\ OracleGov!AcceptGovernance(sender)
  /\ UNCHANGED <<clock, price_vars, oracle_paused, oracle_operator>>

OracleCall(sender) ==
  \/ \E new \in Rates : UpdateRate(sender, new)
  \/ \E addr \in Addr : SetOracleOperator(sender, addr)
  \/ \E paused \in BOOLEAN : SetOraclePaused(sender, paused)
  \/ \E addr \in Addr : OracleProposeGovernance(sender, addr)
  \/ OracleAcceptGovernance(sender)

(* The next block: time passes between transactions. *)
Tick ==
  /\ clock < MaxTime
  /\ clock' = clock + 1
  /\ UNCHANGED oracle_vars

OracleNext == Tick \/ \E sender \in Addr : OracleCall(sender)

OracleSpec == OracleInit /\ [][OracleNext]_chain_vars

-----------------------------------------------------------------------------
(* Properties *)

(* Every stored field has its type, the rate is never zero, and no update is *)
(* recorded in the future of the block time.                                 *)
OracleTypeOK ==
  /\ clock \in Nat \ {0}
  /\ rate \in 1..MaxU128
  /\ last_update \in 0..clock
  /\ utc_day \in Nat
  /\ baseline \in 1..MaxU128
  /\ oracle_paused \in BOOLEAN
  /\ oracle_operator \in Addr
  /\ OracleGov!TypeOK

(* INV-ORACLE-MONO-001 with INV-ORACLE-THROTTLE-001, over any interleaving   *)
(* of operator and governance calls: the stored price only moves while the   *)
(* oracle is not paused, never down, and never again within the minimum      *)
(* interval of the update before it.                                         *)
PriceMovesForward ==
  [][price_vars' # price_vars =>
       /\ ~oracle_paused
       /\ rate' >= rate
       /\ last_update' = clock
       /\ last_update > 0 => clock >= last_update + MinUpdateInterval]_chain_vars

(* The heartbeat the service relies on to keep swaps open: once the throttle *)
(* has passed, submitting the stored rate again is accepted, on every day    *)
(* and after any history of raises, unless the cap arithmetic itself leaves  *)
(* Uint128.                                                                  *)
HeartbeatAccepted ==
  last_update > 0 /\ ~Throttled(clock, last_update) /\ DailyCapFits(rate)
    => CheckRateUpdate(clock, last_update, rate, rate, utc_day, baseline)
=============================================================================
