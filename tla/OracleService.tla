--------------------------- MODULE OracleService ---------------------------
(***************************************************************************)
(* The oracle-service operator loop beside the ust1-oracle contract: it    *)
(* polls BSC, decides on the oracle's State, broadcasts UpdateRate, waits  *)
(* for the transaction and pages when it has been silent for too long.     *)
(* Requests go through an LCD whose answers may be out of date; any of     *)
(* them may fail; a transaction may be lost or land after the service has  *)
(* given up on it.  Time stands still only for deadlines of the service's  *)
(* own timers: tokio wakes it when they are due.                           *)
(***************************************************************************)
EXTENDS Ust1Oracle

CONSTANTS
  Service,          \* the service's account
  BscRates,         \* rates BSC may agree on
  Skews,            \* local clock minus block time
  PollInterval,     \* POLL_INTERVAL_SECS
  TickTimeout,      \* TICK_TIMEOUT_SECS
  MaxSilence,       \* ORACLE_MAX_SILENCE_SECS
  MaxOracleAge,     \* DEFAULT_MAX_ORACLE_AGE_SECS of the window
  LcdLag,           \* how long an LCD may answer from an earlier state
  EventsStripped,   \* the LCD returns transactions without wasm events
  MaxRestarts       \* bound on restarts

ASSUME ServiceAssumption ==
  /\ Service \in Addr
  /\ BscRates \subseteq Rates
  /\ Skews \subseteq Int
  /\ PollInterval \in Nat \ {0}
  /\ TickTimeout \in Nat \ {0}
  /\ MaxSilence \in Nat
  /\ MaxOracleAge \in Nat
  /\ LcdLag \in Nat
  /\ EventsStripped \in BOOLEAN
  /\ MaxRestarts \in Nat

VARIABLES
  phase,         \* where run_once stands: "read", "broadcast" or "confirm";
                 \* "sleep" between ticks, "down" while the process is not up
  deadline,      \* when the tick times out, or the sleep ends
  tx,            \* the intended update, and its sequence once broadcast
  prior,         \* last_update_sec of the State the tick decided on
  started,       \* LivenessTracker.started
  last_success,  \* LivenessTracker.last_successful_broadcast, 0 for None
  alerting,      \* what the last liveness check found
  missed,        \* ticks since the last update or start that tried in vain
  restarts       \* starts of the process after the first

VARIABLES
  mempool,       \* the service's transactions that may yet be included
  sequence,      \* its account sequence on chain
  index,         \* its included transactions, with their DeliverTx result
  stale          \* earlier chain states an LCD may still answer from

tracker_vars == <<started, last_success, alerting>>
service_vars == <<phase, deadline, tx, prior, tracker_vars, missed, restarts>>
terra_vars == <<mempool, sequence, index, stale>>
vars == <<chain_vars, service_vars, terra_vars>>

NoTx == [rate |-> 0, sequence |-> 0]
InTick == phase \in {"read", "broadcast", "confirm"}

(* What an LCD answers from: the State of the oracle, the account sequence,  *)
(* and with it which of the service's transactions it has seen included.     *)
ChainState ==
  [rate |-> rate, last_update |-> last_update, utc_day |-> utc_day,
   baseline |-> baseline, paused |-> oracle_paused, sequence |-> sequence]

LcdAnswers == {ChainState} \cup {s.state : s \in stale}

(* Conjoined to the steps that change what an LCD answers from.              *)
LcdMayLag ==
  stale' = {s \in stale \cup {[state |-> ChainState, until |-> clock + LcdLag]} :
              LcdLag > 0 /\ s.state # ChainState'}

(* The service is the operator from the start, and somebody else governs.    *)
ServiceInit ==
  /\ OracleInit
  /\ oracle_operator = Service /\ oracle_governance # Service
  /\ phase = "sleep" /\ deadline = clock
  /\ tx = NoTx /\ prior = 0
  /\ started = clock /\ last_success = 0 /\ alerting = FALSE
  /\ missed = 0 /\ restarts = 0
  /\ mempool = {} /\ sequence = 0 /\ index = {} /\ stale = {}

-----------------------------------------------------------------------------
(* The operator loop *)

(* silence_since_last_broadcast and should_alert *)
Silence == clock - (IF last_success = 0 THEN started ELSE last_success)

ShouldAlert == Silence > MaxSilence

(* The head of the loop: the liveness check, then a tick and its timeout.    *)
BeginTick ==
  /\ phase = "sleep" /\ clock >= deadline
  /\ alerting' = ShouldAlert
  /\ phase' = "read" /\ deadline' = clock + TickTimeout
  /\ UNCHANGED <<chain_vars, terra_vars, tx, prior, started, last_success, missed, restarts>>

(* A tick ends, one way or another, in the sleep until the next one.         *)
EndTick ==
  /\ phase' = "sleep" /\ deadline' = clock + PollInterval
  /\ tx' = NoTx /\ prior' = 0

(* Any await of a tick may return an error, or be cut off by the timeout.    *)
TickFails ==
  /\ InTick
  /\ EndTick
  /\ missed' = missed + 1
  /\ UNCHANGED <<chain_vars, terra_vars, tracker_vars, restarts>>

(* decide_tick_action, on what BSC, the LCD and the local clock say.         *)
SubmitAllowed(proposed, state, now) ==
  /\ ~state.paused
  /\ CheckRateUpdate(now, state.last_update, state.rate, proposed, state.utc_day, state.baseline)

Decide_NoHeartbeat(proposed, state, now) ==
  IF proposed # state.rate /\ SubmitAllowed(proposed, state, now) THEN "submit"
  ELSE IF ~state.paused /\ (proposed = state.rate \/ Throttled(now, state.last_update))
         THEN "throttled"
         ELSE "rejected"

Decide(proposed, state, now) ==
  IF SubmitAllowed(proposed, state, now) THEN "submit"
  ELSE IF ~state.paused /\ proposed > 0 /\ Throttled(now, state.last_update)
         THEN "throttled"
         ELSE "rejected"

(* The head of run_once: BSC is read before the State, and the local clock   *)
(* after it.                                                                 *)
ReadAndDecide ==
  \E proposed \in BscRates, state \in LcdAnswers, skew \in Skews :
    LET decision == Decide(proposed, state, clock + skew)
    IN  /\ phase = "read"
        /\ \/ /\ decision = "submit"
              /\ phase' = "broadcast"
              /\ tx' = [rate |-> proposed, sequence |-> 0]
              /\ prior' = state.last_update
              /\ UNCHANGED <<deadline, missed>>
           \/ decision = "throttled" /\ EndTick /\ UNCHANGED missed
           \/ decision = "rejected" /\ EndTick /\ missed' = missed + 1
        /\ UNCHANGED <<chain_vars, terra_vars, tracker_vars, restarts>>

(* sign_and_broadcast_execute: CheckTx accepts a transaction whose sequence  *)
(* is the one the node expects, which it is not while an earlier one is      *)
(* pending.  The retry after a sequence mismatch only asks another time.     *)
(* The reply may be lost although the node has the transaction.              *)
Signed_NextSequence(state) == [tx EXCEPT !.sequence = state.sequence + 1]

Signed(state) == [tx EXCEPT !.sequence = state.sequence]

Broadcast ==
  \E state \in LcdAnswers :
    /\ phase = "broadcast"
    /\ mempool = {}
    /\ mempool' = {Signed(state)}
    /\ \/ /\ phase' = "confirm" /\ tx' = Signed(state)
          /\ UNCHANGED <<deadline, prior, missed>>
       \/ EndTick /\ missed' = missed + 1
    /\ UNCHANGED <<chain_vars, sequence, index, stale, tracker_vars, restarts>>

(* wait_for_deliver_tx_success: signing is deterministic, so one sequence    *)
(* and one rate may well be one hash.                                        *)
Delivered(t) ==
  \E state \in LcdAnswers :
    /\ t.sequence < state.sequence
    /\ [tx |-> t, ok |-> TRUE] \in index

(* confirm_state_with_retry, where there are no events to prove the write.   *)
StateMatches(t) ==
  \E state \in LcdAnswers : state.rate = t.rate /\ state.last_update > prior

Confirmed_StateOnly == StateMatches(tx)

Confirmed_CheckTx == TRUE

Confirmed == Delivered(tx) /\ (EventsStripped => StateMatches(tx))

(* submit_and_confirm_oracle_update returns Ok: record_successful_broadcast. *)
Confirm ==
  /\ phase = "confirm"
  /\ Confirmed
  /\ last_success' = clock
  /\ EndTick
  /\ UNCHANGED <<chain_vars, terra_vars, started, alerting, missed, restarts>>

(* The process stops, at any point; a new one knows nothing of the old.      *)
Stop ==
  /\ phase # "down" /\ restarts < MaxRestarts
  /\ phase' = "down" /\ deadline' = 0
  /\ tx' = NoTx /\ prior' = 0
  /\ UNCHANGED <<chain_vars, terra_vars, tracker_vars, missed, restarts>>

Start ==
  /\ phase = "down"
  /\ phase' = "sleep" /\ deadline' = clock
  /\ started' = clock /\ last_success' = 0 /\ alerting' = FALSE
  /\ missed' = 0 /\ restarts' = restarts + 1
  /\ UNCHANGED <<chain_vars, terra_vars, tx, prior>>

-----------------------------------------------------------------------------
(* The chain *)

(* A block includes a pending transaction of the expected sequence; it may   *)
(* also fail, for its gas or because the contract rejects it.                *)
Include ==
  \E t \in mempool, ok \in BOOLEAN :
    /\ t.sequence = sequence
    /\ IF ok
         THEN UpdateRate(Service, t.rate) /\ missed' = 0
         ELSE UNCHANGED <<chain_vars, missed>>
    /\ sequence' = sequence + 1
    /\ index' = index \cup {[tx |-> t, ok |-> ok]}
    /\ mempool' = {}
    /\ LcdMayLag
    /\ UNCHANGED <<phase, deadline, tx, prior, tracker_vars, restarts>>

(* Eviction from the mempool: a full pool, an outdated sequence, a restart.  *)
Evict ==
  /\ mempool # {} /\ mempool' = {}
  /\ UNCHANGED <<chain_vars, service_vars, sequence, index, stale>>

(* Governance and other operators, as far as the service can notice them.    *)
OthersAct ==
  /\ \E sender \in Addr :
       \/ \E paused \in BOOLEAN : SetOraclePaused(sender, paused)
       \/ \E addr \in Addr : SetOracleOperator(sender, addr)
       \/ sender # Service /\ \E new \in Rates : UpdateRate(sender, new)
  /\ UNCHANGED <<service_vars, mempool, sequence, index>>
  /\ LcdMayLag

(* Time passes.  What has become of a transaction is kept as long as the     *)
(* service may ask for it: while it waits for it, or may sign it once more.  *)
TimePasses ==
  /\ Tick
  /\ phase # "down" => clock < deadline
  /\ stale' = {s \in stale : clock' < s.until}
  /\ UNCHANGED <<service_vars, mempool, sequence>>
  /\ index' = {e \in index : e.tx = tx \/ \E state \in LcdAnswers' : state.sequence <= e.tx.sequence}

ServiceStep ==
  BeginTick \/ ReadAndDecide \/ Broadcast \/ Confirm \/ TickFails \/ Stop \/ Start

ServiceNext == ServiceStep \/ Include \/ Evict \/ OthersAct \/ TimePasses

ServiceSpec == ServiceInit /\ [][ServiceNext]_vars

-----------------------------------------------------------------------------
(* Properties *)

ServiceTypeOK ==
  /\ OracleTypeOK
  /\ phase \in {"read", "broadcast", "confirm", "sleep", "down"}
  /\ deadline \in Nat
  /\ tx.rate \in Nat /\ tx.sequence \in 0..sequence
  /\ prior \in 0..clock
  /\ started \in 1..clock /\ last_success \in 0..clock
  /\ alerting \in BOOLEAN
  /\ missed \in Nat /\ restarts \in 0..MaxRestarts
  /\ \A t \in mempool : t.sequence \in 0..sequence
  /\ \A e \in index : e.tx.sequence < sequence
  /\ \A s \in stale : s.state.last_update <= last_update /\ clock < s.until

Latest(a, b) == IF a < b THEN b ELSE a

(* INV-ORACLE-LIVENESS-001: a success is only recorded for a transaction of  *)
(* this tick's rate that the chain has executed, not for one it has merely   *)
(* accepted, and not because somebody else's update matches.                 *)
SuccessIsDelivered ==
  [][last_success' # last_success /\ last_success' # 0 =>
       [tx |-> tx, ok |-> TRUE] \in index]_vars

(* The end-to-end promise of the silence alert.  Whatever fails, is lost or  *)
(* lands late, a running service pages once the rate on chain is older than  *)
(* the threshold by a poll interval, two tick timeouts and the LCD's lag.    *)
AgedRateIsPaged ==
  phase # "down"
    /\ clock - Latest(last_update, started)
         > MaxSilence + PollInterval + 2 * TickTimeout + LcdLag
  => alerting

(* When an update is due: the process up, and the throttle over by the       *)
(* slowest local clock.                                                      *)
SlowestClock == CHOOSE s \in Skews : \A k \in Skews : s <= k

Due == IF last_update = 0 THEN started
       ELSE Latest(last_update + MinUpdateInterval - SlowestClock, started)

(* Progress, as a bound: once an update is due the rate waits less than one  *)
(* poll interval and one tick, and as much again for each tick that tried in *)
(* vain.  A tick that neither updates nor fails is impossible then: equal    *)
(* rates are refreshed and no timer is lost.                                 *)
RateAgeBounded ==
  phase # "down" => clock - Due < (1 + missed) * (PollInterval + TickTimeout)

(* INV-ORACLE-OPS-POLL-001 as config.rs words it: "one missed tick cannot    *)
(* exhaust staleness".                                                       *)
OneMissedTickIsHarmless ==
  phase # "down" /\ last_update > 0 /\ missed <= 1 => clock - last_update <= MaxOracleAge
=============================================================================
