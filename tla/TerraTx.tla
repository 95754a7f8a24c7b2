------------------------------ MODULE TerraTx ------------------------------
(***************************************************************************)
(* A tick of the oracle service request by request: terra_tx.rs signs and  *)
(* broadcasts the update and polls for its inclusion, confirm.rs and       *)
(* submit_and_confirm_oracle_update decide whether it is proved.  Every    *)
(* request is a step of its own, so blocks, other operators, timers and    *)
(* lagging LCD nodes come between any two of them.  OracleService is what  *)
(* these steps add up to.                                                  *)
(***************************************************************************)
EXTENDS OracleService, TxEvents

CONSTANTS
  GasPrice,         \* TERRA_GAS_PRICE
  NetworkMinPrice,  \* minimum gas price of the nodes
  ConfirmTimeout,   \* TX_CONFIRM_TIMEOUT_SECS
  ConfirmPoll,      \* TX_CONFIRM_POLL_INTERVAL_MS and its jitter
  StateAttempts,    \* STATE_CONFIRM_RETRY_ATTEMPTS
  Executions        \* what the wasm events of a transaction may tell of

ASSUME TerraTxAssumption ==
  /\ GasPrice \in Nat /\ NetworkMinPrice \in Nat
  /\ ConfirmTimeout \in Nat
  /\ ConfirmPoll \in Nat \ {0}
  /\ StateAttempts \in Nat \ {0}
  /\ Executions \subseteq Seq(Execution)
  /\ EventsStripped => \A executions \in Executions : GroupStarts(Reported(executions)) = {}

VARIABLES
  step,        \* the request that comes next in phases broadcast and confirm
  signing,     \* the account sequence the transaction is signed with
  gas_price,   \* the gas price its fee is computed from
  retried,     \* the one retry after a sequence mismatch is used up
  confirm_by,  \* deadline of the polling
  wake,        \* when the sleep between two polls is over
  attempt,     \* of the State queries where events are absent
  executed,    \* what the delivered transaction's events tell of
  posted       \* transactions of this tick that a node accepted

request_vars == <<step, signing, gas_price, retried, confirm_by, wake, attempt, executed, posted>>
all_vars == <<vars, request_vars>>

NoRequests ==
  /\ step = "none" /\ signing = 0 /\ gas_price = 0 /\ retried = FALSE
  /\ confirm_by = 0 /\ wake = 0 /\ attempt = 0 /\ executed = <<>> /\ posted = 0

TerraInit == ServiceInit /\ NoRequests

(* Dropping the tick's future forgets all that it knew. *)
TickOver ==
  /\ step' = "none" /\ signing' = 0 /\ gas_price' = 0 /\ retried' = FALSE
  /\ confirm_by' = 0 /\ wake' = 0 /\ attempt' = 0 /\ executed' = <<>> /\ posted' = 0

-----------------------------------------------------------------------------
(* sign_and_broadcast_execute *)

Decides ==
  /\ ReadAndDecide
  /\ step' = IF phase' = "broadcast" THEN "account" ELSE "none"
  /\ UNCHANGED <<signing, gas_price, retried, confirm_by, wake, attempt, executed, posted>>

GetAccountInfo ==
  /\ step = "account"
  /\ \E state \in LcdAnswers : signing' = state.sequence
  /\ step' = "price"
  /\ UNCHANGED <<vars, gas_price, retried, confirm_by, wake, attempt, executed, posted>>

(* resolve_gas_price: a failed probe of the node leaves the configured one.  *)
ResolveGasPrice ==
  /\ step = "price"
  /\ gas_price' \in {GasPrice, IF NetworkMinPrice > GasPrice THEN NetworkMinPrice ELSE GasPrice}
  /\ step' = "post"
  /\ UNCHANGED <<vars, signing, retried, confirm_by, wake, attempt, executed, posted>>

(* A node's CheckTx, against its own state of the account and its mempool.   *)
SequenceExpected == mempool = {} /\ \E node \in LcdAnswers : signing = node.sequence

SequenceRefused == mempool # {} \/ \E node \in LcdAnswers : signing # node.sequence

SignedTx == [tx EXCEPT !.sequence = signing]

Accepted ==
  /\ step = "post"
  /\ SequenceExpected /\ gas_price >= NetworkMinPrice
  /\ mempool' = {SignedTx}
  /\ UNCHANGED <<chain_vars, sequence, index, stale, tracker_vars, restarts>>

PostAccepted ==
  /\ Accepted
  /\ phase' = "confirm" /\ tx' = SignedTx
  /\ step' = "poll" /\ confirm_by' = clock + ConfirmTimeout
  /\ signing' = 0 /\ gas_price' = 0 /\ retried' = FALSE
  /\ posted' = posted + 1
  /\ UNCHANGED <<deadline, prior, missed, wake, attempt, executed>>

(* The reply is lost, or is no success; this is not a sequence mismatch.     *)
ReplyLost_Retries ==
  /\ Accepted
  /\ posted' = posted + 1
  /\ IF retried
       THEN EndTick /\ missed' = missed + 1 /\ step' = "none" /\ UNCHANGED retried
       ELSE retried' = TRUE /\ step' = "account" /\ UNCHANGED <<phase, deadline, tx, prior, missed>>
  /\ UNCHANGED <<signing, gas_price, confirm_by, wake, attempt, executed>>

ReplyLost ==
  /\ Accepted
  /\ EndTick /\ missed' = missed + 1
  /\ TickOver

PostMismatch ==
  /\ step = "post" /\ SequenceRefused /\ ~retried
  /\ retried' = TRUE
  /\ step' = "account"
  /\ UNCHANGED <<vars, signing, gas_price, confirm_by, wake, attempt, executed, posted>>

(* CheckTx refuses a fee below the node's minimum, or the sequence again; a  *)
(* reply without a code counts as a failure.                                 *)
PostRefused_CodeDefaultsToZero ==
  /\ step = "post"
  /\ (SequenceRefused /\ retried) \/ gas_price < NetworkMinPrice
  /\ phase' = "confirm" /\ tx' = SignedTx
  /\ step' = "poll" /\ confirm_by' = clock + ConfirmTimeout
  /\ UNCHANGED <<chain_vars, terra_vars, tracker_vars, restarts, deadline, prior, missed,
                 signing, gas_price, retried, wake, attempt, executed, posted>>

PostRefused ==
  /\ step = "post"
  /\ (SequenceRefused /\ retried) \/ gas_price < NetworkMinPrice
  /\ TickFails
  /\ TickOver

-----------------------------------------------------------------------------
(* wait_for_deliver_tx_success and what follows it *)

Included(ok) ==
  /\ \E state \in LcdAnswers : tx.sequence < state.sequence
  /\ [tx |-> tx, ok |-> ok] \in index

(* What the events of the delivered transaction say decides how to go on.    *)
PollDelivered(executions, verdict) ==
  /\ step = "poll" /\ Included(TRUE)
  /\ verdict = EventsMatch(Reported(executions), tx.rate)

PollProved ==
  \E executions \in Executions :
    /\ PollDelivered(executions, "matched")
    /\ step' = "observe" /\ executed' = executions
    /\ UNCHANGED <<vars, signing, gas_price, retried, confirm_by, wake, attempt, posted>>

PollSilent ==
  \E executions \in Executions :
    /\ PollDelivered(executions, "absent")
    /\ step' = "state" /\ executed' = executions /\ attempt' = 1
    /\ UNCHANGED <<vars, signing, gas_price, retried, confirm_by, wake, posted>>

PollContradicted ==
  /\ \E executions \in Executions : PollDelivered(executions, "error")
  /\ TickFails
  /\ TickOver

PollFailed ==
  /\ step = "poll" /\ Included(FALSE)
  /\ TickFails
  /\ TickOver

(* Not indexed yet, by one node at least, or a transient error: sleep, but   *)
(* not past the deadline, at which there is one last poll.                   *)
PollAgain_Oversleeps ==
  /\ step = "poll" /\ clock < confirm_by
  /\ step' = "wait"
  /\ wake' = clock + ConfirmPoll
  /\ UNCHANGED <<vars, signing, gas_price, retried, confirm_by, attempt, executed, posted>>

PollAgain ==
  /\ step = "poll" /\ clock < confirm_by
  /\ step' = "wait"
  /\ wake' = IF clock + ConfirmPoll < confirm_by THEN clock + ConfirmPoll ELSE confirm_by
  /\ UNCHANGED <<vars, signing, gas_price, retried, confirm_by, attempt, executed, posted>>

PollTimesOut ==
  /\ step = "poll" /\ clock >= confirm_by
  /\ TickFails
  /\ TickOver

Wake ==
  /\ step = "wait" /\ clock >= wake
  /\ step' = "poll" /\ wake' = 0
  /\ UNCHANGED <<vars, signing, gas_price, retried, confirm_by, attempt, executed, posted>>

(* submit_and_confirm_oracle_update returns Ok: record_successful_broadcast. *)
Record ==
  /\ last_success' = clock
  /\ EndTick
  /\ TickOver
  /\ UNCHANGED <<chain_vars, terra_vars, started, alerting, missed, restarts>>

(* observe_state_after_event_ok: the answer is logged and changes nothing.   *)
ObserveState ==
  /\ step = "observe"
  /\ Record

(* confirm_state_with_retry *)
StateProves ==
  /\ step = "state"
  /\ StateMatches(tx)
  /\ Record

(* The State of a lagging node, or a failed query.                           *)
StateAgain ==
  /\ step = "state" /\ attempt < StateAttempts
  /\ attempt' = attempt + 1
  /\ UNCHANGED <<vars, step, signing, gas_price, retried, confirm_by, wake, executed, posted>>

StateGivesUp ==
  /\ step = "state" /\ attempt = StateAttempts
  /\ TickFails
  /\ TickOver

-----------------------------------------------------------------------------

(* tokio::time::timeout around run_once. *)
TickTimesOut_ReadsOnly == phase = "read" /\ clock >= deadline /\ TickFails /\ TickOver

TickTimesOut == clock >= deadline /\ TickFails /\ TickOver

(* A request of any step fails in a way that ends the tick. *)
RequestFails == TickFails /\ TickOver

ProcessStep ==
  \/ (BeginTick \/ Start) /\ UNCHANGED request_vars
  \/ Stop /\ TickOver

RequestStep ==
  \/ Decides \/ GetAccountInfo \/ ResolveGasPrice
  \/ PostAccepted \/ ReplyLost \/ PostMismatch \/ PostRefused
  \/ PollProved \/ PollSilent \/ PollContradicted \/ PollFailed \/ PollAgain \/ PollTimesOut \/ Wake
  \/ ObserveState \/ StateProves \/ StateAgain \/ StateGivesUp
  \/ RequestFails \/ TickTimesOut

(* Time does not pass the end of a sleep either.                             *)
ClockStep ==
  /\ step = "wait" => clock < wake
  /\ TimePasses
  /\ UNCHANGED request_vars

ChainStep == (Include \/ Evict \/ OthersAct) /\ UNCHANGED request_vars

TerraNext == ProcessStep \/ RequestStep \/ ClockStep \/ ChainStep

TerraSpec == TerraInit /\ [][TerraNext]_all_vars

(* Time goes on and the runtime's timers fire; no request need ever end.     *)
TerraFairness == WF_all_vars(ClockStep) /\ WF_all_vars(Wake) /\ WF_all_vars(TickTimesOut)

FairTerraSpec == TerraSpec /\ TerraFairness

-----------------------------------------------------------------------------
(* Properties *)

TerraTypeOK ==
  /\ ServiceTypeOK
  /\ step \in CASE phase = "broadcast" -> {"account", "price", "post"}
                [] phase = "confirm"   -> {"poll", "wait", "observe", "state"}
                [] OTHER               -> {"none"}
  /\ signing \in 0..sequence
  /\ gas_price \in Nat /\ retried \in BOOLEAN
  /\ wake <= confirm_by
  /\ attempt \in 0..StateAttempts
  /\ posted \in Nat

(* Request by request, the service does what OracleService says of it: each  *)
(* step is one of its steps, or changes nothing it speaks of.                *)
ImplementsService == ServiceSpec

(* A tick puts at most one transaction on its way.  The retry repeats a      *)
(* broadcast that was refused, never one whose fate is unknown.              *)
OneTransactionPerTick == posted <= 1

(* INV-ORACLE-LIVENESS-001, confused deputy: a success is recorded on an     *)
(* execution of the oracle itself with the proposed rate, whatever else the  *)
(* transaction's attributes tell of and in whatever order, or, where there   *)
(* are none, on the oracle's State.                                          *)
RecordedOnProof ==
  [][last_success' # last_success /\ last_success' # 0 =>
       \/ \E i \in DOMAIN executed :
            /\ executed[i].contract = OracleAddr
            /\ executed[i].action = "update_rate"
            /\ executed[i].rates # <<>>
            /\ \A k \in DOMAIN executed[i].rates : executed[i].rates[k] = tx.rate
       \/ executed = <<>> /\ StateMatches(tx)]_all_vars

(* Every tick ends, whichever request hangs; time is bounded in the model.   *)
TicksEnd == InTick ~> ~InTick \/ clock = MaxTime
=============================================================================
