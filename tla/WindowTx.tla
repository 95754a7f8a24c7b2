------------------------------ MODULE WindowTx ------------------------------
(***************************************************************************)
(* A swap of ust1-window message by message, as the chain executes it: the *)
(* user's CW20 Send, the window's Receive handler, and the messages of its *)
(* Response in order.  A message that fails reverts the transaction to the *)
(* state it began with.  Transactions do not interleave.  The variables of *)
(* Ust1Window are the working state; Committed is what other transactions  *)
(* and queries see, and it implements the atomic Ust1Window.               *)
(***************************************************************************)
EXTENDS Ust1Window, Sequences

CONSTANT Stranded  \* vFDUSD amounts plain transfers may have left in the window

ASSUME WindowTxAssumption == Stranded \subseteq Nat

VARIABLES
  msgs,           \* messages of the running transaction still to execute
  saved,          \* the state it began with; NoTx between transactions
  window_vfdusd,  \* vFDUSD balance of the window contract
  window_ust1     \* UST1 balance of the window contract

tx_vars == <<msgs, saved, window_vfdusd, window_ust1>>
all_vars == <<vars, tx_vars>>

NoTx == [in_tx |-> FALSE]
InTx == saved.in_tx

Snapshot ==
  [in_tx |-> TRUE, vfdusd |-> vfdusd, treasury_vfdusd |-> treasury_vfdusd,
   ust1 |-> ust1, ust1_supply |-> ust1_supply,
   window_start |-> window_start, volume |-> volume,
   window_vfdusd |-> window_vfdusd, window_ust1 |-> window_ust1]

Committed == INSTANCE Ust1Window WITH
  vfdusd          <- IF InTx THEN saved.vfdusd ELSE vfdusd,
  treasury_vfdusd <- IF InTx THEN saved.treasury_vfdusd ELSE treasury_vfdusd,
  ust1            <- IF InTx THEN saved.ust1 ELSE ust1,
  ust1_supply     <- IF InTx THEN saved.ust1_supply ELSE ust1_supply,
  window_start    <- IF InTx THEN saved.window_start ELSE window_start,
  volume          <- IF InTx THEN saved.volume ELSE volume

(* The state no step of a transaction touches. *)
frame_vars == <<clock, oracle_vars, config_vars, window_gov_vars>>

(* Cw20HookMsg *)
Hook == [hook : {"deposit"}] \cup [hook : {"withdraw"}, min_vfdusd_out : Amounts]

TxInit ==
  /\ Init
  /\ msgs = <<>>
  /\ saved = NoTx
  /\ window_vfdusd \in Stranded /\ window_ust1 = 0

-----------------------------------------------------------------------------
(* The user's CW20 Send: the token moves the balance, then calls Receive.    *)
SendVfdusd(user, amount, hook) ==
  /\ ~InTx
  /\ amount <= vfdusd[user]
  /\ saved' = Snapshot
  /\ vfdusd' = [vfdusd EXCEPT ![user] = @ - amount]
  /\ window_vfdusd' = window_vfdusd + amount
  /\ msgs' = <<[op |-> "receive_vfdusd", user |-> user, amount |-> amount, hook |-> hook]>>
  /\ UNCHANGED <<frame_vars, rolling_vars, treasury_vfdusd, ust1, ust1_supply, window_ust1>>

SendUst1(user, amount, hook) ==
  /\ ~InTx
  /\ amount <= ust1[user]
  /\ saved' = Snapshot
  /\ ust1' = [ust1 EXCEPT ![user] = @ - amount]
  /\ window_ust1' = window_ust1 + amount
  /\ msgs' = <<[op |-> "receive_ust1", user |-> user, amount |-> amount, hook |-> hook]>>
  /\ UNCHANGED <<frame_vars, rolling_vars, treasury_vfdusd, vfdusd, ust1_supply, window_vfdusd>>

Running(op) == InTx /\ msgs # <<>> /\ Head(msgs).op = op

(* A Response: its messages run, in order, before what was queued already.   *)
Respond(response) == msgs' = response \o Tail(msgs)

DepositMsgs_NoForward(user, amount, ust1_out) ==
  <<[op |-> "mint", to |-> user, amount |-> ust1_out]>>

DepositMsgs(user, amount, ust1_out) ==
  <<[op |-> "mint", to |-> user, amount |-> ust1_out],
    [op |-> "transfer_vfdusd", amount |-> amount]>>

(* receive_cw20 and deposit *)
ReceiveVfdusd ==
  LET m == Head(msgs)
      ust1_out == DepositVfdusdToUst1(m.amount, rate, fee_bps)
  IN  /\ Running("receive_vfdusd")
      /\ ~window_paused
      /\ m.hook.hook = "deposit"
      /\ OracleUsable
      /\ DepositFits(m.amount, rate, fee_bps)
      /\ ust1_out > 0
      /\ EnsureLimits(ust1_out)
      /\ Respond(DepositMsgs(m.user, m.amount, ust1_out))
      /\ UNCHANGED <<frame_vars, ledger_vars, saved, window_vfdusd, window_ust1>>

WithdrawMsgs_PullFirst(user, gross, v_out) ==
  <<[op |-> "instant_withdraw", to |-> user, amount |-> v_out],
    [op |-> "burn", amount |-> gross]>>

WithdrawMsgs_NoBurn(user, gross, v_out) ==
  <<[op |-> "instant_withdraw", to |-> user, amount |-> v_out]>>

WithdrawMsgs(user, gross, v_out) ==
  <<[op |-> "burn", amount |-> gross],
    [op |-> "instant_withdraw", to |-> user, amount |-> v_out]>>

(* receive_cw20 and withdraw *)
ReceiveUst1 ==
  LET m == Head(msgs)
      v_out == WithdrawGrossUst1ToVfdusd(m.amount, rate, fee_bps)
  IN  /\ Running("receive_ust1")
      /\ ~window_paused
      /\ m.hook.hook = "withdraw"
      /\ OracleUsable
      /\ WithdrawFits(m.amount, rate, fee_bps)
      /\ v_out > 0
      /\ v_out >= m.hook.min_vfdusd_out
      /\ v_out <= treasury_vfdusd
      /\ EnsureLimits(m.amount)
      /\ Respond(WithdrawMsgs(m.user, m.amount, v_out))
      /\ UNCHANGED <<frame_vars, ledger_vars, saved, window_vfdusd, window_ust1>>

-----------------------------------------------------------------------------
(* The CW20 contracts and the treasury, as the window uses them.             *)
Mint ==
  LET m == Head(msgs)
  IN  /\ Running("mint")
      /\ FitsU128(ust1_supply + m.amount)
      /\ ust1' = [ust1 EXCEPT ![m.to] = @ + m.amount]
      /\ ust1_supply' = ust1_supply + m.amount
      /\ msgs' = Tail(msgs)
      /\ UNCHANGED <<frame_vars, rolling_vars, vfdusd, treasury_vfdusd, saved,
                     window_vfdusd, window_ust1>>

TransferVfdusd ==
  LET m == Head(msgs)
  IN  /\ Running("transfer_vfdusd")
      /\ m.amount <= window_vfdusd
      /\ window_vfdusd' = window_vfdusd - m.amount
      /\ treasury_vfdusd' = treasury_vfdusd + m.amount
      /\ msgs' = Tail(msgs)
      /\ UNCHANGED <<frame_vars, rolling_vars, vfdusd, ust1, ust1_supply, saved, window_ust1>>

Burn ==
  LET m == Head(msgs)
  IN  /\ Running("burn")
      /\ m.amount <= window_ust1
      /\ window_ust1' = window_ust1 - m.amount
      /\ ust1_supply' = ust1_supply - m.amount
      /\ msgs' = Tail(msgs)
      /\ UNCHANGED <<frame_vars, rolling_vars, vfdusd, treasury_vfdusd, ust1, saved,
                     window_vfdusd>>

InstantWithdraw ==
  LET m == Head(msgs)
  IN  /\ Running("instant_withdraw")
      /\ m.amount <= treasury_vfdusd
      /\ treasury_vfdusd' = treasury_vfdusd - m.amount
      /\ vfdusd' = [vfdusd EXCEPT ![m.to] = @ + m.amount]
      /\ msgs' = Tail(msgs)
      /\ UNCHANGED <<frame_vars, rolling_vars, ust1, ust1_supply, saved,
                     window_vfdusd, window_ust1>>

Commit ==
  /\ InTx /\ msgs = <<>>
  /\ saved' = NoTx
  /\ UNCHANGED <<vars, msgs, window_vfdusd, window_ust1>>

(* Any message may fail: a guard above that does not hold, a treasury that   *)
(* does not know the window or has reached its own limit, or gas.            *)
Abort ==
  /\ InTx
  /\ vfdusd' = saved.vfdusd /\ treasury_vfdusd' = saved.treasury_vfdusd
  /\ ust1' = saved.ust1 /\ ust1_supply' = saved.ust1_supply
  /\ window_start' = saved.window_start /\ volume' = saved.volume
  /\ window_vfdusd' = saved.window_vfdusd /\ window_ust1' = saved.window_ust1
  /\ saved' = NoTx /\ msgs' = <<>>
  /\ UNCHANGED frame_vars

Send ==
  \E user \in Users, amount \in Amounts, hook \in Hook :
    SendVfdusd(user, amount, hook) \/ SendUst1(user, amount, hook)

Execute ==
  \/ ReceiveVfdusd \/ ReceiveUst1
  \/ Mint \/ TransferVfdusd \/ Burn \/ InstantWithdraw
  \/ Commit \/ Abort

BetweenTxs == ~InTx /\ (Governance \/ OracleStep) /\ UNCHANGED tx_vars

TxNext == Send \/ Execute \/ BetweenTxs

TxSpec == TxInit /\ [][TxNext]_all_vars

-----------------------------------------------------------------------------
(* Properties *)

(* INV-WITHDRAW-002 and its deposit counterpart: whatever message fails and  *)
(* wherever, what the chain commits is a whole swap or nothing.              *)
ImplementsAtomicWindow == Committed!Spec

(* Nothing of a swap stays behind in the window, and nothing that was there  *)
(* before leaves with it: forwarding and burning name the amount received,   *)
(* not the balance.                                                          *)
SwapsPassThrough ==
  [][InTx /\ ~InTx' =>
       window_vfdusd' = saved.window_vfdusd /\ window_ust1' = saved.window_ust1]_all_vars

(* No message order exposes the treasury, even inside a transaction: at      *)
(* every message boundary the UST1 in existence is covered by the vFDUSD of  *)
(* the treasury and what is on its way to it (mint after receipt, burn       *)
(* before pull).                                                             *)
BackedAtEveryMessage ==
  LET on_its_way == IF InTx THEN window_vfdusd - saved.window_vfdusd ELSE 0
  IN  ust1_supply * RateScale <= (treasury_vfdusd + on_its_way) * rate
=============================================================================
