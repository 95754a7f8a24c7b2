--------------------------- MODULE ContractTests ---------------------------
(***************************************************************************)
(* The multitest suites of ust1-oracle and ust1-window, replayed on the    *)
(* specification: every call of a test is a step that must return what the *)
(* test asserts, accepted calls through the actions of the contracts, and  *)
(* every assert_eq on a query is an assertion on the state reached.        *)
(* One unit of the model is 100 base units of a token, a time unit is an   *)
(* hour, a rate is in hundredths and a fee in two-hundredths; "one second  *)
(* more" is an hour more.  The suites' App starts in 2019 and some tests   *)
(* set its clock back; here a test starts at hour 1 and moves forward.     *)
(***************************************************************************)
EXTENDS ContractErrors

CONSTANTS
  Owner, Bot, Bot2, Stranger, NextGov, User,  \* the accounts of the suites
  MaxExtraCalls                               \* bound on the calls after a test

VARIABLES
  test,       \* the test being replayed
  cursor,     \* its next step
  rejecting,  \* the stub treasury's SetRejectPulls
  event       \* wasm attributes of the last call

test_vars == <<vars, test, cursor, rejecting, event>>

-----------------------------------------------------------------------------
(* Calls *)

UpdatesRate(sender, new) == [fn |-> "UpdateRate", by |-> sender, rate |-> new]
SetsOperator(sender, addr) == [fn |-> "SetOracleOperator", by |-> sender, addr |-> addr]
PausesOracle(sender, paused) == [fn |-> "SetOraclePaused", by |-> sender, paused |-> paused]
ProposesForOracle(sender, addr) == [fn |-> "OracleProposeGovernance", by |-> sender, addr |-> addr]
AcceptsOracle(sender) == [fn |-> "OracleAcceptGovernance", by |-> sender]

Sends(token, amount, hook, min_out) ==
  [fn |-> "Send", by |-> User, token |-> token, amount |-> amount, hook |-> hook, min_out |-> min_out]
Deposits(amount) == Sends("vfdusd", amount, "Deposit", 0)
Withdraws(amount, min_out) == Sends("ust1", amount, "Withdraw", min_out)

SetsLimits(per_tx, rolling) == [fn |-> "SetLimits", by |-> Owner, per_tx |-> per_tx, rolling |-> rolling]
PausesWindow(paused) == [fn |-> "SetWindowPaused", by |-> Owner, paused |-> paused]
SetsFee(fee) == [fn |-> "SetFeeBps", by |-> Owner, fee |-> fee]
SetsMaxAge(sender, max_age) == [fn |-> "SetMaxOracleAge", by |-> sender, max_age |-> max_age]
ProposesForWindow(sender, addr) == [fn |-> "WindowProposeGovernance", by |-> sender, addr |-> addr]
AcceptsWindow(sender) == [fn |-> "WindowAcceptGovernance", by |-> sender]
MintsUst1(amount) == [fn |-> "Mint", by |-> Owner, amount |-> amount]

(* The error a call returns in the present state.                            *)
ErrorOf(c) ==
  CASE c.fn = "UpdateRate"      -> UpdateRateError(c.by, c.rate)
    [] c.fn \in {"SetOracleOperator", "SetOraclePaused", "OracleProposeGovernance"}
                                -> GovernanceError(c.by, oracle_governance, TRUE, "Ok")
    [] c.fn = "OracleAcceptGovernance" -> AcceptError(c.by, oracle_pending)
    [] c.fn = "Send"            ->
         LET error == SendError(c.by, c.token, c.amount, c.hook, c.min_out)
         IN  IF error = "Ok" /\ c.token = "ust1" /\ rejecting THEN "PullRejected" ELSE error
    [] c.fn \in {"SetLimits", "SetWindowPaused", "WindowProposeGovernance"}
                                -> GovernanceError(c.by, window_governance, TRUE, "Ok")
    [] c.fn = "SetFeeBps"       ->
         GovernanceError(c.by, window_governance, c.fee <= BpsDenom, "InvalidFeeBps")
    [] c.fn = "SetMaxOracleAge" ->
         GovernanceError(c.by, window_governance, ValidMaxAge(c.max_age), "MaxOracleAgeTooShort")
    [] c.fn = "WindowAcceptGovernance" -> AcceptError(c.by, window_pending)
    [] c.fn = "Mint"            -> FirstError(<< <<FitsU128(ust1_supply + c.amount), "Overflow">> >>)

(* The call as a step of the contract; a withdrawal is one only while the    *)
(* treasury lets the window pull.                                            *)
Performs(c) ==
  \/ c.fn = "UpdateRate" /\ UpdateRate(c.by, c.rate) /\ UNCHANGED window_vars
  \/ c.fn = "SetOracleOperator" /\ SetOracleOperator(c.by, c.addr) /\ UNCHANGED window_vars
  \/ c.fn = "SetOraclePaused" /\ SetOraclePaused(c.by, c.paused) /\ UNCHANGED window_vars
  \/ c.fn = "OracleProposeGovernance" /\ OracleProposeGovernance(c.by, c.addr) /\ UNCHANGED window_vars
  \/ c.fn = "OracleAcceptGovernance" /\ OracleAcceptGovernance(c.by) /\ UNCHANGED window_vars
  \/ /\ c.fn = "Send" /\ c.token = "vfdusd" /\ c.hook = "Deposit"
     /\ Deposit(c.by, c.amount)
  \/ /\ c.fn = "Send" /\ c.token = "ust1" /\ c.hook = "Withdraw" /\ ~rejecting
     /\ Withdraw(c.by, c.amount, c.min_out)
  \/ c.fn = "SetLimits" /\ SetLimits(c.by, c.per_tx, c.rolling)
  \/ c.fn = "SetWindowPaused" /\ SetWindowPaused(c.by, c.paused)
  \/ c.fn = "SetFeeBps" /\ SetFeeBps(c.by, c.fee)
  \/ c.fn = "SetMaxOracleAge" /\ SetMaxOracleAge(c.by, c.max_age)
  \/ c.fn = "WindowProposeGovernance" /\ WindowProposeGovernance(c.by, c.addr)
  \/ c.fn = "WindowAcceptGovernance" /\ WindowAcceptGovernance(c.by)
  \/ c.fn = "Mint" /\ OtherMint(User, c.amount)

NoEvent == [action |-> "none", fee_total_bps |-> 0, fee_chain_tax_bps |-> 0,
            fee_cmm_protocol_bps |-> 0, fee_amount |-> 0]

EventOf(c) ==
  IF c.fn # "Send" THEN NoEvent
  ELSE IF c.token = "ust1" THEN WithdrawEvent(c.amount) ELSE DepositEvent(c.amount)

-----------------------------------------------------------------------------
(* Steps of a test *)

Accepts(call) == [kind |-> "call", call |-> call, returns |-> "Ok"]
Rejects(call, error) == [kind |-> "call", call |-> call, returns |-> error]
Asserts(fact) == [kind |-> "assert", fact |-> fact]
AtHour(t) == [kind |-> "wait", until |-> t]
RejectsPulls == [kind |-> "stub"]

-----------------------------------------------------------------------------
(* ust1-oracle/src/multitest.rs *)

UpdateSuccessWithinCap == <<
  AtHour(25), Accepts(UpdatesRate(Bot, 101)), Asserts(rate = 101 /\ ~oracle_paused) >>

StateSurfacesPausedFlag == <<
  Asserts(~oracle_paused),
  Accepts(PausesOracle(Owner, TRUE)), Asserts(oracle_paused),
  Rejects(PausesOracle(Stranger, FALSE), "Unauthorized"),
  Rejects(PausesOracle(Bot, FALSE), "Unauthorized"),
  Accepts(PausesOracle(Owner, FALSE)), Asserts(~oracle_paused) >>

SecondUpdateTooSoon == <<
  AtHour(3), Accepts(UpdatesRate(Bot, 101)), Rejects(UpdatesRate(Bot, 100), "UpdateTooSoon") >>

SameRateAfterThrottle == <<
  AtHour(3), Accepts(UpdatesRate(Bot, 100)), Asserts(rate = 100 /\ last_update = 3),
  AtHour(3 + MinUpdateInterval),
  Accepts(UpdatesRate(Bot, 100)), Asserts(rate = 100 /\ last_update = 3 + MinUpdateInterval) >>

DecreaseRejected == <<
  AtHour(3), Accepts(UpdatesRate(Bot, 102)),
  AtHour(3 + MinUpdateInterval), Rejects(UpdatesRate(Bot, 100), "RateDecreased") >>

DailyCapExceededSameUtcDay == <<
  AtHour(Day), Accepts(UpdatesRate(Bot, 100)),
  AtHour(Day + MinUpdateInterval + 1),
  Rejects(UpdatesRate(Bot, MaxRateAfterDailyCap(100) + 1), "DailyCapExceeded") >>

PauseBlocksOperatorUpdate == <<
  Accepts(PausesOracle(Owner, TRUE)),
  AtHour(14), Rejects(UpdatesRate(Bot, 101), "Paused") >>

UnauthorizedUpdateNotOperator == <<
  AtHour(4), Rejects(UpdatesRate(Stranger, 100), "Unauthorized") >>

GovernanceRotatesOperator == <<
  Accepts(SetsOperator(Owner, Bot2)),
  AtHour(6), Rejects(UpdatesRate(Bot, 101), "Unauthorized"), Accepts(UpdatesRate(Bot2, 101)) >>

GovernanceTwoStepTransfer == <<
  Accepts(ProposesForOracle(Owner, NextGov)),
  Rejects(AcceptsOracle(Bot), "InvalidGovernanceProposal"),
  Accepts(AcceptsOracle(NextGov)), Asserts(oracle_governance = NextGov),
  Rejects(PausesOracle(Owner, TRUE), "Unauthorized") >>

-----------------------------------------------------------------------------
(* ust1-window/src/multitest.rs.  setup() ends with the operator's first     *)
(* update; the user holds UserVfdusd from the start instead of a mint.       *)
Setup == << Accepts(UpdatesRate(Bot, RateScale)) >>

WithdrawsAll(min_out) == Withdraws(ust1[User], min_out)

DepositAndWithdraw == Setup \o <<
  Accepts(Deposits(10000)), Asserts(treasury_vfdusd = 10000 /\ ust1[User] > 0),
  Accepts(WithdrawsAll(0)),
  Asserts(ust1[User] = 0 /\ vfdusd[User] > 0 /\ treasury_vfdusd < 10000) >>

PerTxExceeded == Setup \o <<
  Accepts(SetsLimits(1, 5000000)), Rejects(Deposits(2000), "PerTxLimit") >>

Rolling24hExceeded == Setup \o <<
  Accepts(SetsLimits(4000000, 5000000)),
  Accepts(Deposits(3000000)), Rejects(Deposits(3000000), "RollingLimit") >>

PausedBlocksCw20Flow == Setup \o <<
  Accepts(PausesWindow(TRUE)), Rejects(Deposits(1000), "Paused") >>

InvalidCw20SenderRejected == Setup \o <<
  Rejects(Sends("fake", 1, "Deposit", 0), "InvalidCw20Hook") >>

WithdrawBelowMinRejected == Setup \o <<
  Accepts(Deposits(5000)), Rejects(WithdrawsAll(MaxU128), "BelowMinimum") >>

WithdrawInsufficientVfdusd == Setup \o <<
  Accepts(MintsUst1(50000)), Rejects(Withdraws(10000, 0), "InsufficientVfdusd"),
  Asserts(vfdusd[User] = UserVfdusd) >>

TreasuryRejectIsAtomic == Setup \o <<
  Accepts(Deposits(10000)), RejectsPulls, Rejects(WithdrawsAll(0), "PullRejected"),
  Asserts(ust1[User] = 9900 /\ treasury_vfdusd = 10000) >>

StaleBlocksDeposit == Setup \o <<
  AtHour(1 + max_oracle_age + 1), Rejects(Deposits(1000), "OracleStale") >>

OraclePausedBlocksSwaps == Setup \o <<
  Accepts(Deposits(10000)),
  Asserts(ust1[User] > 0 /\ treasury_vfdusd > 0 /\ ~oracle_paused /\ last_update > 0),
  Accepts(PausesOracle(Owner, TRUE)), Asserts(oracle_paused /\ last_update = 1),
  Rejects(Deposits(1000), "OraclePaused"), Rejects(WithdrawsAll(0), "OraclePaused"),
  Accepts(PausesOracle(Owner, FALSE)),
  Accepts(Deposits(1000)), Accepts(WithdrawsAll(0)) >>

UnpausedButStale == Setup \o <<
  Asserts(~oracle_paused),
  AtHour(1 + max_oracle_age + 1), Rejects(Deposits(1000), "OracleStale") >>

WindowPausedWhenOracleUnpaused == Setup \o <<
  Asserts(~oracle_paused),
  Accepts(PausesWindow(TRUE)), Rejects(Deposits(1000), "Paused") >>

SetPausedGovernanceOnly == Setup \o <<
  Rejects(PausesOracle(Stranger, TRUE), "Unauthorized") >>

SetMaxOracleAgeGovernanceOnly == Setup \o <<
  Rejects(SetsMaxAge(Stranger, 12), "Unauthorized"),
  Accepts(SetsMaxAge(Owner, 12)), Asserts(max_oracle_age = 12) >>

SetMaxOracleAgeBelowThrottle == Setup \o <<
  Rejects(SetsMaxAge(Owner, MinUpdateInterval - 1), "MaxOracleAgeTooShort") >>

DustDeposit == Setup \o <<
  Accepts(SetsFee(BpsDenom)), Rejects(Deposits(1000), "ZeroOutput"),
  Asserts(vfdusd[User] = UserVfdusd /\ treasury_vfdusd = 0 /\ ust1[User] = 0) >>

DustWithdraw == Setup \o <<
  Accepts(SetsFee(BpsDenom)), Accepts(MintsUst1(10000)), Rejects(Withdraws(1000, 0), "ZeroOutput"),
  Asserts(ust1[User] = 10000 /\ vfdusd[User] = UserVfdusd) >>

StaleBlocksWithdraw == Setup \o <<
  Accepts(MintsUst1(10000)),
  AtHour(1 + max_oracle_age + 1), Rejects(Withdraws(1000, 0), "OracleStale") >>

RollingWindowResets == Setup \o <<
  Accepts(SetsLimits(5000000, 5000000)),
  Accepts(Deposits(3000000)), Asserts(window_start = 1 /\ volume = 2970000),
  AtHour(1 + Day), Accepts(UpdatesRate(Bot, rate)),
  Accepts(Deposits(3000000)), Asserts(window_start = 1 + Day /\ volume = 2970000) >>

GovernanceProposeAndAccept == Setup \o <<
  Accepts(ProposesForWindow(Owner, NextGov)),
  Rejects(AcceptsWindow(Owner), "InvalidGovernanceProposal"),
  Accepts(AcceptsWindow(NextGov)), Asserts(window_governance = NextGov) >>

DepositEmitsFeeAmount == Setup \o <<
  Accepts(Deposits(10000)),
  Asserts(event = [action |-> "deposit", fee_total_bps |-> fee_bps, fee_chain_tax_bps |-> 1,
                   fee_cmm_protocol_bps |-> 1, fee_amount |-> 100]),
  Asserts(ust1[User] = 9900) >>

WithdrawEmitsFeeAmount == Setup \o <<
  Accepts(Deposits(10000)), Asserts(ust1[User] = 9900),
  Accepts(WithdrawsAll(1)),
  Asserts(event.action = "withdraw" /\ event.fee_total_bps = fee_bps /\ event.fee_amount = 99),
  Asserts(vfdusd[User] = UserVfdusd - 10000 + 9801) >>

ZeroFeeEmitsZeroAmount == Setup \o <<
  Accepts(SetsFee(0)),
  Accepts(Deposits(10000)), Asserts(event.fee_amount = 0 /\ ust1[User] = 10000),
  Accepts(Withdraws(10000, 0)), Asserts(event.fee_amount = 0 /\ vfdusd[User] = UserVfdusd) >>

-----------------------------------------------------------------------------
(* The runner *)

Scripts == <<
  UpdateSuccessWithinCap, StateSurfacesPausedFlag, SecondUpdateTooSoon, SameRateAfterThrottle,
  DecreaseRejected, DailyCapExceededSameUtcDay, PauseBlocksOperatorUpdate,
  UnauthorizedUpdateNotOperator, GovernanceRotatesOperator, GovernanceTwoStepTransfer,
  DepositAndWithdraw, PerTxExceeded, Rolling24hExceeded, PausedBlocksCw20Flow,
  InvalidCw20SenderRejected, WithdrawBelowMinRejected, WithdrawInsufficientVfdusd,
  TreasuryRejectIsAtomic, StaleBlocksDeposit, OraclePausedBlocksSwaps, UnpausedButStale,
  WindowPausedWhenOracleUnpaused, SetPausedGovernanceOnly, SetMaxOracleAgeGovernanceOnly,
  SetMaxOracleAgeBelowThrottle, DustDeposit, DustWithdraw, StaleBlocksWithdraw,
  RollingWindowResets, GovernanceProposeAndAccept, DepositEmitsFeeAmount,
  WithdrawEmitsFeeAmount, ZeroFeeEmitsZeroAmount >>

Script == Scripts[test]
Finished == cursor > Len(Script)
Step == Script[cursor]

(* setup(): both contracts under one owner, the oracle at RATE_SCALE. *)
TestInit ==
  /\ Init
  /\ oracle_operator = Bot /\ oracle_governance = Owner /\ window_governance = Owner
  /\ per_tx_limit < rolling_limit
  /\ cursor = 1
  /\ rejecting = FALSE
  /\ event = NoEvent
  /\ test \in DOMAIN Scripts

Advance == cursor' = cursor + 1 /\ UNCHANGED test

CallAccepted ==
  /\ Step.kind = "call" /\ ErrorOf(Step.call) = "Ok"
  /\ Performs(Step.call)
  /\ event' = EventOf(Step.call)
  /\ Advance /\ UNCHANGED rejecting

CallRejected ==
  /\ Step.kind = "call" /\ ErrorOf(Step.call) # "Ok"
  /\ Advance /\ event' = NoEvent /\ UNCHANGED <<vars, rejecting>>

AssertionRead ==
  /\ Step.kind = "assert"
  /\ Advance /\ UNCHANGED <<vars, rejecting, event>>

(* app.update_block: one block after another until the test's time. *)
BlocksPass ==
  /\ Step.kind = "wait"
  /\ \/ clock < Step.until /\ Tick /\ UNCHANGED <<window_vars, test, cursor, rejecting, event>>
     \/ clock = Step.until /\ Advance /\ UNCHANGED <<vars, rejecting, event>>

TreasuryRejects ==
  /\ Step.kind = "stub"
  /\ rejecting' = TRUE
  /\ Advance /\ UNCHANGED <<vars, event>>

(* Calls of all kinds, whatever the test was about, MaxExtraCalls of them    *)
(* after a test has ended.                                                   *)
OtherCalls ==
  LET amounts == {0, 1, 1000, ust1[User], 3000000}
  IN  {UpdatesRate(Bot, new) : new \in 0..104}
        \cup {Sends(token, amount, hook, min_out) :
                token \in {"vfdusd", "ust1", "fake"}, hook \in {"Deposit", "Withdraw"},
                amount \in amounts, min_out \in {0, 1000}}
        \cup {SetsFee(fee) : fee \in {0, 3, BpsDenom, BpsDenom + 1}}
        \cup {SetsMaxAge(sender, age) : sender \in Addr, age \in {MinUpdateInterval - 1, Day}}
        \cup {AcceptsOracle(sender) : sender \in Addr}
        \cup {AcceptsWindow(sender) : sender \in Addr}

ExtraCall ==
  /\ Finished /\ cursor <= Len(Script) + MaxExtraCalls
  /\ \E c \in OtherCalls : Performs(c) /\ event' = EventOf(c)
  /\ Advance /\ UNCHANGED rejecting

TestNext ==
  \/ /\ ~Finished
     /\ CallAccepted \/ CallRejected \/ AssertionRead \/ BlocksPass \/ TreasuryRejects
  \/ ExtraCall
  \/ Finished /\ UNCHANGED test_vars

TestSpec == TestInit /\ [][TestNext]_test_vars

-----------------------------------------------------------------------------
(* Properties *)

(* Every call of the suites returns what its test asserts, by the first      *)
(* check of the handler that fails, and every query returns the value the    *)
(* test expects: the specification answers the repository's tests as the     *)
(* contracts do.                                                             *)
AsTested ==
  ~Finished =>
    /\ Step.kind = "call" => ErrorOf(Step.call) = Step.returns
    /\ Step.kind = "assert" => Step.fact

(* The two halves of a handler agree: a call finds no failing check exactly  *)
(* when the contract's action can take it, so no rejection is missing from   *)
(* the actions and none is spurious.                                         *)
ErrorIffDisabled == \A c \in OtherCalls : (ErrorOf(c) = "Ok") <=> ENABLED Performs(c)
=============================================================================
