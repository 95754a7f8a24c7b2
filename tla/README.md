# Verification of ust1-window

TLA+ models of the UST1 swap system, TLC configurations that check them on small
instances, and TLAPS proofs of the main results for every value of the constants.
The code is the reference: `PROJECT.json` maps each definition to the lines it
models.

## The system

Swaps between a bridged vault token (vFDUSD) and a stable token (UST1) at a rate
that an operator copies from BSC once or twice a UTC day; and, separately, the wrapping
of native coins.

| Part | State | Operations | Modelled in |
|---|---|---|---|
| `ust1-common` | none | swap arithmetic; the policy of a rate update | `Ust1Common`, `RollingLimit` |
| `ust1-oracle` | rate, last update, UTC day, day baseline; operator, pause, governance | UpdateRate, SetOracleOperator, SetPaused, ProposeGovernance, AcceptGovernance, State query | `Ust1Oracle`, `TwoStepGovernance`, `OracleHistory` |
| `ust1-window` | fee, limits, age limit, pause, governance; rolling volume | CW20 Receive (Deposit, Withdraw), SetLimits, SetPaused, SetFeeBps, SetMaxOracleAge, governance, EffectiveSwap query | `Ust1Window`, `WindowHistory`, `WindowTx` |
| `cmm-native-wrap` | fee, limits per denomination, pause, governance; rolling volume per denomination; the coins themselves | Wrap, CW20 Receive (Unwrap), SetPairLimits, SetPaused, SetFeeBps, governance | `NativeWrap`, `NativeWrapHistory` |
| `oracle-service`, the loop | time of the last confirmed update | a tick: read BSC, query the oracle, decide, broadcast, confirm; silence alert; stop, restart | `OracleService` |
| `oracle-service`, BSC reading | accepted networks per URL | verify the URLs' networks, read a rate from two or three of them, agree | `BscRate` |
| `oracle-service`, Terra transactions | account sequence on chain | sign, broadcast, retry once, poll for inclusion, prove the update by events or by `State` | `TerraTx`, `TxEvents` |
| CMM treasury, CW20s, wasmd | balances, supplies; atomic transactions | Transfer, Mint, Burn, InstantWithdrawCw20 | external, in `Ust1Window` and `WindowTx` |

**Interaction.** The service submits `UpdateRate` to the oracle. The window
queries the oracle's `State` inside every swap, mints or burns UST1 and moves
vFDUSD to and from the treasury with messages that run after its handler. The
wrap contract shares only the arithmetic and the limit's logic. Each contract has a
two-step governance of its own.

**What is hard.**

* Two accounts and many users interleave: rate, fee, limits and pauses change
  between a user's deposit and withdrawal.
* The oracle rolls its day only when it is updated; the windows of the volume
  limit open only when somebody swaps. Stored state is routinely out of date.
* Both swap directions round twice, at different scales, at rates and fees that
  change in between; `cmm-native-wrap` does not even record what it owes.
* A swap is a handler followed by queued messages to other contracts, any of
  which may fail.
* The service acts on stale reads, has timeouts around a transaction it cannot
  recall, and forgets its own state at a restart.
* It reads BSC through nodes it does not trust, behind load balancers, of a
  chain that replaces its last blocks, and Terra through nodes that lag and strip events.

**What makes each part correct.**

* Oracle: the price only rises, spaced and capped per day; a heartbeat with the
  stored rate is never refused once the throttle has passed; only the
  governor in office can hand governance on.
* Window: UST1 is always redeemable; the treasury never loses by a swap and the
  user never loses more than fee and dust; an aged rate can always be refreshed;
  the volume meter is exact; a failed message leaves nothing behind.
* Wrap: wrapped tokens are always covered; each call keeps exactly its fee; the
  denominations' meters do not touch each other.
* Service: success is only recorded for an update that happened; silence is
  noticed in bounded time; in a healthy environment swaps stay open. A tick sends
  at most one transaction and ends whatever hangs; the rate it proposes is that of
  a BSC block that stays.
* What a caller sees: the first failing check names the error, nothing else is
  refused, and a fee event is what the ledgers withheld.

`PROJECT.json` lists the hazards one by one with the property that covers each.

## The modules

Definitions keep the source's names. A call the contract rejects changes nothing
on chain, so it is not a step: the guard of an action is the conjunction of the
handler's checks. `F_Something` next to an operator `F` is `F` with a plausible
bug; no specification uses it, it exists to show that a property notices.

* `Ust1Common`: `math.rs` and `oracle_policy.rs`. Amounts are naturals; where the
  Rust code returns an overflow error, a `...Fits` predicate against `MaxU128`
  guards the caller. Intermediate products in `Uint256` (the rate conversions)
  cannot overflow, so only their results are checked; `apply_fee_ust1` and
  `max_rate_after_daily_cap` multiply in `Uint128` and the product is checked.
* `RollingLimit`: the logic of `ensure_limits`, on the pair (window start, volume).
* `TwoStepGovernance`: propose and accept; instantiated once per contract.
* `Ust1Oracle`: one action per execute message, and `Tick` for block time.
  `StoreRate` is the write-back block of `execute_update_rate`.
* `OracleHistory`: adds the rate the UTC day really began with and the governor
  who made the pending proposal, neither of which is stored on chain.
* `Ust1Window`: extends the oracle, which it reads at every swap, and adds the
  window's storage and the ledgers. A swap is one action from the user's CW20
  `Send` to the last message. `OpenCustody = TRUE` adds what this repository
  does not control: other minters of UST1 and other spenders of the treasury.
* `WindowHistory`: adds the notional settled at each block time and the highest
  limit so far.
* `WindowTx`: the same swaps message by message. `saved` is what the transaction
  began with; `Abort` may happen at every point of it. `Committed` instantiates
  `Ust1Window` with the saved values while a transaction runs (what a query
  would return), and its `Spec` is a checked property: refinement.
* `ContractErrors`: every check of the two contracts' handlers in its order, with
  the `ContractError` variant it returns, and the fee attributes of a swap's event.
  The actions know only success; these operators know every way to fail.
* `ContractTests`: the multitest suites of `ust1-oracle` (10 tests) and `ust1-window`
  (23) as scripts of calls and assertions, with the suites' amounts and times (a unit is
  100 base units, an hour, a hundredth of a rate). A call is accepted through the
  contracts' actions or rejected with the error `ContractErrors` finds; after a
  script, `ExtraCall` goes on with calls of every kind. Not replayed: the JSON shape of
  treasury messages, `migrate`, and the decimals checks of `instantiate`; where a
  suite sets the clock back between contracts, the script only moves it forward.
* `OracleService`: extends the oracle with the operator loop and what lies between
  them. `phase` is where `run_once` stands; each of its awaits is a step
  (`BeginTick`, `ReadAndDecide`, `Broadcast`, `Confirm`), may fail or be cut off
  by the tick's timeout (`TickFails`), and the process may stop anywhere and start
  again with an empty tracker. `TimePasses` does not pass a deadline of the
  service's own timers; nothing else is timely. Outside the repository: an LCD
  answers from the chain or from any of its states up to `LcdLag` ago; the node
  takes one transaction of the account at a time, may include it with or without
  success, evict it, or lose the reply; others pause the oracle, replace the
  operator or update the rate. `missed` counts the ticks that tried in vain.
* `TxEvents`: `confirm.rs` on the flat attribute list of a transaction: where a
  contract's group starts and ends, and what it proves.
* `TerraTx`: extends `OracleService`, of which it replaces `Broadcast` and `Confirm`
  by their requests: account, gas price, POST with the one retry, polls and sleeps
  up to their deadline, events, `State` with its attempts. `step` is the request that comes
  next. A tick that ends, times out or is stopped forgets everything (`TickOver`), as
  dropping the future of `run_once` does. Included transactions tell of any sequence
  of `Executions` (lists of `Execution` records), of which `Reported` makes what an LCD
  returns.
* `BscRate`: `evm_rpc.rs` and `bsc.rs`. The chain's last `ReorgDepth` blocks may be
  replaced. Behind a URL are nodes up to `PoolLag` blocks apart (`NodeChains`), on
  any fork above what is final; a read is two requests, `GetBlockNumber` and `CallVToken`,
  and any of these nodes may answer either. One endpoint may be
  faulty and answer anything, any number may be of another network. The five calls of
  `CallVToken` ask for the same block and are one step; an endpoint that answers
  them inconsistently is a faulty one, and so is a URL that changes its network
  after it was verified.
* `NativeWrap`, `NativeWrapHistory`: the wrap contract with its reserve, and the
  history its limits are about. One CW20 per denomination, as `pairs.rs` requires.

Left out on purpose: event attributes other than the fee's (no state depends on
them), `migrate` (rewrites the version), address and decimals validation at
instantiation (checked once, no state). Governance messages that do not name a
valid address fail before they write. `checked_add` in the volume meter cannot fail where the
limit check passes. A message the CW20 would reject for lack of balance is a guard
of the action.

## The runs

All bounds are constants of the specifications: `MaxTime` (block time), `Rates`,
`Amounts`, `Fees`, `Limits`, `MaxAges`, `StartTimes` (values the environment
chooses from) and `MaxU128`. Everything else is bounded by these. Runs are under
`CHECK_DEADLOCK`'s default, at `MaxTime` governance calls still go on, except `wire` and
`bsc`: the first stops when its clock does, in the second a process with a foreign URL
never gets past its start.

| Run | Shows | Bounds and why they are enough |
|---|---|---|
| `oracle` | `HistoryTypeOK`, `HeartbeatAccepted`, `WithinDailyCap`, `ProposalIsCurrent`, `PriceMovesForward` | 3 accounts (proposer, nominee, a second nominee), day of 5 blocks and interval 2, 3 days: two updates in a day, days without one, rollovers; cap +50% on rates 0..6, overflow of the cap at the top |
| `window` | `TypeOK`, `Redeemable`, `StaleRateIsCurable`, `HoldersAreNeverShort`, `SwapEventsMatch` | 2 users, rates 1, 1.5, 2, amounts that both roundings cut, fee 0, 1/4 and an invalid one, age limits below and above the throttle, a limit that refuses some swaps; every amount sent to every hook, in every state |
| `window_open` | `SurplusNeverFalls`, `SwapCostBounded` | outside mints and spending, amounts 5 and 12 against a fee of 1/2, so the fee exceeds the rounding, `min_vfdusd_out` of 0 and above, and products above `MaxU128` |
| `window_history` | `VolumeIsExact`, `AnyDayWithinTwiceLimit` | day of 3 blocks, 3 days, limits 1 and 2 moved by governance at any time, rate 1 so amounts are notionals |
| `effective_volume` | violates `ReportedVolumeApplies` (finding) | as `window_history` |
| `window_tx` | `ImplementsAtomicWindow`, `SwapsPassThrough`, `BackedAtEveryMessage` | every hook on both tokens, failure at every message, tokens stranded in the window beforehand |
| `wrap` | `TypeOK`, `AlwaysUnwrappable`, `ReserveKeepsTheFee`, `MetersAreExact`, `AnyDayWithinTwiceLimit` | two denominations, the second with other minters; fees that round (a half of 3), take all, so that a wrap mints nothing, and are refused; windows that open at different times over more than a day |
| `service` | `ServiceTypeOK`, `AgedRateIsPaged`, `RateAgeBounded`, `SuccessIsDelivered` | poll interval, tick timeout, LCD lag and threshold 1, throttle 3: by block 7 there are two updates, a transaction landing after its tick, an old state served once more, and a page; two accounts that governance makes operator in turn, so that a rival's update of the same rate falls between decision and confirmation; events present, which allows every confirmation that stripped events with their State fallback allow, and more; one restart at any point; local clock up to one behind |
| `bsc` | `BscTypeOK`, `RateIsFinal`, `TwoOfThree`, `ReadConcludes`, `ReadsWindDown` | two or three URLs, 4 blocks, two confirmations against reorganisations of one and nodes one block apart, so that a head may be named by a node and read from one behind it on another fork; with one confirmation TLC finds a rate that does not stay; rates 4 and 6, which disagree, and a liar's 5, which agrees with both; mantissas that convert with a remainder |
| `wire` | `TerraTypeOK`, `OneTransactionPerTick`, `ImplementsService`, `RecordedOnProof`, `TicksEnd` | two ticks; up to two executions in a transaction, of either contract, with the right rate alone, another alone, both or none; a node's minimum price above the configured one; a poll interval longer than the polling; one restart, a rival, an LCD one block behind. Events may be present or stripped |
| `scenarios` | `AsTested`, `ErrorIffDisabled` | 33 scripts, then two calls of any kind: rates from 0 to above the cap, all tokens with all hooks, amounts of dust to above the limits, fees odd, whole and invalid, every account |
| `service_missed` | violates `OneMissedTickIsHarmless` (finding) | the defaults' proportions 1 : 4 : 6 of poll interval, throttle and age limit as 6 : 24 : 36; events stripped |

The two bounds of `service` are tight on this instance: with one block less for
`RateAgeBounded`, and two for `AgedRateIsPaged` (an LCD lag of one block serves
nothing past the block), TLC finds a behaviour that exceeds them.

**Fairness.** The contracts only react and are checked without any. What the service
owes is stated in `OracleService` as bounds on time: tokio's timers make a due tick begin, a
tick end at its timeout and a sleep end, which `TimePasses` says by not passing a
deadline. That is an assumption on a host that schedules the process. Two properties
need more:

* `TicksEnd` under `TerraFairness`: time goes on (`ClockStep`), sleeps end (`Wake`) and
  the tick's timeout fires (`TickTimesOut`). No request is fair: every one may hang,
  as a TCP connection may. `TickTimesOut` stays enabled from the deadline on.
* `ReadConcludes` under `BscFairness`: a request ends, by the transport's timeout that
  `build_http_provider` sets if not by an answer, and the consensus goes on once
  its reads are there. The tick's timeout, the chain and the nodes are not fair, so the
  read ends by itself. That no step takes a read back, and each of its own takes it
  nearer to its end (`ReadsWindDown`), needs no fairness and is proved.

## The proofs

TLAPS checks, for every value of the constants allowed by `CommonAssumption`,
`OracleAssumption`, `WindowAssumption`, `NativeWrapAssumption`, `ServiceAssumption`,
`TerraTxAssumption` and `BscAssumption` (types of the
constants, positive scales, interval and day, and the confirmations of a BSC read; nothing else
about their size). The two
history modules record what was settled per block time in a function on `1..MaxTime`;
their `HistoryAssumption` says that the first block is one of these.

* `Ust1Common_lemmas`, arithmetic: facts about floor division, and from them that the fee
  never exceeds the amount, that a deposit is minted no more than its value and a
  withdrawal paid no more than its value, that either falls short of its value by less
  than the fee and two units, that the cap is above its baseline and fits for a lower
  baseline when it fits for a higher.
* `Ust1Common_lemmas`, sums: `SumFunctionOnSet` is a `CHOOSE` of a recursive function, so
  that it is a sum at all has to be proved (`SumExists`), and that elements may be taken out
  in any order (`SumRemove`). The library's induction rules take an operator and cannot be
  used; `SubsetInduction` and `CountingUp` state induction for a *set* of good subsets or
  numbers instead, from the well-foundedness of the strict subset order. On the sums
  rest `MeterInv`, what `ensure_limits` keeps true of a meter against the record of
  everything settled, with one lemma for a swap it lets through (`MeteredSwap`), and
  `LedgerSum`, that a CW20's supply is what finitely many holders have.
* `Ust1Oracle_proofs`: `OracleTypeCorrect`, `HeartbeatNeverRefused`,
  `PriceOnlyMovesForward`. `HeartbeatAccepted` is not inductive: a heartbeat is
  refused if the stored rate is above the cap of the stored baseline. The
  strengthening `PriceInv` says that the baseline is at most the rate and
  that the rate is the baseline or within its cap.
* `OracleHistory_proofs`: `DailyCapHolds`, `ProposalsDoNotOutliveTheirGovernor`,
  `HistoryTypeCorrect`.
  The history's opening rate and the stored baseline agree only on days that had
  an update; on others the rate itself is the opening rate. `DayInv` states
  both, and that the stored day is never ahead. A history step is an oracle step
  (`HistoryStep`), so the oracle's invariant carries over.
* `Ust1Window_proofs`, atomic swaps: `TreasuryNeverLoses`, `AlwaysRedeemable`,
  `StaleRateAlwaysCurable`, `SwapsCostTheFee`. `Surplus` is what the treasury holds beyond its
  debt at the stored rate. One lemma per kind of step shows that it does not
  fall: `DepositStep` and `WithdrawStep` by the lemmas on value, `OracleSurplus`
  because the rate does not fall. Redeemability follows from `Surplus >= 0`
  (`SolvencyInv`), which also carries what the arithmetic needs of the fee and the
  age limit.
* `Ust1Window_proofs`, types and meter: `WindowTypes`, `WindowVolumeIsExact`,
  `WindowDayWithinTwiceLimit`. `TypeOK` is not inductive: burning is guarded by the
  holder's balance, and that the supply stays natural rests on its being the sum of the
  balances (`LedgerSum`, in `TypeInv`). The meter sees only its own window; that no day
  across two windows carries more than twice the limit needs to know that the day before
  a window opened lies within the window before it, which is the part of `MeterInv`
  that neither property mentions.
* `Ust1Window_proofs`, what a caller gets back: `EventsNameTheFeeWithheld`, of every swap
  of every user at every rate and fee. `NoHolderFindsItShort`: with the window alone
  minting and spending, `InsufficientVfdusd` is an error nobody who has the UST1 ever
  gets. It joins two halves: what a holder has is part of the supply (`LedgerSum`) and
  so redeemable (`SolvencyInv`), and the error a chain of checks returns is that of its first
  failing one (`LeastPosition`, `ErrorOfACheck`, `ErrorsJoined`). `RefusalsHaveTheirCause`
  is `ErrorIffDisabled` with `ENABLED` spelt out: in every reachable state an update, a
  `Send` of any token with any hook, a validating setter and an acceptance return no
  error exactly when the handler's guard holds. `GuardsAreTheActions` says that an update
  or a swap is its guard and assignments. It needs the types: the meter's
  `checked_add` refuses nothing the rolling limit, a `Uint128`, would let through.
* The oracle under its readers: `WindowLeavesTheOracle` and `ServiceRunsTheOracle` say that
  the window and the operator loop, which extend the oracle, do nothing to it that it
  does not do alone. `HeartbeatAccepted`, `PriceMovesForward` and the oracle's types so
  hold in both, as `ServiceHeartbeatNeverRefused` states for the heartbeat, on which
  the service's recovery rests.
* `Ust1Window_proofs`, swaps message by message: `SwapsAreAtomic`, `BackedThroughoutSwaps`,
  `NothingStaysInTheWindow`. `TxInv` says that the state is either `Idle`, with the
  UST1 covered, or one of eight stages of a deposit or a withdrawal, each of which
  names the messages still queued and what the others did to the state `saved`. A
  stage also keeps what the handler checked, on the state it checked it on: the
  commit has to be a step of the atomic window, whose guards are those checks. One
  lemma takes each stage to the next; `Abort` goes back to `Idle` from any.
* `NativeWrap_proofs`: `WrappedAlwaysCovered`, by `ReserveInv`: every supply is at
  most its reserve while no other minter exists. `FeeStaysInReserve`, from
  the rounding of the fee and the types in the same invariant. `WrapTypesKept`,
  `WrapMetersAreExact` and `WrapDayWithinTwiceLimit` as for the window, with a ledger and a
  meter per denomination: a swap of one leaves the others' as they are.
* `OracleService_proofs`: `ServiceTypeCorrect`, `SuccessMeansDelivered`,
  `AgedRateAlwaysPages`, `RateIsRefreshed`. `ServiceInv` bounds in time what nodes know
  (an answer is at most `LcdLag` old) and what the loop waits for (a deadline lies at
  most a tick or a poll interval ahead). `DeliveryInv` ties what the tracker recorded,
  and what the tick in progress may confirm, to the last update on chain;
  `AlertInv` bounds the deadline by the silence so far, `AgeInv` by `Due` and the
  ticks that failed. `RateIsRefreshed` is for every service whose timers fit
  (`TimersFit`): a tick that confirms what a lagging node repeats has to end before the
  throttle does: with the defaults two minutes of a tick, and the lag, against four hours.
  `OneMissedTickFits` is the other side of the finding `service_missed`: if the
  throttle, what a slow clock adds to it, and two polls with their ticks are together at
  most the age limit and a second (`AgeLimitFits`), one missed tick is harmless to a rate
  updated since the service started. It rests on `RateIsRefreshed` with one failed tick. The
  defaults miss the condition by their two tick timeouts.
* `TerraTx_proofs`: `TerraTxImplementsService`, every step of the requests is a step of
  `OracleService` or changes nothing of it. It needs an invariant of its own,
  since `Confirmed` and `Broadcast` have conditions the requests met earlier: which
  requests belong to which phase, that the signed sequence was the account's, and
  that what the tick remembers of the events is what the poll saw. `RetrySendsNoSecond`: the
  retry starts only where nothing was accepted. `RequestTypeCorrect` bounds polls and
  attempts; `AgedRatePagesUnderRequests`, `RateIsRefreshedUnderRequests` and
  `SuccessMeansDeliveredUnderRequests` carry the service's properties over through the
  refinement, `RequestsRunTheOracle` the oracle's.
  `SuccessNeedsProof` is `RecordedOnProof` for transactions of any length. By induction over
  the executions (`CountingUp`) every group that `wasm_attr_groups` finds in the flat list
  stands for exactly one of them (`StandsAt`, `AllStand`), so what `EventsMatch` reads in
  a group of the oracle's is what that execution did (`MatchIsProof`); the invariant
  `EventsRead` keeps that until the tick records its success.
* `BscRate_proofs`: `AcceptedRateIsFinal`, for confirmations that outlast reorganisations
  and spread together (`ReorgDepth + PoolLag <= Confirmations`). The strengthening says
  that no node is ahead of the chain, that a block asked for is the first or `Confirmations`
  below the foremost node (`Settled`), hence final whichever node answers
  (`SettledIsFinal`), and that an honest answer is the rate of a final block; finality is
  not lost by new blocks. `ConsensusIsTwoOfThree` by cases on which two agree.
  `EveryReadWindsDown` counts the requests and decisions a read has left: a failed or
  answered request and a weighed answer lower the count, a new block, a
  reorganisation or a restart never raises it, and a tick starts it at eight or less.

`Redeemable` and `AlwaysUnwrappable` are claims about sole custody: with
`OpenCustody` or `OpenMint` they say nothing, and the deployment (the window and the
wrap contract being the only minters and the treasury having no other spender of
vFDUSD) has to provide it. `SurplusNeverFalls` needs no such condition.

Only model-checked:

* `ReadConcludes` and `TicksEnd`: liveness under fairness, out of the prover's reach. Of the
  first, what is left to TLC is that fairness makes the steps happen
  that `EveryReadWindsDown` counts.
* `ErrorIffDisabled` as it stands, with its ENABLED, and for the setters that validate
  nothing; `RefusalsHaveTheirCause` proves what it means of the other calls.
* `AsTested`, about the 33 scripts of `ContractTests`: a finite replay, which TLC decides
  completely.

No module declares a RECURSIVE operator.

## Findings

* `EffectiveSwap` reports the volume of an expired window (`effective_volume`) as
  one that applies "to the next deposit or withdraw" (`msg.rs:79`).
* One missed tick can exhaust the rate's age limit (`service_missed`), which
  `config.rs:8-9` excludes: four hours of throttle and two polls of an hour are the
  six hours already. It takes an update that landed shortly after its tick had
  given up on it, and one failing tick when the throttle opens again. `OneMissedTickFits`
  proves what would be enough: an age limit two tick timeouts longer, or a throttle that
  much shorter.

Worth knowing: the "rolling 24h" limit of `ust1-common/src/lib.rs:31` is a fixed window
that a swap opens and that is forgotten a day later, so up to twice the limit settles within 24 hours
around a boundary; `AnyDayWithinTwiceLimit` is the bound, and less would not hold. The bootstrap update has no upper bound,
and a rate above `Uint128::MAX / 10200` makes every later update fail in the cap
arithmetic. `HeartbeatAccepted` and `StaleRateIsCurable` state the condition
(`DailyCapFits(rate)`). And the silence alert, looked at once per tick, comes up to a
poll interval and two tick timeouts after its threshold (`AgedRateIsPaged`), which
by default is when swaps halt: `config.rs:10-11` speaks of paging "at or before"
that, the operations skill allows for one poll interval.

## Not modelled

* In `oracle-service`: signing, JSON, HTTP, ABI decoding, the fee's arithmetic, environment
  parsing and the health endpoint, which keep no state. Which text of a node means
  "not found", "sequence mismatch" or a transient error is taken as given; either answer
  occurs. Base64 or plain attributes (`decode_tendermint_attr`) likewise. That the URLs of
  `BSC_RPC_URLS` are different nodes is an assumption: the code does not check it.
* The suite of `cmm-native-wrap`: its assertions are instances of `NativeWrap`'s properties.
* Treasury internals, CW20 internals, the bridge: not code of this repository.
* Deploy scripts and golden-file tests.

## Plan

1. Service and window composed: the rate's age in terms of the window's `OracleUsable`,
   with `BscRate` in the place of `BscRates`.
2. The wrap contract message by message, as `WindowTx` does it for the window.
3. Proofs: the two compositions above, for which `OneMissedTickFits`,
   `WindowLeavesTheOracle` and `ServiceRunsTheOracle` are the parts; `RefusalsHaveTheirCause`
   and `NoHolderFindsItShort` for the wrap contract, once its errors are modelled.
