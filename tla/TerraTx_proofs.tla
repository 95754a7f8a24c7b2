--------------------------- MODULE TerraTx_proofs ---------------------------
(***************************************************************************)
(* The tick request by request implements OracleService: for every timer,  *)
(* lag, price, number of attempts and set of accounts, whatever the nodes  *)
(* answer; and confirm.rs reads in the events of a transaction what the    *)
(* executions behind them did.                                             *)
(***************************************************************************)
EXTENDS TerraTx, OracleService_proofs, SequenceTheorems

(* The inductive invariant: where a tick stands is where OracleService says  *)
(* it stands, no LCD is ahead of the chain, and what a poll has found of the *)
(* transaction stays true while the service goes on to ask for the State.    *)
StepsArePhases ==
  /\ step \in {"none", "account", "price", "post", "poll", "wait", "observe", "state"}
  /\ step = "none" <=> phase \notin {"broadcast", "confirm"}
  /\ step \in {"account", "price", "post"} <=> phase = "broadcast"

NobodyAhead ==
  /\ sequence \in Nat /\ tx.sequence \in Nat /\ signing \in Nat
  /\ \A s \in stale : s.state.sequence \in Nat /\ s.state.sequence <= sequence

ProofStands ==
  /\ step \in {"observe", "state"} =>
       tx.sequence < sequence /\ [tx |-> tx, ok |-> TRUE] \in index
  /\ step = "observe" => ~EventsStripped

TInv == StepsArePhases /\ NobodyAhead /\ ProofStands

-----------------------------------------------------------------------------
(* What an LCD answers is the chain's own state or an earlier one. *)
LEMMA AnswersNotAhead ==
  ASSUME NobodyAhead, NEW state \in LcdAnswers
  PROVE  state.sequence \in Nat /\ state.sequence <= sequence
BY DEF NobodyAhead, LcdAnswers, ChainState

(* Blocks move the account sequence forward only. *)
LEMMA LaggingNotAhead ==
  ASSUME NobodyAhead, LcdMayLag, sequence' \in Nat, sequence <= sequence'
  PROVE  \A s \in stale' : s.state.sequence \in Nat /\ s.state.sequence <= sequence'
BY DEF NobodyAhead, LcdMayLag, ChainState

(* The chain itself answers for what it has included. *)
LEMMA ProofIsDelivery ==
  ASSUME tx.sequence < sequence, [tx |-> tx, ok |-> TRUE] \in index
  PROVE  Delivered(tx)
<1>1. ChainState \in LcdAnswers /\ ChainState.sequence = sequence
  BY DEF LcdAnswers, ChainState
<1> QED
  BY <1>1 DEF Delivered

-----------------------------------------------------------------------------
LEMMA InitTInv == TerraInit => TInv
BY DEF TerraInit, NoRequests, ServiceInit, NoTx, TInv, StepsArePhases, NobodyAhead, ProofStands

(* A tick that is over leaves nothing to be proved. *)
LEMMA TickOverTInv ==
  ASSUME TInv, TickOver, EndTick \/ (phase' = "down" /\ tx' = NoTx),
         UNCHANGED <<sequence, stale>>
  PROVE  TInv'
BY DEF TInv, TickOver, EndTick, NoTx, StepsArePhases, NobodyAhead, ProofStands

LEMMA StepTInv == TInv /\ [TerraNext]_all_vars => TInv'
<1> SUFFICES ASSUME TInv, [TerraNext]_all_vars PROVE TInv'
  OBVIOUS
<1> USE DEF TInv, terra_vars
<1>1. CASE ProcessStep
  <2>1. CASE BeginTick /\ UNCHANGED request_vars
    BY <2>1 DEF BeginTick, request_vars, StepsArePhases, NobodyAhead, ProofStands
  <2>2. CASE Start /\ UNCHANGED request_vars
    BY <2>2 DEF Start, request_vars, StepsArePhases, NobodyAhead, ProofStands
  <2>3. CASE Stop /\ TickOver
    BY <2>3, TickOverTInv DEF Stop
  <2> QED
    BY <1>1, <2>1, <2>2, <2>3 DEF ProcessStep
<1>2. CASE Decides
  BY <1>2 DEF Decides, ReadAndDecide, EndTick, NoTx, StepsArePhases, NobodyAhead, ProofStands
<1>3. CASE GetAccountInfo
  <2>1. PICK state \in LcdAnswers : signing' = state.sequence
    BY <1>3 DEF GetAccountInfo
  <2>2. signing' \in Nat
    BY <2>1, AnswersNotAhead
  <2> QED
    BY <1>3, <2>2
    DEF GetAccountInfo, vars, service_vars, StepsArePhases, NobodyAhead, ProofStands
<1>4. CASE ResolveGasPrice \/ PostMismatch \/ PollAgain \/ Wake \/ StateAgain
  BY <1>4
  DEF ResolveGasPrice, PostMismatch, PollAgain, Wake, StateAgain, vars, service_vars,
      StepsArePhases, NobodyAhead, ProofStands
<1>5. CASE PostAccepted
  BY <1>5 DEF PostAccepted, Accepted, SignedTx, StepsArePhases, NobodyAhead, ProofStands
<1>6. CASE ReplyLost
  BY <1>6, TickOverTInv DEF ReplyLost, Accepted
<1>7. CASE PostRefused \/ PollContradicted \/ PollFailed \/ PollTimesOut \/ StateGivesUp
             \/ RequestFails \/ TickTimesOut
  BY <1>7, TickOverTInv
  DEF PostRefused, PollContradicted, PollFailed, PollTimesOut, StateGivesUp, RequestFails,
      TickTimesOut, TickFails
<1>8. CASE PollProved \/ PollSilent
  <2>1. PICK executions \in Executions :
           \/ PollDelivered(executions, "matched") /\ step' = "observe"
           \/ PollDelivered(executions, "absent") /\ step' = "state"
    BY <1>8 DEF PollProved, PollSilent
  <2>2. UNCHANGED vars /\ UNCHANGED signing
    BY <1>8 DEF PollProved, PollSilent
  <2>3. PICK state \in LcdAnswers : tx.sequence < state.sequence
    BY <2>1 DEF PollDelivered, Included
  <2>4. tx.sequence < sequence /\ [tx |-> tx, ok |-> TRUE] \in index
    BY <2>1, <2>3, AnswersNotAhead DEF PollDelivered, Included, NobodyAhead
  <2>5. step' = "observe" => ~EventsStripped
    <3> SUFFICES ASSUME EventsStripped, PollDelivered(executions, "matched") PROVE FALSE
      BY <2>1
    <3>1. GroupStarts(Reported(executions)) = {}
      BY TerraTxAssumption
    <3>2. EventsMatch(Reported(executions), tx.rate) = "absent"
      BY <3>1 DEF EventsMatch
    <3> QED
      BY <3>2 DEF PollDelivered
  <2> QED
    BY <2>1, <2>2, <2>4, <2>5
    DEF PollDelivered, vars, service_vars, StepsArePhases, NobodyAhead, ProofStands
<1>9. CASE ObserveState \/ StateProves
  BY <1>9, TickOverTInv DEF ObserveState, StateProves, Record
<1>10. CASE ClockStep
  BY <1>10
  DEF ClockStep, TimePasses, request_vars, service_vars, StepsArePhases, NobodyAhead, ProofStands
<1>11. CASE ChainStep
  <2>1. CASE Include
    <3>1. sequence' = sequence + 1 /\ LcdMayLag /\ index \subseteq index'
      BY <2>1 DEF Include
    <3> QED
      BY <1>11, <2>1, <3>1, LaggingNotAhead
      DEF ChainStep, Include, request_vars, StepsArePhases, NobodyAhead, ProofStands
  <2>2. CASE Evict
    BY <1>11, <2>2
    DEF ChainStep, Evict, request_vars, service_vars, StepsArePhases, NobodyAhead, ProofStands
  <2>3. CASE OthersAct
    BY <1>11, <2>3, LaggingNotAhead
    DEF ChainStep, OthersAct, request_vars, service_vars, StepsArePhases, NobodyAhead, ProofStands
  <2> QED
    BY <1>11, <2>1, <2>2, <2>3 DEF ChainStep
<1>12. CASE UNCHANGED all_vars
  BY <1>12
  DEF all_vars, request_vars, vars, service_vars, StepsArePhases, NobodyAhead, ProofStands
<1> QED
  BY <1>1, <1>2, <1>3, <1>4, <1>5, <1>6, <1>7, <1>8, <1>9, <1>10, <1>11, <1>12
  DEF TerraNext, RequestStep

-----------------------------------------------------------------------------
(* Every request is a step of OracleService or none of its business. *)
LEMMA StepImplements ==
  TInv /\ [TerraNext]_all_vars => [ServiceNext]_vars
<1> SUFFICES ASSUME TInv, TerraNext PROVE ServiceNext \/ UNCHANGED vars
  BY DEF all_vars
<1>1. CASE ProcessStep
  BY <1>1 DEF ProcessStep, ServiceNext, ServiceStep
<1>2. CASE Decides
  BY <1>2 DEF Decides, ServiceNext, ServiceStep
<1>3. CASE GetAccountInfo \/ ResolveGasPrice \/ PostMismatch \/ PollProved \/ PollSilent
             \/ PollAgain \/ Wake \/ StateAgain
  BY <1>3
  DEF GetAccountInfo, ResolveGasPrice, PostMismatch, PollProved, PollSilent, PollAgain, Wake,
      StateAgain
<1>4. CASE PostAccepted \/ ReplyLost
  <2>1. phase = "broadcast" /\ mempool = {} /\ mempool' = {SignedTx}
    BY <1>4
    DEF PostAccepted, ReplyLost, Accepted, SequenceExpected, TInv, StepsArePhases
  <2>2. PICK node \in LcdAnswers : signing = node.sequence
    BY <1>4 DEF PostAccepted, ReplyLost, Accepted, SequenceExpected
  <2>3. SignedTx = Signed(node)
    BY <2>2 DEF SignedTx, Signed
  <2>4. UNCHANGED <<chain_vars, sequence, index, stale, tracker_vars, restarts>>
    BY <1>4 DEF PostAccepted, ReplyLost, Accepted
  <2>5. \/ phase' = "confirm" /\ tx' = SignedTx /\ UNCHANGED <<deadline, prior, missed>>
        \/ EndTick /\ missed' = missed + 1
    BY <1>4 DEF PostAccepted, ReplyLost
  <2>6. Broadcast
    BY <2>1, <2>3, <2>4, <2>5 DEF Broadcast
  <2> QED
    BY <2>6 DEF ServiceNext, ServiceStep
<1>5. CASE PostRefused \/ PollContradicted \/ PollFailed \/ PollTimesOut \/ StateGivesUp
             \/ RequestFails \/ TickTimesOut
  BY <1>5
  DEF PostRefused, PollContradicted, PollFailed, PollTimesOut, StateGivesUp, RequestFails,
      TickTimesOut, ServiceNext, ServiceStep
<1>6. CASE ObserveState \/ StateProves
  <2>1. phase = "confirm" /\ Delivered(tx)
    BY <1>6, ProofIsDelivery DEF ObserveState, StateProves, TInv, StepsArePhases, ProofStands
  <2>2. EventsStripped => StateMatches(tx)
    BY <1>6 DEF ObserveState, StateProves, TInv, ProofStands
  <2>3. Confirm
    BY <1>6, <2>1, <2>2 DEF ObserveState, StateProves, Record, Confirm, Confirmed
  <2> QED
    BY <2>3 DEF ServiceNext, ServiceStep
<1>7. CASE ClockStep \/ ChainStep
  BY <1>7 DEF ClockStep, ChainStep, ServiceNext
<1> QED
  BY <1>1, <1>2, <1>3, <1>4, <1>5, <1>6, <1>7 DEF TerraNext, RequestStep

(* terra_tx.rs and confirm.rs, one request at a time, do what OracleService  *)
(* says of a tick: no interleaving of requests with blocks, restarts, other  *)
(* operators and lagging nodes leads anywhere else.                          *)
THEOREM TerraTxImplementsService == TerraSpec => ImplementsService
<1>1. TerraInit => TInv
  BY InitTInv
<1>2. TInv /\ [TerraNext]_all_vars => TInv'
  BY StepTInv
<1>3. TInv /\ [TerraNext]_all_vars => [ServiceNext]_vars
  BY StepImplements
<1>4. TerraInit => ServiceInit
  BY DEF TerraInit
<1> QED
  BY <1>1, <1>2, <1>3, <1>4, PTL DEF TerraSpec, ImplementsService, ServiceSpec

-----------------------------------------------------------------------------
(* Before a node has accepted a transaction of this tick there is none, and  *)
(* afterwards the tick does not broadcast again.                             *)
PostedOnce ==
  /\ posted \in {0, 1}
  /\ step \in {"none", "account", "price", "post"} => posted = 0

LEMMA StepPostedOnce ==
  TInv /\ PostedOnce /\ [TerraNext]_all_vars => PostedOnce'
<1> SUFFICES ASSUME TInv, PostedOnce, [TerraNext]_all_vars PROVE PostedOnce'
  OBVIOUS
<1>1. CASE TickOver
  BY <1>1 DEF TickOver, PostedOnce
<1>2. CASE UNCHANGED request_vars
  BY <1>2 DEF request_vars, PostedOnce
<1>3. CASE Decides
  BY <1>3 DEF Decides, ReadAndDecide, PostedOnce, TInv, StepsArePhases
<1>4. CASE GetAccountInfo \/ ResolveGasPrice \/ PostMismatch
  BY <1>4 DEF GetAccountInfo, ResolveGasPrice, PostMismatch, PostedOnce
<1>5. CASE PostAccepted
  BY <1>5 DEF PostAccepted, Accepted, PostedOnce
<1>6. CASE PollProved \/ PollSilent \/ PollAgain \/ Wake \/ StateAgain
  BY <1>6
  DEF PollProved, PollSilent, PollDelivered, PollAgain, Wake, StateAgain, PostedOnce
<1> QED
  BY <1>1, <1>2, <1>3, <1>4, <1>5, <1>6
  DEF TerraNext, RequestStep, ProcessStep, ClockStep, ChainStep, ReplyLost, PostRefused,
      PollContradicted, PollFailed, PollTimesOut, StateGivesUp, RequestFails, TickTimesOut,
      ObserveState, StateProves, Record, all_vars

(* The retry of sign_and_broadcast_execute never sends a second transaction. *)
THEOREM RetrySendsNoSecond == TerraSpec => []OneTransactionPerTick
<1>1. TerraInit => TInv /\ PostedOnce
  BY InitTInv DEF TerraInit, NoRequests, PostedOnce
<1>2. TInv /\ PostedOnce /\ [TerraNext]_all_vars => (TInv /\ PostedOnce)'
  BY StepTInv, StepPostedOnce
<1>3. PostedOnce => OneTransactionPerTick
  <2>1. \A n \in {0, 1} : n <= 1
    OBVIOUS
  <2> QED
    BY <2>1 DEF PostedOnce, OneTransactionPerTick
<1> QED
  BY <1>1, <1>2, <1>3, PTL DEF TerraSpec

-----------------------------------------------------------------------------
(* What is kept between the requests of a tick. *)
RequestTypes ==
  /\ signing \in 0..sequence /\ gas_price \in Nat /\ retried \in BOOLEAN
  /\ confirm_by \in Nat /\ wake \in Nat /\ wake <= confirm_by
  /\ step # "wait" => wake = 0
  /\ attempt \in 0..StateAttempts
  /\ posted \in Nat

LEMMA TickOverTypes ==
  ASSUME TickOver, sequence' \in Nat
  PROVE  RequestTypes'
<1>1. retried' \in BOOLEAN
  BY DEF TickOver
<1> QED
  BY <1>1, TerraTxAssumption DEF TickOver, RequestTypes

LEMMA RequestStepTypes ==
  ASSUME TInv, ServiceInv, RequestTypes, RequestStep, ~TickOver
  PROVE  RequestTypes'
<1> USE TerraTxAssumption
<1>1. sequence \in Nat /\ clock \in Nat
  BY DEF ServiceInv, LcdInv, OracleTypeOK
<1>2. CASE Decides
  <2>1. UNCHANGED <<sequence, signing, gas_price, retried, confirm_by, wake, attempt, posted>>
    BY <1>2 DEF Decides, ReadAndDecide, terra_vars
  <2>2. step = "none" /\ step' # "wait"
    BY <1>2 DEF Decides, ReadAndDecide, TInv, StepsArePhases
  <2> QED
    BY <1>1, <2>1, <2>2 DEF RequestTypes
<1>3. CASE GetAccountInfo
  <2>1. UNCHANGED <<sequence, gas_price, retried, confirm_by, wake, attempt, posted>>
    BY <1>3 DEF GetAccountInfo, vars, terra_vars
  <2>2. step = "account" /\ step' = "price" /\ signing' \in 0..sequence
    BY <1>3, AnswerBounds DEF GetAccountInfo, ServiceInv
  <2> QED
    BY <1>1, <2>1, <2>2 DEF RequestTypes
<1>4. CASE ResolveGasPrice
  <2>1. UNCHANGED <<sequence, signing, retried, confirm_by, wake, attempt, posted>>
    BY <1>4 DEF ResolveGasPrice, vars, terra_vars
  <2>2. step = "price" /\ step' = "post" /\ gas_price' \in Nat
    BY <1>4 DEF ResolveGasPrice
  <2> QED
    BY <1>1, <2>1, <2>2 DEF RequestTypes
<1>5. CASE PostAccepted
  <2>1. UNCHANGED <<sequence, wake, attempt>> /\ step = "post" /\ step' = "poll"
    BY <1>5 DEF PostAccepted, Accepted
  <2>2. /\ signing' = 0 /\ gas_price' = 0 /\ retried' \in BOOLEAN
        /\ confirm_by' = clock + ConfirmTimeout /\ posted' = posted + 1
    BY <1>5 DEF PostAccepted
  <2> QED
    BY <1>1, <2>1, <2>2 DEF RequestTypes
<1>6. CASE PostMismatch
  <2>1. UNCHANGED <<sequence, signing, gas_price, confirm_by, wake, attempt, posted>>
    BY <1>6 DEF PostMismatch, vars, terra_vars
  <2>2. step = "post" /\ step' = "account" /\ retried' \in BOOLEAN
    BY <1>6 DEF PostMismatch
  <2> QED
    BY <1>1, <2>1, <2>2 DEF RequestTypes
<1>7. CASE PollProved
  <2>1. UNCHANGED <<sequence, signing, gas_price, retried, confirm_by, wake, attempt, posted>>
    BY <1>7 DEF PollProved, vars, terra_vars
  <2>2. step = "poll" /\ step' = "observe"
    BY <1>7 DEF PollProved, PollDelivered
  <2> QED
    BY <1>1, <2>1, <2>2 DEF RequestTypes
<1>8. CASE PollSilent
  <2>1. UNCHANGED <<sequence, signing, gas_price, retried, confirm_by, wake, posted>>
    BY <1>8 DEF PollSilent, vars, terra_vars
  <2>2. step = "poll" /\ step' = "state" /\ attempt' = 1
    BY <1>8 DEF PollSilent, PollDelivered
  <2> QED
    BY <1>1, <2>1, <2>2 DEF RequestTypes
<1>9. CASE PollAgain
  <2>1. UNCHANGED <<sequence, signing, gas_price, retried, confirm_by, attempt, posted>>
    BY <1>9 DEF PollAgain, vars, terra_vars
  <2>2. /\ step' = "wait" /\ clock < confirm_by
        /\ wake' = IF clock + ConfirmPoll < confirm_by THEN clock + ConfirmPoll ELSE confirm_by
    BY <1>9 DEF PollAgain
  <2>3. wake' \in Nat /\ wake' <= confirm_by
    BY <1>1, <2>2 DEF RequestTypes
  <2> QED
    BY <1>1, <2>1, <2>2, <2>3 DEF RequestTypes
<1>10. CASE Wake
  <2>1. UNCHANGED <<sequence, signing, gas_price, retried, confirm_by, attempt, posted>>
    BY <1>10 DEF Wake, vars, terra_vars
  <2>2. step' = "poll" /\ wake' = 0
    BY <1>10 DEF Wake
  <2> QED
    BY <1>1, <2>1, <2>2 DEF RequestTypes
<1>11. CASE StateAgain
  <2>1. UNCHANGED <<sequence, step, signing, gas_price, retried, confirm_by, wake, posted>>
    BY <1>11 DEF StateAgain, vars, terra_vars
  <2>2. attempt' = attempt + 1 /\ attempt < StateAttempts
    BY <1>11 DEF StateAgain
  <2> QED
    BY <1>1, <2>1, <2>2 DEF RequestTypes
<1> QED
  BY <1>2, <1>3, <1>4, <1>5, <1>6, <1>7, <1>8, <1>9, <1>10, <1>11
  DEF RequestStep, ReplyLost, PostRefused, PollContradicted, PollFailed, PollTimesOut,
      StateGivesUp, RequestFails, TickTimesOut, ObserveState, StateProves, Record

LEMMA StepRequestTypes ==
  TInv /\ ServiceInv /\ RequestTypes /\ [TerraNext]_all_vars => RequestTypes'
<1> SUFFICES ASSUME TInv, ServiceInv, RequestTypes, [TerraNext]_all_vars PROVE RequestTypes'
  OBVIOUS
<1>1. ServiceInv'
  BY StepImplements, StepServiceInv
<1>2. sequence \in Nat /\ sequence' \in Nat
  BY <1>1 DEF ServiceInv, LcdInv
<1>3. CASE TickOver
  BY <1>2, <1>3, TickOverTypes
<1>4. CASE RequestStep /\ ~TickOver
  BY <1>4, RequestStepTypes
<1>5. CASE UNCHANGED request_vars /\ (sequence' = sequence \/ Include)
  <2>1. sequence <= sequence'
    BY <1>2, <1>5 DEF Include
  <2> QED
    BY <1>2, <1>5, <2>1 DEF request_vars, RequestTypes
<1> QED
  BY <1>3, <1>4, <1>5
  DEF TerraNext, ProcessStep, BeginTick, Start, ClockStep, TimePasses, ChainStep, Evict,
      OthersAct, all_vars, vars, terra_vars

(* The service, the request it waits for and what it keeps for the next one  *)
(* keep their types, and a request belongs to the phase of its tick.         *)
THEOREM RequestTypeCorrect == TerraSpec => []TerraTypeOK
<1> DEFINE Inv == TInv /\ ServiceInv /\ RequestTypes
<1>1. TerraInit => Inv
  <2>1. SUFFICES ASSUME TerraInit PROVE RequestTypes
    BY InitTInv, InitServiceInv DEF TerraInit
  <2>2. sequence = 0 /\ retried \in BOOLEAN
    BY <2>1 DEF TerraInit, ServiceInit, NoRequests
  <2> QED
    BY <2>1, <2>2, TerraTxAssumption DEF TerraInit, NoRequests, RequestTypes
<1>2. Inv /\ [TerraNext]_all_vars => Inv'
  BY StepTInv, StepRequestTypes, StepImplements, StepServiceInv
<1>3. Inv => TerraTypeOK
  <2>1. SUFFICES ASSUME Inv PROVE TerraTypeOK
    OBVIOUS
  <2>2. step \in CASE phase = "broadcast" -> {"account", "price", "post"}
                   [] phase = "confirm"   -> {"poll", "wait", "observe", "state"}
                   [] OTHER               -> {"none"}
    BY <2>1 DEF TInv, StepsArePhases
  <2> QED
    BY <2>1, <2>2, ServiceInvTypes DEF TerraTypeOK, RequestTypes
<1> QED
  BY <1>1, <1>2, <1>3, PTL DEF TerraSpec

(* Request by request, an aged rate is paged as it is tick by tick.          *)
THEOREM AgedRatePagesUnderRequests == TerraSpec => []AgedRateIsPaged
BY TerraTxImplementsService, AgedRateAlwaysPages, PTL DEF ImplementsService

(* And a due update waits no longer than there: retries, polls and proofs    *)
(* all fit in the tick they belong to.                                       *)
THEOREM RateIsRefreshedUnderRequests == TimersFit => (TerraSpec => []RateAgeBounded)
BY TerraTxImplementsService, RateIsRefreshed, PTL DEF ImplementsService

(* What the tracker records is a transaction of this tick that was executed. *)
THEOREM SuccessMeansDeliveredUnderRequests == TerraSpec => SuccessIsDelivered
BY TerraTxImplementsService, SuccessMeansDelivered, PTL DEF ImplementsService

(* The contract under the requests is the contract. *)
THEOREM RequestsRunTheOracle == TerraSpec => OracleSpec
BY TerraTxImplementsService, ServiceRunsTheOracle, PTL DEF ImplementsService

-----------------------------------------------------------------------------
(* What an LCD reports of a transaction, and what confirm.rs reads in it.     *)

(* The sequences flattened so far, one more of them at each position.        *)
FlattenStep(s, n, f) == [i \in 1..n |-> IF i = 1 THEN s[i] ELSE f[i-1] \o s[i]]

(* There is such a function, by induction over the length. *)
LEMMA FlattenExists ==
  ASSUME NEW s, NEW n \in Nat
  PROVE  \E f : f = FlattenStep(s, n, f)
<1> DEFINE G == {k \in 0..n : \E f : f = FlattenStep(s, k, f)}
<1>1. 0 \in G
  <2> DEFINE f == [i \in 1..0 |-> 0]
  <2>1. f = FlattenStep(s, 0, f)
    BY DEF FlattenStep
  <2>2. QED
    BY <2>1
<1>2. ASSUME NEW k \in 0..(n - 1), k \in G PROVE k + 1 \in G
  <2>1. PICK g : g = FlattenStep(s, k, g)
    BY <1>2
  <2> DEFINE h == [i \in 1..(k + 1) |->
                     IF i <= k THEN g[i] ELSE IF i = 1 THEN s[i] ELSE g[i-1] \o s[i]]
  <2>2. \A i \in 1..k : g[i] = IF i = 1 THEN s[i] ELSE g[i-1] \o s[i]
    BY <2>1 DEF FlattenStep
  <2>3. ASSUME NEW i \in 1..(k + 1)
        PROVE  h[i] = IF i = 1 THEN s[i] ELSE h[i-1] \o s[i]
    <3>1. CASE i = 1
      BY <2>2, <3>1
    <3>2. CASE i # 1
      <4>1. i - 1 \in 1..(k + 1) /\ i - 1 <= k
        BY <3>2
      <4>2. h[i-1] = g[i-1]
        BY <4>1
      <4>3. h[i] = g[i-1] \o s[i]
        <5>1. CASE i <= k
          <6>1. i \in 1..k
            BY <5>1
          <6>2. h[i] = g[i]
            BY <5>1
          <6>3. g[i] = g[i-1] \o s[i]
            BY <2>2, <3>2, <6>1
          <6>4. QED
            BY <6>2, <6>3
        <5>2. CASE ~(i <= k)
          BY <3>2, <5>2
        <5>3. QED
          BY <5>1, <5>2
      <4>4. QED
        BY <3>2, <4>2, <4>3
    <3>3. QED
      BY <3>1, <3>2
  <2>4. h = FlattenStep(s, k + 1, h)
    BY <2>3 DEF FlattenStep
  <2>5. QED
    BY <2>4
<1> HIDE DEF G
<1>3. 0..n \subseteq G
  BY <1>1, <1>2, CountingUp
<1>4. QED
  BY <1>3 DEF G

(* What FlattenSeq computes, sequence by sequence. *)
LEMMA Flattened ==
  ASSUME NEW s, Len(s) \in Nat \ {0}
  PROVE  \E f : /\ FlattenSeq(s) = f[Len(s)]
                /\ \A i \in 1..Len(s) : f[i] = IF i = 1 THEN s[i] ELSE f[i-1] \o s[i]
<1> DEFINE f == CHOOSE g : g = FlattenStep(s, Len(s), g)
<1>1. f = FlattenStep(s, Len(s), f)
  BY FlattenExists
<1>2. FlattenSeq(s) = f[Len(s)]
  BY DEF FlattenSeq, FlattenStep
<1>3. QED
  BY <1>1, <1>2 DEF FlattenStep

(* Executions, the attributes they are reported as, and where they stand.    *)
AnAttribute ==
  [key : {"_contract_address", "action", "rate"},
   value : {OracleAddr, OtherAddr} \cup STRING \cup Nat]

(* A sequence put behind another. *)
LEMMA Joined ==
  ASSUME NEW S, NEW s \in Seq(S), NEW t \in Seq(S)
  PROVE  /\ s \o t \in Seq(S) /\ Len(s \o t) = Len(s) + Len(t)
         /\ Len(s) \in Nat /\ Len(t) \in Nat
         /\ \A k \in 1..Len(s) : (s \o t)[k] = s[k]
         /\ \A k \in 1..Len(t) : (s \o t)[Len(s) + k] = t[k]
<1>1. Len(s) \in Nat /\ Len(t) \in Nat
  OBVIOUS
<1>2. /\ s \o t \in Seq(S)
      /\ Len(s \o t) = Len(s) + Len(t)
      /\ \A i \in 1..Len(s) + Len(t) :
           (s \o t)[i] = IF i <= Len(s) THEN s[i] ELSE t[i - Len(s)]
  BY ConcatProperties
<1>3. ASSUME NEW k \in 1..Len(s) PROVE (s \o t)[k] = s[k]
  <2>1. k \in 1..Len(s) + Len(t) /\ k <= Len(s)
    BY <1>1
  <2>2. QED
    BY <1>2, <2>1
<1>4. ASSUME NEW k \in 1..Len(t) PROVE (s \o t)[Len(s) + k] = t[k]
  <2>1. Len(s) + k \in 1..Len(s) + Len(t) /\ ~(Len(s) + k <= Len(s))
        /\ (Len(s) + k) - Len(s) = k
    BY <1>1
  <2>2. QED
    BY <1>2, <2>1
<1>5. QED
  BY <1>1, <1>2, <1>3, <1>4

(* The attributes of one execution, one by one. *)
LEMMA AttributesShape ==
  ASSUME NEW e \in Execution
  PROVE  /\ AttributesOf(e) \in Seq(AnAttribute)
         /\ Len(AttributesOf(e)) = 2 + Len(e.rates)
         /\ AttributesOf(e)[1] = Attribute("_contract_address", e.contract)
         /\ AttributesOf(e)[2] = Attribute("action", e.action)
         /\ \A j \in 1..Len(e.rates) : AttributesOf(e)[2 + j] = Attribute("rate", e.rates[j])
<1> DEFINE head == <<Attribute("_contract_address", e.contract), Attribute("action", e.action)>>
           tail == [i \in DOMAIN e.rates |-> Attribute("rate", e.rates[i])]
           A == AnAttribute
<1>1. e.contract \in {OracleAddr, OtherAddr} /\ e.action \in STRING /\ e.rates \in Seq(Nat)
  BY DEF Execution
<1>2. head \in Seq(A) /\ Len(head) = 2
  BY <1>1 DEF AnAttribute, Attribute
<1>3. \A j \in 1..Len(e.rates) : Attribute("rate", e.rates[j]) \in A
  BY <1>1 DEF AnAttribute, Attribute
<1>4. DOMAIN e.rates = 1..Len(e.rates) /\ Len(e.rates) \in Nat
  BY <1>1
<1>5. tail \in Seq(A) /\ Len(tail) = Len(e.rates)
      /\ \A j \in 1..Len(e.rates) : tail[j] = Attribute("rate", e.rates[j])
  BY <1>3, <1>4
<1>6. AttributesOf(e) = head \o tail
  BY DEF AttributesOf
<1>7. head[1] = Attribute("_contract_address", e.contract) /\ head[2] = Attribute("action", e.action)
  OBVIOUS
<1> HIDE DEF head, tail, A
<1>8. /\ head \o tail \in Seq(A) /\ Len(head \o tail) = Len(head) + Len(tail)
      /\ \A k \in 1..Len(head) : (head \o tail)[k] = head[k]
      /\ \A k \in 1..Len(tail) : (head \o tail)[Len(head) + k] = tail[k]
  <2>1. \A x, y \in Seq(A) :
          /\ x \o y \in Seq(A) /\ Len(x \o y) = Len(x) + Len(y)
          /\ \A k \in 1..Len(x) : (x \o y)[k] = x[k]
          /\ \A k \in 1..Len(y) : (x \o y)[Len(x) + k] = y[k]
    BY Joined
  <2>2. QED
    BY <1>2, <1>5, <2>1
<1>9. (head \o tail)[1] = head[1] /\ (head \o tail)[2] = head[2]
  BY <1>2, <1>8
<1>10. \A j \in 1..Len(e.rates) : (head \o tail)[2 + j] = tail[j]
  BY <1>2, <1>5, <1>8
<1>11. QED
  BY <1>2, <1>5, <1>6, <1>7, <1>8, <1>9, <1>10 DEF A

(* The attributes of e stand at k, and no more attributes follow in their    *)
(* group.                                                                    *)
StandsAt(F, k, e) ==
  /\ k + 1 + Len(e.rates) <= Len(F)
  /\ F[k] = Attribute("_contract_address", e.contract)
  /\ F[k + 1] = Attribute("action", e.action)
  /\ \A j \in 1..Len(e.rates) : F[k + 1 + j] = Attribute("rate", e.rates[j])
  /\ k + 1 + Len(e.rates) < Len(F) => F[k + 2 + Len(e.rates)].key = "_contract_address"

(* Every group is that of one of the first n executions. *)
AllStand(F, es, n) ==
  /\ \A k \in 1..Len(F) :
       F[k].key = "_contract_address" => \E i \in 1..n : StandsAt(F, k, es[i])
  /\ Len(F) > 0 /\ F[1].key = "_contract_address"

(* Within one execution only the first attribute starts a group. *)
LEMMA OneStands ==
  ASSUME NEW e \in Execution,
         NEW k \in 1..Len(AttributesOf(e)),
         AttributesOf(e)[k].key = "_contract_address"
  PROVE  k = 1
<1>1. e.rates \in Seq(Nat)
  BY DEF Execution
<1>2. /\ Len(AttributesOf(e)) = 2 + Len(e.rates) /\ Len(e.rates) \in Nat
      /\ AttributesOf(e)[2] = Attribute("action", e.action)
      /\ \A j \in 1..Len(e.rates) : AttributesOf(e)[2 + j] = Attribute("rate", e.rates[j])
  BY <1>1, AttributesShape
<1>3. k # 2
  BY <1>2 DEF Attribute
<1>4. ASSUME k > 2 PROVE FALSE
  <2>1. k - 2 \in 1..Len(e.rates) /\ 2 + (k - 2) = k
    BY <1>2, <1>4
  <2>2. AttributesOf(e)[k] = Attribute("rate", e.rates[k - 2])
    BY <1>2, <2>1
  <2>3. QED
    BY <2>2 DEF Attribute
<1>5. QED
  BY <1>2, <1>3, <1>4

(* The attributes of the first execution stand for it. *)
LEMMA FirstStands ==
  ASSUME NEW es, es[1] \in Execution
  PROVE  AttributesOf(es[1]) \in Seq(AnAttribute) /\ AllStand(AttributesOf(es[1]), es, 1)
<1> DEFINE F == AttributesOf(es[1])
<1>0. Len(es[1].rates) \in Nat
  BY DEF Execution
<1>1. /\ F \in Seq(AnAttribute) /\ Len(F) = 2 + Len(es[1].rates)
      /\ Len(es[1].rates) \in Nat
      /\ F[1] = Attribute("_contract_address", es[1].contract)
      /\ F[2] = Attribute("action", es[1].action)
      /\ \A j \in 1..Len(es[1].rates) : F[2 + j] = Attribute("rate", es[1].rates[j])
  BY <1>0, AttributesShape
<1>2. StandsAt(F, 1, es[1])
  BY <1>1 DEF StandsAt
<1>3. ASSUME NEW k \in 1..Len(F), F[k].key = "_contract_address"
      PROVE  \E i \in 1..1 : StandsAt(F, k, es[i])
  <2>1. k = 1
    BY <1>3, OneStands
  <2>2. QED
    BY <1>2, <2>1
<1>4. Len(F) > 0 /\ F[1].key = "_contract_address"
  BY <1>1 DEF Attribute
<1>5. QED
  BY <1>1, <1>3, <1>4 DEF AllStand

(* So do those of one more, joined to those before. *)
LEMMA NextStands ==
  ASSUME NEW es, NEW n \in Nat, es[n + 1] \in Execution,
         NEW F \in Seq(AnAttribute), AllStand(F, es, n),
         \A i \in 1..n : es[i] \in Execution
  PROVE  /\ F \o AttributesOf(es[n + 1]) \in Seq(AnAttribute)
         /\ AllStand(F \o AttributesOf(es[n + 1]), es, n + 1)
<1> DEFINE e == es[n + 1]
           s == AttributesOf(e)
           A == AnAttribute
           L == Len(e.rates)
           G == F \o s
<1>1. /\ s \in Seq(A) /\ Len(s) = 2 + L /\ L \in Nat
      /\ s[1] = Attribute("_contract_address", e.contract)
      /\ s[2] = Attribute("action", e.action)
      /\ \A j \in 1..L : s[2 + j] = Attribute("rate", e.rates[j])
  <2>1. L \in Nat
    BY DEF Execution
  <2>2. QED
    BY <2>1, AttributesShape
<1>2. \A k \in 1..Len(s) : s[k].key = "_contract_address" => k = 1
  BY OneStands
<1> HIDE DEF s, A
<1>3. /\ G \in Seq(A) /\ Len(G) = Len(F) + Len(s) /\ Len(F) \in Nat
      /\ \A k \in 1..Len(F) : G[k] = F[k]
      /\ \A k \in 1..Len(s) : G[Len(F) + k] = s[k]
  <2>1. F \in Seq(A)
    BY DEF A
  <2>2. \A x, y \in Seq(A) :
          /\ x \o y \in Seq(A) /\ Len(x \o y) = Len(x) + Len(y)
          /\ \A k \in 1..Len(x) : (x \o y)[k] = x[k]
          /\ \A k \in 1..Len(y) : (x \o y)[Len(x) + k] = y[k]
    BY Joined
  <2>3. Len(F) \in Nat
    BY <2>1
  <2>4. QED
    BY <1>1, <2>1, <2>2, <2>3
<1> HIDE DEF G, L
<1>4. G[Len(F) + 1] = Attribute("_contract_address", e.contract)
  BY <1>1, <1>3
<1>5. ASSUME NEW k \in 1..Len(F), NEW i \in 1..n, StandsAt(F, k, es[i])
      PROVE  StandsAt(G, k, es[i])
  <2> DEFINE M == Len(es[i].rates)
  <2>0. k \in Nat /\ Len(F) \in Nat
    BY <1>3
  <2>1. M \in Nat
    BY DEF Execution
  <2>2. /\ k + 1 + M <= Len(F)
        /\ F[k] = Attribute("_contract_address", es[i].contract)
        /\ F[k + 1] = Attribute("action", es[i].action)
        /\ \A j \in 1..M : F[k + 1 + j] = Attribute("rate", es[i].rates[j])
        /\ k + 1 + M < Len(F) => F[k + 2 + M].key = "_contract_address"
    BY <1>5 DEF StandsAt
  <2> HIDE DEF M
  <2>3. G[k] = F[k] /\ G[k + 1] = F[k + 1] /\ k + 1 + M <= Len(G)
    <3>1. k + 1 \in 1..Len(F) /\ k + 1 + M <= Len(F) + Len(s)
      BY <1>1, <1>3, <2>1, <2>2
    <3>2. QED
      BY <1>3, <3>1
  <2>4. ASSUME NEW j \in 1..M PROVE G[k + 1 + j] = Attribute("rate", es[i].rates[j])
    <3>1. k + 1 + j \in 1..Len(F)
      BY <1>3, <2>1, <2>2
    <3>2. QED
      BY <1>3, <2>2, <3>1
  <2>5. G[k + 2 + M].key = "_contract_address"
    <3>1. CASE k + 1 + M < Len(F)
      <4>1. k + 2 + M \in 1..Len(F)
        BY <1>3, <2>1, <3>1
      <4>2. QED
        BY <1>3, <2>2, <3>1, <4>1
    <3>2. CASE k + 1 + M = Len(F)
      <4>1. k + 2 + M = Len(F) + 1
        BY <2>0, <2>1, <3>2
      <4>2. QED
        BY <1>4, <4>1 DEF Attribute
    <3>3. QED
      BY <1>3, <2>1, <2>2, <3>1, <3>2
  <2>6. QED
    BY <2>2, <2>3, <2>4, <2>5 DEF StandsAt, M
<1>6. StandsAt(G, Len(F) + 1, e)
  <2>1. Len(F) + 1 + 1 + L = Len(G)
    BY <1>1, <1>3
  <2>2. G[Len(F) + 2] = s[2] /\ Len(F) + 1 + 1 = Len(F) + 2
    BY <1>1, <1>3
  <2>3. ASSUME NEW j \in 1..L PROVE G[Len(F) + 1 + 1 + j] = Attribute("rate", e.rates[j])
    <3>1. 2 + j \in 1..Len(s) /\ Len(F) + (2 + j) = Len(F) + 1 + 1 + j
      BY <1>1, <1>3
    <3>2. QED
      BY <1>1, <1>3, <3>1
  <2>4. Len(F) + 1 + 1 + L <= Len(G) /\ ~(Len(F) + 1 + 1 + L < Len(G))
    BY <1>1, <1>3, <2>1
  <2>5. QED
    BY <1>1, <1>4, <2>2, <2>3, <2>4 DEF StandsAt, L
<1>7. ASSUME NEW k \in 1..Len(G), G[k].key = "_contract_address"
      PROVE  \E i \in 1..(n + 1) : StandsAt(G, k, es[i])
  <2>1. CASE k <= Len(F)
    <3>1. k \in 1..Len(F) /\ F[k].key = "_contract_address"
      BY <1>3, <1>7, <2>1
    <3>2. PICK i \in 1..n : StandsAt(F, k, es[i])
      BY <3>1 DEF AllStand
    <3>3. i \in 1..(n + 1) /\ StandsAt(G, k, es[i])
      BY <1>5, <3>1, <3>2
    <3>4. QED
      BY <3>3
  <2>2. CASE k > Len(F)
    <3>1. k - Len(F) \in 1..Len(s) /\ Len(F) + (k - Len(F)) = k
      BY <1>1, <1>3, <2>2
    <3>2. G[k] = s[k - Len(F)]
      BY <1>3, <3>1
    <3>3. k - Len(F) = 1
      BY <1>2, <1>7, <3>1, <3>2
    <3>4. k = Len(F) + 1 /\ n + 1 \in 1..(n + 1)
      BY <1>3, <3>3
    <3>5. QED
      BY <1>6, <3>4
  <2>3. QED
    BY <1>3, <2>1, <2>2
<1>8. Len(G) > 0 /\ G[1].key = "_contract_address"
  <2>1. 1 \in 1..Len(F) /\ F[1].key = "_contract_address"
    BY <1>3 DEF AllStand
  <2>2. QED
    BY <1>1, <1>3, <2>1
<1>9. QED
  BY <1>3, <1>7, <1>8 DEF AllStand, G, s, A

(* All that is reported is what the executions tell of, in their order. *)
LEMMA ReportedStands ==
  ASSUME NEW es \in Seq(Execution), es # <<>>
  PROVE  /\ Reported(es) \in Seq(AnAttribute)
         /\ AllStand(Reported(es), es, Len(es))
<1> DEFINE N == Len(es)
           A == AnAttribute
           t == [i \in DOMAIN es |-> AttributesOf(es[i])]
<1>1. /\ N \in Nat \ {0} /\ DOMAIN es = 1..N
      /\ \A i \in 1..N : es[i] \in Execution
  OBVIOUS
<1>2. Len(t) = N /\ \A i \in 1..N : t[i] = AttributesOf(es[i])
  <2>1. \A i \in 1..N : AttributesOf(es[i]) \in Seq(A)
    BY <1>1, AttributesShape
  <2>2. t \in Seq(Seq(A))
    BY <1>1, <2>1
  <2>3. QED
    BY <1>1, <2>2
<1>3. Reported(es) = FlattenSeq(t)
  BY DEF Reported
<1> HIDE DEF t, N
<1>4. PICK f : /\ FlattenSeq(t) = f[N]
               /\ \A i \in 1..N : f[i] = IF i = 1 THEN t[i] ELSE f[i-1] \o t[i]
  <2>1. Len(t) \in Nat \ {0}
    BY <1>1, <1>2
  <2>2. \E f : /\ FlattenSeq(t) = f[Len(t)]
               /\ \A i \in 1..Len(t) : f[i] = IF i = 1 THEN t[i] ELSE f[i-1] \o t[i]
    BY <2>1, Flattened
  <2>3. QED
    BY <1>2, <2>2
<1> DEFINE Good == {i \in 0..N : i = 0 \/ (f[i] \in Seq(A) /\ AllStand(f[i], es, i))}
<1>5. 0 \in Good
  BY <1>1
<1>6. ASSUME NEW i \in 0..(N - 1), i \in Good PROVE i + 1 \in Good
  <2>1. i + 1 \in 1..N /\ i \in Nat
    BY <1>1
  <2>2. CASE i = 0
    <3>1. f[1] = AttributesOf(es[1]) /\ 1 \in 1..N
      BY <1>1, <1>2, <1>4
    <3>2. f[1] \in Seq(A) /\ AllStand(f[1], es, 1)
      BY <1>1, <3>1, FirstStands
    <3>3. QED
      BY <2>1, <2>2, <3>2
  <2>3. CASE i # 0
    <3>1. f[i] \in Seq(A) /\ AllStand(f[i], es, i)
      BY <1>6, <2>3
    <3>2. f[i + 1] = f[i] \o AttributesOf(es[i + 1])
      <4>1. i + 1 # 1 /\ (i + 1) - 1 = i
        BY <2>1, <2>3
      <4>2. QED
        BY <1>2, <1>4, <2>1, <4>1
    <3>3. es[i + 1] \in Execution /\ \A j \in 1..i : es[j] \in Execution
      BY <1>1, <2>1
    <3>4. f[i + 1] \in Seq(A) /\ AllStand(f[i + 1], es, i + 1)
      BY <2>1, <3>1, <3>2, <3>3, NextStands
    <3>5. QED
      BY <2>1, <3>4
  <2>4. QED
    BY <2>2, <2>3
<1> HIDE DEF Good
<1>7. N \in Good
  <2>1. 0..N \subseteq Good
    BY <1>1, <1>5, <1>6, CountingUp
  <2>2. QED
    BY <1>1, <2>1
<1>8. QED
  BY <1>1, <1>3, <1>4, <1>7 DEF Good, N

(* A group our contract proves an update by is that of an execution of it.   *)
LEMMA GroupTells ==
  ASSUME NEW e \in Execution, NEW F \in Seq(AnAttribute), NEW k \in 1..Len(F), StandsAt(F, k, e),
         NEW r,
         "update_rate" \in ValuesOf("action", GroupAt(F, k)),
         ValuesOf("rate", GroupAt(F, k)) = {r}
  PROVE  e.action = "update_rate" /\ e.rates # <<>> /\ \A j \in DOMAIN e.rates : e.rates[j] = r
<1> DEFINE L == Len(e.rates)
           inGroup(m) == m \in k..Len(F) /\ \A j \in (k + 1)..m : j \notin GroupStarts(F)
<1>0. e.rates \in Seq(Nat) /\ L \in Nat /\ DOMAIN e.rates = 1..L /\ k \in Nat /\ Len(F) \in Nat
  <2>1. e.rates \in Seq(Nat)
    BY DEF Execution
  <2>2. QED
    BY <2>1
<1>1. /\ k + 1 + L <= Len(F)
      /\ F[k] = Attribute("_contract_address", e.contract)
      /\ F[k + 1] = Attribute("action", e.action)
      /\ \A j \in 1..L : F[k + 1 + j] = Attribute("rate", e.rates[j])
      /\ k + 1 + L < Len(F) => F[k + 2 + L].key = "_contract_address"
  BY DEF StandsAt
<1>2. GroupStarts(F) = {i \in 1..Len(F) : F[i].key = "_contract_address"}
  BY DEF GroupStarts
<1>3. \A a : a \in GroupAt(F, k) <=> \E m \in k..Len(F) : inGroup(m) /\ a = F[m]
  BY DEF GroupAt
<1> HIDE DEF L
<1>4. ASSUME NEW m \in k..Len(F), inGroup(m) PROVE m <= k + 1 + L
  <2>1. SUFFICES ASSUME m > k + 1 + L PROVE FALSE
    BY <1>0, <1>1
  <2>2. k + 2 + L \in (k + 1)..m /\ k + 2 + L \in 1..Len(F) /\ k + 1 + L < Len(F)
    BY <1>0, <1>1, <2>1
  <2>3. k + 2 + L \in GroupStarts(F)
    BY <1>1, <1>2, <2>2
  <2>4. QED
    BY <1>4, <2>2, <2>3
<1>5. ASSUME NEW m \in (k + 1)..(k + 1 + L) PROVE F[m].key # "_contract_address"
  <2>1. CASE m = k + 1
    BY <1>1, <2>1 DEF Attribute
  <2>2. CASE m # k + 1
    <3>1. m - (k + 1) \in 1..L /\ k + 1 + (m - (k + 1)) = m
      BY <1>0, <2>2
    <3>2. F[m] = Attribute("rate", e.rates[m - (k + 1)])
      BY <1>1, <3>1
    <3>3. QED
      BY <3>2 DEF Attribute
  <2>3. QED
    BY <2>1, <2>2
<1>6. ASSUME NEW m \in k..(k + 1 + L) PROVE F[m] \in GroupAt(F, k)
  <2>1. m \in k..Len(F)
    BY <1>0, <1>1
  <2>2. \A j \in (k + 1)..m : j \in (k + 1)..(k + 1 + L)
    BY <1>0, <1>1
  <2>3. \A j \in (k + 1)..m : j \notin GroupStarts(F)
    BY <1>2, <1>5, <2>2
  <2>4. QED
    BY <1>3, <2>1, <2>3
<1>7. ASSUME NEW a \in GroupAt(F, k)
      PROVE  \/ a = Attribute("_contract_address", e.contract)
             \/ a = Attribute("action", e.action)
             \/ \E j \in 1..L : a = Attribute("rate", e.rates[j])
  <2>1. PICK m \in k..Len(F) : inGroup(m) /\ a = F[m]
    BY <1>3
  <2>2. m <= k + 1 + L
    BY <1>4, <2>1
  <2>3. CASE m = k
    BY <1>1, <2>1, <2>3
  <2>4. CASE m = k + 1
    BY <1>1, <2>1, <2>4
  <2>5. CASE m # k /\ m # k + 1
    <3>1. m - (k + 1) \in 1..L /\ k + 1 + (m - (k + 1)) = m
      BY <1>0, <1>1, <2>2, <2>5
    <3>2. F[m] = Attribute("rate", e.rates[m - (k + 1)])
      BY <1>1, <3>1
    <3>3. QED
      BY <2>1, <3>1, <3>2
  <2>6. QED
    BY <2>3, <2>4, <2>5
<1>8. e.action = "update_rate"
  <2>1. PICK a \in GroupAt(F, k) : a.key = "action" /\ a.value = "update_rate"
    BY DEF ValuesOf
  <2>2. a = Attribute("action", e.action)
    BY <1>7, <2>1 DEF Attribute
  <2>3. QED
    BY <2>1, <2>2 DEF Attribute
<1>9. L # 0
  <2>1. r \in ValuesOf("rate", GroupAt(F, k))
    OBVIOUS
  <2>2. PICK a \in GroupAt(F, k) : a.key = "rate"
    BY <2>1 DEF ValuesOf
  <2>3. \E j \in 1..L : a = Attribute("rate", e.rates[j])
    BY <1>7, <2>2 DEF Attribute
  <2>4. QED
    BY <1>0, <2>3
<1>10. ASSUME NEW j \in 1..L PROVE e.rates[j] = r
  <2>1. k + 1 + j \in k..(k + 1 + L)
    BY <1>0
  <2>2. Attribute("rate", e.rates[j]) \in GroupAt(F, k)
    BY <1>1, <1>6, <2>1
  <2>3. e.rates[j] \in ValuesOf("rate", GroupAt(F, k))
    BY <2>2 DEF ValuesOf, Attribute
  <2>4. QED
    BY <2>3
<1>11. e.rates # <<>>
  BY <1>9 DEF L
<1>12. QED
  BY <1>0, <1>8, <1>10, <1>11

(* What oracle_tx_events_match_update takes for a proof is one, and it finds *)
(* events absent only where nothing was executed.                            *)
LEMMA MatchIsProof ==
  ASSUME NEW es \in Seq(Execution), NEW r
  PROVE  /\ EventsMatch(Reported(es), r) = "matched" =>
              \E i \in DOMAIN es :
                /\ es[i].contract = OracleAddr
                /\ es[i].action = "update_rate"
                /\ es[i].rates # <<>>
                /\ \A k \in DOMAIN es[i].rates : es[i].rates[k] = r
         /\ EventsMatch(Reported(es), r) = "absent" => es = <<>>
<1> DEFINE F == Reported(es)
<1>1. CASE es = <<>>
  <2>1. Reported(es) = <<>>
    BY <1>1 DEF Reported, FlattenSeq
  <2>2. GroupStarts(<<>>) = {}
    BY DEF GroupStarts
  <2>3. EventsMatch(Reported(es), r) = "absent"
    BY <2>1, <2>2 DEF EventsMatch
  <2>4. QED
    BY <1>1, <2>3
<1>2. CASE es # <<>>
  <2>1. F \in Seq(AnAttribute) /\ AllStand(F, es, Len(es))
    BY <1>2, ReportedStands
  <2> HIDE DEF F
  <2>2. Len(F) \in Nat /\ DOMAIN F = 1..Len(F) /\ DOMAIN es = 1..Len(es)
    BY <2>1
  <2>3. GroupStarts(F) # {}
    <3>1. 1 \in DOMAIN F /\ F[1].key = "_contract_address"
      BY <2>1, <2>2 DEF AllStand
    <3>2. QED
      BY <3>1 DEF GroupStarts
  <2>4. EventsMatch(F, r) # "absent"
    BY <2>3 DEF EventsMatch
  <2>5. ASSUME EventsMatch(F, r) = "matched"
        PROVE  \E i \in DOMAIN es :
                 /\ es[i].contract = OracleAddr
                 /\ es[i].action = "update_rate"
                 /\ es[i].rates # <<>>
                 /\ \A k \in DOMAIN es[i].rates : es[i].rates[k] = r
    <3>1. PICK group \in OurGroups(F) : /\ "update_rate" \in ValuesOf("action", group)
                                        /\ ValuesOf("rate", group) = {r}
      BY <2>3, <2>5 DEF EventsMatch
    <3>2. PICK k \in GroupStarts(F) : F[k].value = OracleAddr /\ group = GroupAt(F, k)
      BY DEF OurGroups
    <3>3. k \in 1..Len(F) /\ F[k].key = "_contract_address"
      BY <2>2 DEF GroupStarts
    <3>4. PICK i \in 1..Len(es) : StandsAt(F, k, es[i])
      BY <2>1, <3>3 DEF AllStand
    <3>5. i \in DOMAIN es /\ es[i] \in Execution
      BY <2>2
    <3>6. es[i].contract = OracleAddr
      BY <3>2, <3>4 DEF StandsAt, Attribute
    <3>7. /\ es[i].action = "update_rate" /\ es[i].rates # <<>>
          /\ \A j \in DOMAIN es[i].rates : es[i].rates[j] = r
      <4>1. /\ "update_rate" \in ValuesOf("action", GroupAt(F, k))
            /\ ValuesOf("rate", GroupAt(F, k)) = {r}
        BY <3>1, <3>2
      <4>2. \A e \in Execution :
              StandsAt(F, k, e) =>
                /\ e.action = "update_rate" /\ e.rates # <<>>
                /\ \A j \in DOMAIN e.rates : e.rates[j] = r
        BY <2>1, <3>3, <4>1, GroupTells
      <4>3. QED
        BY <3>4, <3>5, <4>2
    <3>8. QED
      BY <3>5, <3>6, <3>7
  <2>6. QED
    BY <1>2, <2>4, <2>5 DEF F
<1>3. QED
  BY <1>1, <1>2

-----------------------------------------------------------------------------
(* What the events of the transaction were found to say still holds when the *)
(* success is recorded on it.                                                *)
EventsRead ==
  /\ step \in {"observe", "state"} => executed \in Executions
  /\ step = "observe" => EventsMatch(Reported(executed), tx.rate) = "matched"
  /\ step = "state" => EventsMatch(Reported(executed), tx.rate) = "absent"

(* What the events were read to say stays so until the tick ends. *)
LEMMA StepEventsRead ==
  TInv /\ EventsRead /\ [TerraNext]_all_vars => EventsRead'
<1> SUFFICES ASSUME TInv, EventsRead, [TerraNext]_all_vars PROVE EventsRead'
  OBVIOUS
<1>1. CASE step' \notin {"observe", "state"}
  BY <1>1 DEF EventsRead
<1>2. CASE UNCHANGED <<step, executed, tx>>
  BY <1>2 DEF EventsRead
<1>3. CASE PollProved
  BY <1>3 DEF PollProved, PollDelivered, EventsRead, vars, service_vars
<1>4. CASE PollSilent
  BY <1>4 DEF PollSilent, PollDelivered, EventsRead, vars, service_vars
<1>5. CASE ProcessStep
  BY <1>1, <1>5 DEF ProcessStep, BeginTick, Start, TickOver, request_vars, TInv, StepsArePhases
<1>6. CASE TickOver \/ Decides \/ GetAccountInfo \/ ResolveGasPrice \/ PostAccepted \/ PostMismatch
             \/ PollAgain \/ Wake
  BY <1>1, <1>6
  DEF TickOver, Decides, GetAccountInfo, ResolveGasPrice, PostAccepted, PostMismatch, PollAgain,
      Wake
<1>7. CASE StateAgain \/ ClockStep \/ ChainStep \/ UNCHANGED all_vars
  BY <1>2, <1>7
  DEF StateAgain, ClockStep, TimePasses, ChainStep, Include, Evict, OthersAct, request_vars,
      all_vars, vars, service_vars
<1> QED
  BY <1>3, <1>4, <1>5, <1>6, <1>7
  DEF TerraNext, RequestStep, ReplyLost, PostRefused, PollContradicted, PollFailed, PollTimesOut,
      StateGivesUp, RequestFails, TickTimesOut, ObserveState, StateProves, Record

(* No other step records a success. *)
LEMMA OnlyRecordRecords ==
  ASSUME TerraNext, last_success' # last_success, last_success' # 0
  PROVE  ObserveState \/ StateProves
<1>1. ProcessStep => last_success' = last_success \/ last_success' = 0
  BY DEF ProcessStep, BeginTick, Start, Stop, tracker_vars
<1>2. ClockStep \/ ChainStep => last_success' = last_success
  BY DEF ClockStep, TimePasses, ChainStep, Include, Evict, OthersAct, service_vars, tracker_vars
<1>3. Decides \/ PostAccepted \/ ReplyLost => last_success' = last_success
  BY DEF Decides, ReadAndDecide, PostAccepted, ReplyLost, Accepted, tracker_vars
<1>4. TickFails \/ UNCHANGED vars => last_success' = last_success
  BY DEF TickFails, vars, service_vars, tracker_vars
<1> QED
  BY <1>1, <1>2, <1>3, <1>4
  DEF TerraNext, RequestStep, GetAccountInfo, ResolveGasPrice, PostMismatch, PollProved,
      PollSilent, PollAgain, Wake, StateAgain, PostRefused, PollContradicted, PollFailed,
      PollTimesOut, StateGivesUp, RequestFails, TickTimesOut

(* The confused deputy of INV-ORACLE-LIVENESS-001 is excluded for every      *)
(* list of executions a transaction may tell of, however long, and whatever  *)
(* the nodes answer in between.                                              *)
THEOREM SuccessNeedsProof == TerraSpec => RecordedOnProof
<1> DEFINE Proved == \E i \in DOMAIN executed :
                       /\ executed[i].contract = OracleAddr
                       /\ executed[i].action = "update_rate"
                       /\ executed[i].rates # <<>>
                       /\ \A k \in DOMAIN executed[i].rates : executed[i].rates[k] = tx.rate
<1>1. EventsRead /\ [TerraNext]_all_vars =>
        [last_success' # last_success /\ last_success' # 0 =>
           Proved \/ (executed = <<>> /\ StateMatches(tx))]_all_vars
  <2> SUFFICES ASSUME EventsRead, TerraNext, last_success' # last_success, last_success' # 0
               PROVE  Proved \/ (executed = <<>> /\ StateMatches(tx))
    OBVIOUS
  <2>1. \/ step = "observe"
        \/ step = "state" /\ StateMatches(tx)
    BY OnlyRecordRecords DEF ObserveState, StateProves
  <2>2. executed \in Seq(Execution)
    BY <2>1, TerraTxAssumption DEF EventsRead
  <2>3. CASE step = "observe"
    BY <2>2, <2>3, MatchIsProof DEF EventsRead
  <2>4. CASE step = "state" /\ StateMatches(tx)
    BY <2>2, <2>4, MatchIsProof DEF EventsRead
  <2> QED
    BY <2>1, <2>3, <2>4
<1>2. TerraInit => TInv /\ EventsRead
  BY InitTInv DEF TerraInit, NoRequests, EventsRead
<1>3. TInv /\ EventsRead /\ [TerraNext]_all_vars => (TInv /\ EventsRead)'
  BY StepTInv, StepEventsRead
<1> QED
  BY <1>1, <1>2, <1>3, PTL DEF TerraSpec, RecordedOnProof
=============================================================================
