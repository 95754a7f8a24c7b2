------------------------ MODULE OracleService_proofs ------------------------
(* What the operator loop guarantees for every timer, lag, skew, price and   *)
(* set of accounts, whatever fails, is lost or lands late.  What the nodes   *)
(* know and what the loop waits for are both bounded in time; every result   *)
(* follows from these two bounds.                                            *)
EXTENDS OracleService, Ust1Oracle_proofs

(* No LCD answer is ahead of the chain, or older than LcdLag. *)
LcdInv ==
  /\ sequence \in Nat
  /\ \A s \in stale :
       /\ s.state.sequence \in 0..sequence
       /\ s.state.last_update \in 0..last_update
       /\ s.until \in Nat /\ clock < s.until /\ s.until <= clock + LcdLag

(* What is signed carries a rate the oracle may be asked for. *)
TxInv ==
  /\ tx \in [rate : Nat, sequence : Nat] /\ tx.sequence <= sequence
  /\ phase \in {"broadcast", "confirm"} => tx.rate \in Rates
  /\ \A t \in mempool : t.rate \in Rates /\ t.sequence \in 0..sequence
  /\ \A e \in index : e.tx.sequence \in Nat /\ e.tx.sequence < sequence

(* No timer of the loop is lost. *)
LoopInv ==
  /\ phase \in {"read", "broadcast", "confirm", "sleep", "down"}
  /\ deadline \in Nat /\ prior \in 0..clock
  /\ started \in 1..clock /\ last_success \in 0..clock /\ alerting \in BOOLEAN
  /\ missed \in Nat /\ restarts \in 0..MaxRestarts
  /\ phase = "down" => restarts < MaxRestarts
  /\ phase # "down" => clock <= deadline
  /\ InTick => deadline <= clock + TickTimeout
  /\ phase = "sleep" => deadline <= clock + PollInterval

ServiceInv == OracleTypeOK /\ PriceInv /\ LcdInv /\ TxInv /\ LoopInv

LEMMA ServiceInvTypes == ServiceInv => ServiceTypeOK
<1> SUFFICES ASSUME ServiceInv PROVE ServiceTypeOK
  OBVIOUS
<1>1. tx.rate \in Nat /\ tx.sequence \in 0..sequence
  BY DEF ServiceInv, TxInv, LcdInv
<1>2. \A s \in stale : s.state.last_update <= last_update /\ clock < s.until
  BY DEF ServiceInv, LcdInv, OracleTypeOK
<1> QED
  BY <1>1, <1>2 DEF ServiceInv, TxInv, LoopInv, ServiceTypeOK

LEMMA AnswerBounds ==
  ASSUME OracleTypeOK, LcdInv, NEW state \in LcdAnswers
  PROVE  state.sequence \in 0..sequence /\ state.last_update \in 0..last_update
BY DEF OracleTypeOK, LcdInv, LcdAnswers, ChainState

(* The state a block replaces joins those an LCD may still answer from. *)
LEMMA LcdStep ==
  ASSUME OracleTypeOK, LcdInv, LcdMayLag, clock' = clock,
         sequence' \in Nat, sequence <= sequence', last_update' \in Nat, last_update <= last_update'
  PROVE  LcdInv'
<1> SUFFICES ASSUME NEW s \in stale'
             PROVE  /\ s.state.sequence \in 0..sequence'
                    /\ s.state.last_update \in 0..last_update'
                    /\ s.until \in Nat /\ clock' < s.until /\ s.until <= clock' + LcdLag
  BY DEF LcdInv
<1>1. CASE s \in stale
  BY <1>1 DEF LcdInv, OracleTypeOK
<1>2. CASE s = [state |-> ChainState, until |-> clock + LcdLag] /\ LcdLag > 0
  <2>1. s.state.sequence = sequence /\ s.state.last_update = last_update /\ s.until = clock + LcdLag
    BY <1>2 DEF ChainState
  <2> QED
    BY <1>2, <2>1, ServiceAssumption DEF LcdInv, OracleTypeOK
<1> QED
  BY <1>1, <1>2 DEF LcdMayLag

(* What a call to the oracle may change of its update time. *)
LEMMA UpdateTime ==
  ASSUME OracleTypeOK, NEW sender, NEW new, UpdateRate(sender, new)
  PROVE  clock' = clock /\ last_update' = clock /\ last_update <= last_update'
BY DEF UpdateRate, StoreRate, OracleTypeOK

LEMMA InitServiceInv == ServiceInit => ServiceInv
<1> SUFFICES ASSUME ServiceInit PROVE ServiceInv
  OBVIOUS
<1>1. OracleTypeOK /\ PriceInv
  BY OracleInitInv DEF ServiceInit
<1>2. clock \in Nat \ {0}
  BY <1>1 DEF OracleTypeOK
<1>3. LcdInv
  BY DEF ServiceInit, LcdInv
<1>4. TxInv
  BY DEF ServiceInit, NoTx, TxInv
<1>5. LoopInv
  <2>1. alerting \in BOOLEAN
    BY DEF ServiceInit
  <2>2. phase = "sleep" /\ deadline = clock /\ prior = 0 /\ started = clock /\ last_success = 0
        /\ missed = 0 /\ restarts = 0
    BY DEF ServiceInit
  <2> QED
    BY <1>2, <2>1, <2>2, ServiceAssumption DEF InTick, LoopInv
<1> QED
  BY <1>1, <1>3, <1>4, <1>5 DEF ServiceInv

(* Steps of the service leave the chain alone. *)
LEMMA LoopKeepsInv ==
  ASSUME ServiceInv, ServiceStep
  PROVE  ServiceInv'
<1> USE ServiceAssumption DEF ServiceInv
<1>1. OracleTypeOK' /\ PriceInv'
  <2>1. UNCHANGED chain_vars
    BY DEF ServiceStep, BeginTick, ReadAndDecide, Broadcast, Confirm, TickFails, Stop, Start
  <2> QED
    BY <2>1, OracleNextInv
<1>2. UNCHANGED <<clock, last_update, sequence, index, stale>>
  BY DEF ServiceStep, BeginTick, ReadAndDecide, Broadcast, Confirm, TickFails, Stop, Start,
     chain_vars, oracle_vars, price_vars, terra_vars
<1>3. LcdInv'
  BY <1>2 DEF LcdInv
<1>4. clock \in Nat \ {0}
  BY DEF OracleTypeOK
<1>5. NoTx \in [rate : Nat, sequence : Nat] /\ NoTx.sequence = 0
  BY DEF NoTx
<1>6. CASE BeginTick \/ TickFails \/ Confirm \/ Stop \/ Start
  <2>1. TxInv'
    BY <1>2, <1>5, <1>6 DEF BeginTick, TickFails, Confirm, Stop, Start, EndTick, terra_vars, TxInv, LcdInv
  <2>2. LoopInv'
    <3>1. CASE BeginTick
      BY <1>2, <1>4, <3>1 DEF BeginTick, ShouldAlert, LoopInv, InTick
    <3>2. CASE TickFails
      BY <1>2, <1>4, <3>2 DEF TickFails, EndTick, tracker_vars, LoopInv, InTick
    <3>3. CASE Confirm
      BY <1>2, <1>4, <3>3 DEF Confirm, EndTick, LoopInv, InTick
    <3>4. CASE Stop
      BY <1>2, <1>4, <3>4 DEF Stop, tracker_vars, LoopInv, InTick
    <3>5. CASE Start
      <4>1. /\ phase' = "sleep" /\ deadline' = clock /\ started' = clock /\ last_success' = 0
            /\ missed' = 0 /\ restarts' = restarts + 1 /\ UNCHANGED prior
        BY <3>5 DEF Start
      <4>2. alerting' \in BOOLEAN
        BY <3>5, Zenon DEF Start
      <4>3. restarts' \in 0..MaxRestarts
        BY <3>5, <4>1 DEF Start, LoopInv
      <4> QED
        BY <1>2, <1>4, <4>1, <4>2, <4>3 DEF LoopInv, InTick
    <3> QED
      BY <1>6, <3>1, <3>2, <3>3, <3>4, <3>5
  <2> QED
    BY <1>1, <1>3, <2>1, <2>2
<1>7. CASE ReadAndDecide
  <2>1. PICK proposed \in BscRates, state \in LcdAnswers :
           \/ /\ phase' = "broadcast" /\ tx' = [rate |-> proposed, sequence |-> 0]
              /\ prior' = state.last_update /\ UNCHANGED <<deadline, missed>>
           \/ EndTick /\ missed' \in {missed, missed + 1}
    BY <1>7 DEF ReadAndDecide
  <2>2. UNCHANGED <<terra_vars, tracker_vars, restarts>> /\ phase = "read"
    BY <1>7 DEF ReadAndDecide
  <2>3. state.last_update \in 0..last_update
    BY AnswerBounds
  <2>4. proposed \in Rates /\ proposed \in Nat
    BY OracleAssumption, CommonAssumption
  <2>5. TxInv'
    BY <1>2, <1>5, <2>1, <2>2, <2>4 DEF TxInv, EndTick, terra_vars, LcdInv
  <2>6. LoopInv'
    BY <1>2, <1>4, <2>1, <2>2, <2>3 DEF LoopInv, EndTick, tracker_vars, InTick, OracleTypeOK
  <2> QED
    BY <1>1, <1>3, <2>5, <2>6
<1>8. CASE Broadcast
  <2>1. PICK state \in LcdAnswers :
           /\ mempool' = {Signed(state)}
           /\ \/ phase' = "confirm" /\ tx' = Signed(state) /\ UNCHANGED <<deadline, prior, missed>>
              \/ EndTick /\ missed' = missed + 1
    BY <1>8 DEF Broadcast
  <2>2. UNCHANGED <<tracker_vars, restarts>> /\ phase = "broadcast"
    BY <1>8 DEF Broadcast
  <2>3. state.sequence \in 0..sequence
    BY AnswerBounds
  <2>4. /\ Signed(state) \in [rate : Nat, sequence : Nat]
        /\ Signed(state).rate = tx.rate /\ Signed(state).sequence = state.sequence
    BY <2>3 DEF Signed, TxInv, LcdInv
  <2>5. TxInv'
    BY <1>2, <1>5, <2>1, <2>2, <2>3, <2>4 DEF TxInv, EndTick, LcdInv
  <2>6. LoopInv'
    BY <1>2, <1>4, <2>1, <2>2 DEF LoopInv, EndTick, tracker_vars, InTick
  <2> QED
    BY <1>1, <1>3, <2>5, <2>6
<1> QED
  BY <1>6, <1>7, <1>8 DEF ServiceStep

(* Blocks, evictions, other accounts and the clock. *)
LEMMA ChainKeepsInv ==
  ASSUME ServiceInv, Include \/ Evict \/ OthersAct \/ TimePasses
  PROVE  ServiceInv'
<1> USE ServiceAssumption DEF ServiceInv
<1>0. clock \in Nat \ {0} /\ last_update \in 0..clock
  BY DEF OracleTypeOK
<1>1. CASE Include
  <2>1. PICK t \in mempool, ok \in BOOLEAN :
          /\ t.sequence = sequence
          /\ IF ok THEN UpdateRate(Service, t.rate) /\ missed' = 0
                   ELSE UNCHANGED <<chain_vars, missed>>
          /\ index' = index \cup {[tx |-> t, ok |-> ok]}
    BY <1>1 DEF Include
  <2>2. /\ sequence' = sequence + 1 /\ mempool' = {} /\ LcdMayLag
        /\ UNCHANGED <<phase, deadline, tx, prior, tracker_vars, restarts>>
    BY <1>1 DEF Include
  <2>3. t.rate \in Rates
    BY DEF TxInv
  <2>4. [OracleNext]_chain_vars
    BY <2>1, <2>3 DEF OracleNext, OracleCall
  <2>5. OracleTypeOK' /\ PriceInv'
    BY <2>4, OracleNextInv
  <2>6. clock' = clock /\ last_update <= last_update' /\ last_update' \in Nat
    BY <1>0, <2>1, UpdateTime DEF chain_vars, oracle_vars, price_vars
  <2>7. LcdInv'
    BY <2>2, <2>6, LcdStep DEF LcdInv
  <2>8. TxInv'
    <3>1. \A e \in index' : e.tx.sequence \in Nat /\ e.tx.sequence < sequence'
      BY <2>1, <2>2 DEF TxInv, LcdInv
    <3> QED
      BY <2>2, <3>1 DEF TxInv, LcdInv
  <2>9. LoopInv'
    BY <2>1, <2>2, <2>6 DEF LoopInv, tracker_vars, InTick
  <2> QED
    BY <2>5, <2>7, <2>8, <2>9
<1>2. CASE Evict
  <2>1. OracleTypeOK' /\ PriceInv'
    BY <1>2, OracleNextInv DEF Evict
  <2> QED
    BY <1>2, <2>1
    DEF Evict, chain_vars, oracle_vars, price_vars, service_vars, tracker_vars, LcdInv, TxInv,
        LoopInv, InTick
<1>3. CASE OthersAct
  <2>1. PICK sender \in Addr :
          \/ \E paused \in BOOLEAN : SetOraclePaused(sender, paused)
          \/ \E addr \in Addr : SetOracleOperator(sender, addr)
          \/ \E new \in Rates : UpdateRate(sender, new)
    BY <1>3 DEF OthersAct
  <2>2. UNCHANGED <<service_vars, mempool, sequence, index>> /\ LcdMayLag
    BY <1>3 DEF OthersAct
  <2>3. OracleTypeOK' /\ PriceInv'
    BY <2>1, OracleNextInv DEF OracleNext, OracleCall
  <2>4. clock' = clock /\ last_update <= last_update' /\ last_update' \in Nat
    BY <1>0, <2>1, UpdateTime DEF SetOraclePaused, SetOracleOperator, price_vars
  <2>5. LcdInv'
    BY <2>2, <2>4, LcdStep DEF LcdInv
  <2> QED
    BY <2>2, <2>3, <2>4, <2>5 DEF service_vars, tracker_vars, TxInv, LoopInv, InTick
<1>4. CASE TimePasses
  <2>1. /\ clock' = clock + 1 /\ UNCHANGED <<service_vars, mempool, sequence, last_update>>
        /\ phase # "down" => clock < deadline
        /\ stale' = {s \in stale : clock' < s.until}
        /\ index' \subseteq index
    BY <1>4 DEF TimePasses, Tick, oracle_vars, price_vars
  <2>2. OracleTypeOK' /\ PriceInv'
    BY <1>4, OracleNextInv DEF TimePasses, OracleNext
  <2>3. LcdInv'
    BY <1>0, <2>1 DEF LcdInv
  <2>4. TxInv'
    BY <2>1 DEF TxInv, service_vars
  <2>5. LoopInv'
    BY <1>0, <2>1 DEF LoopInv, service_vars, tracker_vars, InTick
  <2> QED
    BY <2>2, <2>3, <2>4, <2>5
<1> QED
  BY <1>1, <1>2, <1>3, <1>4

LEMMA StepServiceInv == ServiceInv /\ [ServiceNext]_vars => ServiceInv'
<1>1. CASE ServiceInv /\ ServiceNext
  BY <1>1, LoopKeepsInv, ChainKeepsInv DEF ServiceNext
<1>2. CASE ServiceInv /\ UNCHANGED vars
  <2>1. OracleTypeOK' /\ PriceInv'
    BY <1>2, OracleNextInv DEF vars, ServiceInv
  <2> QED
    BY <1>2, <2>1
    DEF vars, chain_vars, oracle_vars, price_vars, service_vars, tracker_vars, terra_vars,
        ServiceInv, LcdInv, TxInv, LoopInv, InTick
<1> QED
  BY <1>1, <1>2

(* Whatever fails, is lost or lands late, the service, its transactions and  *)
(* what a lagging node answers keep their types.                             *)
THEOREM ServiceTypeCorrect == ServiceSpec => []ServiceTypeOK
<1> QED
  BY InitServiceInv, StepServiceInv, ServiceInvTypes, PTL DEF ServiceSpec

(* INV-ORACLE-LIVENESS-001 for the service, and so for its requests.         *)
THEOREM SuccessMeansDelivered == ServiceSpec => SuccessIsDelivered
<1> DEFINE Proved == last_success' # last_success /\ last_success' # 0 =>
                       [tx |-> tx, ok |-> TRUE] \in index
<1>1. [ServiceNext]_vars => [Proved]_vars
  <2> SUFFICES ASSUME ServiceNext, last_success' # last_success, last_success' # 0
               PROVE  [tx |-> tx, ok |-> TRUE] \in index
    OBVIOUS
  <2>1. CASE Confirm
    BY <2>1 DEF Confirm, Confirmed, Delivered
  <2>2. CASE Start
    BY <2>2 DEF Start
  <2>3. CASE BeginTick \/ ReadAndDecide \/ Broadcast \/ TickFails \/ Stop
    BY <2>3
    DEF BeginTick, ReadAndDecide, Broadcast, TickFails, Stop, tracker_vars
  <2>4. CASE Include \/ Evict \/ OthersAct \/ TimePasses
    BY <2>4 DEF Include, Evict, OthersAct, TimePasses, service_vars, tracker_vars
  <2> QED
    BY <2>1, <2>2, <2>3, <2>4 DEF ServiceNext, ServiceStep
<1> QED
  BY <1>1, PTL DEF ServiceSpec, SuccessIsDelivered

-----------------------------------------------------------------------------
(* A success is recorded soon after the update it stands for. *)

(* What is proved to be delivered updated the oracle recently: an LCD that   *)
(* does not know of it yet lags, and a sequence it hands out late can only   *)
(* repeat a transaction for as long.                                         *)
DeliveryInv ==
  /\ \A e \in index : e.ok =>
       \A s \in stale : s.state.sequence <= e.tx.sequence => s.until <= last_update + LcdLag
  /\ \A e \in index : e.ok => last_update > 0
  /\ phase = "confirm" /\ [tx |-> tx, ok |-> TRUE] \in index
       => deadline <= last_update + LcdLag + TickTimeout
  /\ last_success # 0 => last_success <= last_update + LcdLag + TickTimeout

LEMMA InitDelivery == ServiceInit => DeliveryInv
BY DEF ServiceInit, DeliveryInv

LEMMA LoopKeepsDelivery ==
  ASSUME ServiceInv, DeliveryInv, ServiceStep
  PROVE  DeliveryInv'
<1> USE ServiceAssumption DEF ServiceInv
<1>1. UNCHANGED <<clock, last_update, sequence, index, stale>>
  BY DEF ServiceStep, BeginTick, ReadAndDecide, Broadcast, Confirm, TickFails, Stop, Start,
     chain_vars, oracle_vars, price_vars, terra_vars
<1>2. last_update \in Nat /\ clock \in Nat \ {0} /\ deadline \in Nat
  BY DEF OracleTypeOK, LoopInv
<1>3. CASE BeginTick \/ ReadAndDecide \/ TickFails \/ Stop \/ Start
  BY <1>1, <1>3
  DEF BeginTick, ReadAndDecide, TickFails, Stop, Start, EndTick, tracker_vars, DeliveryInv
<1>4. CASE Confirm
  <2>1. [tx |-> tx, ok |-> TRUE] \in index /\ phase = "confirm" /\ clock <= deadline
    BY <1>4 DEF Confirm, Confirmed, Delivered, LoopInv
  <2>2. last_success' = clock /\ phase' = "sleep"
    BY <1>4 DEF Confirm, EndTick
  <2> QED
    BY <1>1, <1>2, <2>1, <2>2 DEF DeliveryInv
<1>5. CASE Broadcast
  <2>1. PICK state \in LcdAnswers :
           \/ phase' = "confirm" /\ tx' = Signed(state) /\ deadline' = deadline
           \/ EndTick
    BY <1>5 DEF Broadcast
  <2>2. last_success' = last_success /\ phase = "broadcast"
    BY <1>5 DEF Broadcast, tracker_vars
  <2>3. ASSUME [tx |-> Signed(state), ok |-> TRUE] \in index
        PROVE  deadline <= last_update + LcdLag + TickTimeout
    <3>1. Signed(state).sequence = state.sequence
      BY DEF Signed, TxInv
    <3>2. state.sequence < sequence
      BY <2>3, <3>1 DEF TxInv
    <3>3. PICK s \in stale : s.state = state
      BY <3>2 DEF LcdAnswers, ChainState, LcdInv
    <3>4. s.until <= last_update + LcdLag
      BY <2>3, <3>1, <3>2, <3>3 DEF DeliveryInv, LcdInv
    <3>5. clock < s.until /\ s.until \in Nat /\ deadline <= clock + TickTimeout
      BY <2>2 DEF LcdInv, LoopInv, InTick
    <3> QED
      BY <1>2, <3>4, <3>5
  <2> QED
    BY <1>1, <1>2, <2>1, <2>2, <2>3 DEF DeliveryInv, EndTick
<1> QED
  BY <1>3, <1>4, <1>5 DEF ServiceStep

(* The replaced state does not answer for what was included before it.       *)
LEMMA LaggingDelivery ==
  ASSUME ServiceInv, DeliveryInv, LcdMayLag, last_update' \in Nat, last_update <= last_update'
  PROVE  \A e \in index : e.ok =>
           \A s \in stale' : s.state.sequence <= e.tx.sequence => s.until <= last_update' + LcdLag
<1> USE DEF ServiceInv
<1> SUFFICES ASSUME NEW e \in index, e.ok, NEW s \in stale', s.state.sequence <= e.tx.sequence
             PROVE  s.until <= last_update' + LcdLag
  OBVIOUS
<1>1. e.tx.sequence < sequence /\ e.tx.sequence \in Nat /\ sequence \in Nat
  BY DEF TxInv, LcdInv
<1>2. s \in stale
  BY <1>1 DEF LcdMayLag, ChainState
<1>3. s.until <= last_update + LcdLag /\ s.until \in Nat
  BY <1>2 DEF DeliveryInv, LcdInv
<1> QED
  BY <1>3, ServiceAssumption DEF OracleTypeOK

LEMMA ChainKeepsDelivery ==
  ASSUME ServiceInv, DeliveryInv, Include \/ Evict \/ OthersAct \/ TimePasses
  PROVE  DeliveryInv'
<1> USE ServiceAssumption DEF ServiceInv
<1>0. /\ clock \in Nat \ {0} /\ last_update \in 0..clock /\ deadline \in Nat
      /\ last_success \in 0..clock
  BY DEF OracleTypeOK, LoopInv
<1>1. CASE Include
  <2>1. PICK t \in mempool, ok \in BOOLEAN :
          /\ t.sequence = sequence
          /\ IF ok THEN UpdateRate(Service, t.rate) ELSE UNCHANGED chain_vars
          /\ index' = index \cup {[tx |-> t, ok |-> ok]}
    BY <1>1 DEF Include
  <2>2. LcdMayLag /\ UNCHANGED <<phase, deadline, tx, prior, tracker_vars, restarts>>
    BY <1>1 DEF Include
  <2>3. /\ clock' = clock /\ last_update <= last_update' /\ last_update' \in Nat
        /\ ok => last_update' = clock
        /\ ~ok => last_update' = last_update
    BY <1>0, <2>1, UpdateTime DEF chain_vars, oracle_vars, price_vars
  <2>4. ASSUME NEW e \in index', e.ok, NEW s \in stale', s.state.sequence <= e.tx.sequence
        PROVE  s.until <= last_update' + LcdLag
    <3>1. CASE e \in index
      BY <2>2, <2>3, <2>4, <3>1, LaggingDelivery
    <3>2. CASE e = [tx |-> t, ok |-> ok]
      <4>1. ok /\ last_update' = clock
        BY <2>3, <2>4, <3>2
      <4>2. s.until <= clock + LcdLag
        BY <1>0, <2>2 DEF LcdMayLag, LcdInv
      <4> QED
        BY <4>1, <4>2
    <3> QED
      BY <2>1, <3>1, <3>2
  <2>5. ASSUME phase' = "confirm", [tx |-> tx', ok |-> TRUE] \in index'
        PROVE  deadline' <= last_update' + LcdLag + TickTimeout
    <3>1. CASE [tx |-> tx, ok |-> TRUE] \in index
      BY <1>0, <2>2, <2>3, <2>5, <3>1 DEF DeliveryInv
    <3>2. CASE ok
      BY <1>0, <2>2, <2>3, <2>5, <3>2 DEF LoopInv, InTick
    <3> QED
      BY <2>1, <2>2, <2>5, <3>1, <3>2
  <2>6. last_success' # 0 => last_success' <= last_update' + LcdLag + TickTimeout
    <3>1. last_success' = last_success
      BY <2>2 DEF tracker_vars
    <3>2. last_success # 0 => last_success <= last_update + LcdLag + TickTimeout
      BY DEF DeliveryInv
    <3>3. last_update <= last_update' /\ last_update' \in Nat
      BY <2>3
    <3>4. \A a, u, v \in Nat :
            u <= v /\ a <= u + LcdLag + TickTimeout => a <= v + LcdLag + TickTimeout
      OBVIOUS
    <3>5. last_success \in Nat /\ last_update \in Nat
      BY <1>0
    <3> QED
      BY <3>1, <3>2, <3>3, <3>4, <3>5, Zenon
  <2>7. \A e \in index' : e.ok => last_update' > 0
    <3>1. \A e \in index : e.ok => last_update' > 0
      BY <1>0, <2>3 DEF DeliveryInv
    <3>2. ok => last_update' > 0
      BY <1>0, <2>3
    <3> QED
      BY <2>1, <3>1, <3>2
  <2> QED
    BY <2>4, <2>5, <2>6, <2>7 DEF DeliveryInv
<1>2. CASE Evict
  BY <1>2
  DEF Evict, chain_vars, oracle_vars, price_vars, service_vars, tracker_vars, DeliveryInv
<1>3. CASE OthersAct
  <2>1. UNCHANGED <<phase, deadline, tx, last_success, index>> /\ LcdMayLag
    BY <1>3 DEF OthersAct, service_vars, tracker_vars
  <2>2. last_update <= last_update' /\ last_update' \in Nat
    BY <1>0, <1>3, UpdateTime DEF OthersAct, SetOraclePaused, SetOracleOperator, price_vars
  <2>3. \A e \in index' : e.ok =>
          \A s \in stale' : s.state.sequence <= e.tx.sequence => s.until <= last_update' + LcdLag
    BY <2>1, <2>2, LaggingDelivery
  <2> QED
    BY <1>0, <2>1, <2>2, <2>3 DEF DeliveryInv
<1>4. CASE TimePasses
  <2>1. /\ UNCHANGED <<phase, deadline, tx, last_success, last_update>>
        /\ stale' \subseteq stale /\ index' \subseteq index
    BY <1>4 DEF TimePasses, Tick, oracle_vars, price_vars, service_vars, tracker_vars
  <2> QED
    BY <2>1 DEF DeliveryInv
<1> QED
  BY <1>1, <1>2, <1>3, <1>4

LEMMA StepDelivery == ServiceInv /\ DeliveryInv /\ [ServiceNext]_vars => DeliveryInv'
<1>1. CASE ServiceInv /\ DeliveryInv /\ ServiceNext
  BY <1>1, LoopKeepsDelivery, ChainKeepsDelivery DEF ServiceNext
<1>2. CASE DeliveryInv /\ UNCHANGED vars
  BY <1>2
  DEF vars, chain_vars, oracle_vars, price_vars, service_vars, tracker_vars, terra_vars, DeliveryInv
<1> QED
  BY <1>1, <1>2

-----------------------------------------------------------------------------
(* The silence alert *)

SilentSince == IF last_success = 0 THEN started ELSE last_success

(* The liveness check of this tick, or of the last one, found no silence.    *)
AlertInv ==
  ~alerting =>
    /\ InTick => deadline - TickTimeout - SilentSince <= MaxSilence
    /\ phase = "sleep" => deadline - PollInterval - TickTimeout - SilentSince <= MaxSilence

LEMMA StepAlert == ServiceInv /\ AlertInv /\ [ServiceNext]_vars => AlertInv'
<1> SUFFICES ASSUME ServiceInv, AlertInv, [ServiceNext]_vars PROVE AlertInv'
  OBVIOUS
<1> USE ServiceAssumption DEF ServiceInv
<1>0. /\ clock \in Nat \ {0} /\ deadline \in Nat /\ SilentSince \in 0..clock
      /\ started \in Nat /\ last_success \in Nat
  BY DEF OracleTypeOK, LoopInv, SilentSince
<1>1. CASE BeginTick
  <2>1. phase' = "read" /\ deadline' = clock + TickTimeout /\ SilentSince' = SilentSince
    BY <1>1 DEF BeginTick, SilentSince
  <2>2. clock - SilentSince > MaxSilence => alerting'
    BY <1>1, Zenon DEF BeginTick, ShouldAlert, Silence, SilentSince
  <2>3. ~alerting' => clock - SilentSince <= MaxSilence
    BY <1>0, <2>2
  <2> QED
    BY <1>0, <2>1, <2>3 DEF AlertInv, InTick
<1>2. CASE ReadAndDecide \/ Broadcast \/ TickFails
  <2>1. /\ InTick /\ UNCHANGED <<alerting, SilentSince>>
        /\ \/ phase' \in {"broadcast", "confirm"} /\ deadline' = deadline
           \/ phase' = "sleep" /\ deadline' = clock + PollInterval
    BY <1>2 DEF ReadAndDecide, Broadcast, TickFails, EndTick, InTick, tracker_vars, SilentSince
  <2>2. clock <= deadline
    BY <2>1 DEF LoopInv, InTick
  <2> QED
    BY <1>0, <2>1, <2>2 DEF AlertInv, InTick
<1>3. CASE Confirm
  <2>1. SilentSince' = clock /\ phase' = "sleep" /\ deadline' = clock + PollInterval
    BY <1>0, <1>3 DEF Confirm, EndTick, SilentSince
  <2> QED
    BY <1>0, <2>1 DEF AlertInv, InTick
<1>4. CASE Start
  <2>1. SilentSince' = clock /\ phase' = "sleep" /\ deadline' = clock
    BY <1>4 DEF Start, SilentSince
  <2> QED
    BY <1>0, <2>1 DEF AlertInv, InTick
<1>5. CASE Stop
  BY <1>5 DEF Stop, AlertInv, InTick
<1>6. CASE UNCHANGED <<phase, deadline, tracker_vars>>
  BY <1>6 DEF AlertInv, InTick, SilentSince, tracker_vars
<1> QED
  BY <1>1, <1>2, <1>3, <1>4, <1>5, <1>6
  DEF ServiceNext, ServiceStep, Include, Evict, OthersAct, TimePasses, vars, service_vars

(* A running service whose rate has aged pages, whatever has failed, for     *)
(* every timer and lag: the check looks at the last recorded success, and    *)
(* that is never much younger than the rate on chain.                        *)
THEOREM AgedRateAlwaysPages == ServiceSpec => []AgedRateIsPaged
<1> DEFINE Inv == ServiceInv /\ DeliveryInv /\ AlertInv
<1>1. ServiceInit => Inv
  <2>1. SUFFICES ASSUME ServiceInit PROVE AlertInv
    BY InitServiceInv, InitDelivery
  <2>2. clock \in Nat
    BY <2>1, InitServiceInv DEF ServiceInv, OracleTypeOK
  <2> QED
    BY <2>1, <2>2, ServiceAssumption DEF ServiceInit, AlertInv, SilentSince, InTick
<1>2. Inv /\ [ServiceNext]_vars => Inv'
  BY StepServiceInv, StepDelivery, StepAlert
<1>3. Inv => AgedRateIsPaged
  <2> SUFFICES ASSUME Inv, phase # "down", ~alerting
               PROVE  ~(clock - Latest(last_update, started)
                          > MaxSilence + PollInterval + 2 * TickTimeout + LcdLag)
    BY DEF AgedRateIsPaged, ServiceInv, LoopInv
  <2>1. /\ clock \in Nat \ {0} /\ deadline \in Nat /\ last_update \in Nat
        /\ started \in Nat /\ last_success \in Nat
    BY DEF ServiceInv, OracleTypeOK, LoopInv
  <2>2. clock - SilentSince <= MaxSilence + PollInterval + TickTimeout
    <3>1. SilentSince \in Nat /\ clock <= deadline /\ (InTick \/ phase = "sleep")
      BY <2>1 DEF SilentSince, ServiceInv, LoopInv, InTick
    <3> QED
      BY <2>1, <3>1, ServiceAssumption DEF AlertInv
  <2>3. SilentSince <= Latest(last_update, started) + LcdLag + TickTimeout
    BY <2>1, ServiceAssumption DEF SilentSince, Latest, DeliveryInv
  <2>4. Latest(last_update, started) \in Nat /\ SilentSince \in Nat
    BY <2>1 DEF Latest, SilentSince
  <2> QED
    BY <2>1, <2>2, <2>3, <2>4, ServiceAssumption
<1> QED
  BY <1>1, <1>2, <1>3, PTL DEF ServiceSpec

-----------------------------------------------------------------------------
(* Progress *)

(* There is a slowest local clock, and a transaction a lagging node repeats  *)
(* is still confirmed within the throttle of the update it repeats.          *)
TimersFit ==
  /\ \E s \in Skews : \A k \in Skews : s <= k
  /\ LcdLag + TickTimeout + SlowestClock < MinUpdateInterval

Patience == (1 + missed) * (PollInterval + TickTimeout)

(* Where a tick or a sleep will end, against what is due.                    *)
AgeInv ==
  /\ InTick => deadline - Due < Patience
  /\ phase = "sleep" => deadline - Due < Patience - TickTimeout

LEMMA SlowestIsSlowest ==
  ASSUME TimersFit
  PROVE  SlowestClock \in Int /\ \A k \in Skews : SlowestClock <= k
BY ServiceAssumption DEF TimersFit, SlowestClock

LEMMA DueForward ==
  ASSUME TimersFit, last_update \in Nat, last_update' \in Nat, last_update <= last_update',
         started \in Nat, started' = started
  PROVE  Due \in Int /\ Due' \in Int /\ Due <= Due'
BY SlowestIsSlowest, CommonAssumption DEF Due, Latest

(* One more tick in vain is one more poll interval and tick of patience.     *)
LEMMA PatienceGrows ==
  ASSUME missed \in Nat
  PROVE  /\ Patience \in Int /\ Patience >= PollInterval + TickTimeout
         /\ missed' = missed => Patience' = Patience
         /\ missed' = missed + 1 => Patience' = Patience + PollInterval + TickTimeout
         /\ missed' = 0 => Patience' = PollInterval + TickTimeout
<1> DEFINE cycle == PollInterval + TickTimeout
<1>1. cycle \in Nat
  BY ServiceAssumption
<1>2. missed * cycle >= 0 /\ missed * cycle \in Int
  BY <1>1, Z3
<1>3. Patience = cycle + missed * cycle
  BY <1>1, SMT DEF Patience
<1>4. missed' = missed => Patience' = Patience
  BY DEF Patience
<1>5. missed' = missed + 1 => Patience' = Patience + cycle
  <2> SUFFICES ASSUME missed' = missed + 1 PROVE Patience' = Patience + cycle
    OBVIOUS
  <2>1. Patience' = (1 + (missed + 1)) * cycle
    BY DEF Patience
  <2>2. (1 + (missed + 1)) * cycle = cycle + missed * cycle + cycle
    BY <1>1, SMT
  <2> QED
    BY <1>1, <1>2, <1>3, <2>1, <2>2
<1>6. missed' = 0 => Patience' = cycle
  <2> SUFFICES ASSUME missed' = 0 PROVE Patience' = cycle
    OBVIOUS
  <2>1. Patience' = (1 + 0) * cycle
    BY DEF Patience
  <2> QED
    BY <1>1, <2>1
<1> QED
  BY <1>1, <1>2, <1>3, <1>4, <1>5, <1>6, ServiceAssumption

LEMMA LoopKeepsAge ==
  ASSUME TimersFit, ServiceInv, DeliveryInv, AgeInv, ServiceStep
  PROVE  AgeInv'
<1> USE ServiceAssumption, CommonAssumption DEF ServiceInv
<1>0. /\ clock \in Nat \ {0} /\ last_update \in Nat /\ deadline \in Nat
      /\ started \in Nat /\ missed \in Nat /\ SlowestClock \in Int
  BY SlowestIsSlowest DEF OracleTypeOK, LoopInv
<1>1. last_update' = last_update
  BY DEF ServiceStep, BeginTick, ReadAndDecide, Broadcast, Confirm, TickFails, Stop, Start,
     chain_vars, oracle_vars, price_vars
<1>2. Patience \in Int /\ Patience >= PollInterval + TickTimeout
  BY <1>0, PatienceGrows
<1>3. Due \in Int /\ (last_update > 0 => Due >= last_update + MinUpdateInterval - SlowestClock)
  BY <1>0 DEF Due, Latest
<1>4. started' = started => Due' = Due
  BY <1>1 DEF Due
<1>5. CASE BeginTick
  <2>1. /\ phase = "sleep" /\ phase' = "read" /\ deadline' = clock + TickTimeout
        /\ started' = started /\ missed' = missed
    BY <1>5 DEF BeginTick
  <2>2. Patience' = Patience
    BY <1>0, <2>1, PatienceGrows
  <2>3. clock <= deadline
    BY <2>1 DEF LoopInv
  <2> QED
    BY <1>0, <1>2, <1>3, <1>4, <2>1, <2>2, <2>3 DEF AgeInv, InTick
<1>6. ASSUME InTick, phase' \in {"broadcast", "confirm"}, deadline' = deadline,
             started' = started, missed' = missed
      PROVE  AgeInv'
  BY <1>0, <1>4, <1>6, PatienceGrows DEF AgeInv, InTick
<1>7. ASSUME InTick, EndTick, started' = started, missed' = missed + 1
      PROVE  AgeInv'
  <2>1. Patience' = Patience + PollInterval + TickTimeout
    BY <1>0, <1>7, PatienceGrows
  <2>2. clock <= deadline /\ phase' = "sleep" /\ deadline' = clock + PollInterval
    BY <1>7 DEF LoopInv, InTick, EndTick
  <2> QED
    BY <1>0, <1>2, <1>3, <1>4, <1>7, <2>1, <2>2 DEF AgeInv, InTick
<1>8. ASSUME EndTick, started' = started, missed' = missed, clock < Due
      PROVE  AgeInv'
  <2>1. Patience' = Patience
    BY <1>0, <1>8, PatienceGrows
  <2>2. phase' = "sleep" /\ deadline' = clock + PollInterval
    BY <1>8 DEF EndTick
  <2> QED
    BY <1>0, <1>2, <1>3, <1>4, <1>8, <2>1, <2>2 DEF AgeInv, InTick
<1>9. CASE ReadAndDecide
  <2>1. phase = "read" /\ started' = started /\ InTick
    BY <1>9 DEF ReadAndDecide, tracker_vars, InTick
  <2>2. PICK proposed \in BscRates, state \in LcdAnswers, skew \in Skews :
           \/ phase' = "broadcast" /\ UNCHANGED <<deadline, missed>>
           \/ /\ Decide(proposed, state, clock + skew) = "throttled"
              /\ EndTick /\ UNCHANGED missed
           \/ EndTick /\ missed' = missed + 1
    BY <1>9 DEF ReadAndDecide
  <2>3. ASSUME Decide(proposed, state, clock + skew) = "throttled"
        PROVE  clock < Due
    <3>1. Throttled(clock + skew, state.last_update)
      BY <2>3 DEF Decide
    <3>2. state.last_update > 0 /\ (clock + skew) - state.last_update < MinUpdateInterval
      BY <3>1 DEF Throttled
    <3>3. state.last_update \in Nat /\ state.last_update <= last_update
      BY <1>0, AnswerBounds
    <3>4. skew \in Int /\ SlowestClock <= skew
      BY SlowestIsSlowest
    <3>5. last_update > 0
      BY <1>0, <3>2, <3>3
    <3> QED
      BY <1>0, <1>3, <3>2, <3>3, <3>4, <3>5
  <2> QED
    BY <1>6, <1>7, <1>8, <2>1, <2>2, <2>3
<1>10. CASE Broadcast
  <2>1. phase = "broadcast" /\ started' = started /\ InTick
    BY <1>10 DEF Broadcast, tracker_vars, InTick
  <2>2. \/ phase' = "confirm" /\ UNCHANGED <<deadline, missed>>
        \/ EndTick /\ missed' = missed + 1
    BY <1>10 DEF Broadcast
  <2> QED
    BY <1>6, <1>7, <2>1, <2>2
<1>11. CASE Confirm
  <2>1. phase = "confirm" /\ [tx |-> tx, ok |-> TRUE] \in index
    BY <1>11 DEF Confirm, Confirmed, Delivered
  <2>2. last_update > 0 /\ deadline <= last_update + LcdLag + TickTimeout
    BY <2>1 DEF DeliveryInv
  <2>3. clock <= deadline
    BY <2>1 DEF LoopInv
  <2>4. clock < Due
    BY <1>0, <1>3, <2>2, <2>3 DEF TimersFit
  <2> QED
    BY <1>8, <1>11, <2>4 DEF Confirm
<1>12. CASE TickFails
  BY <1>7, <1>12 DEF TickFails, tracker_vars
<1>13. CASE Start
  <2>1. /\ phase' = "sleep" /\ deadline' = clock /\ started' = clock /\ missed' = 0
    BY <1>13 DEF Start
  <2>2. Due' \in Int /\ Due' >= clock
    BY <1>0, <1>1, <2>1 DEF Due, Latest
  <2>3. Patience' = PollInterval + TickTimeout
    BY <1>0, <2>1, PatienceGrows
  <2>4. deadline' - Due' < Patience' - TickTimeout
    <3>1. \A d, u, p \in Int : d <= u /\ p = PollInterval + TickTimeout => d - u < p - TickTimeout
      OBVIOUS
    <3>2. deadline' \in Int /\ Patience' \in Int /\ deadline' <= Due'
      BY <1>0, <2>1, <2>2, <2>3
    <3> QED
      BY <2>2, <2>3, <3>1, <3>2, Zenon
  <2> QED
    BY <2>1, <2>4 DEF AgeInv, InTick
<1>14. CASE Stop
  BY <1>14 DEF Stop, AgeInv, InTick
<1> QED
  BY <1>5, <1>9, <1>10, <1>11, <1>12, <1>13, <1>14 DEF ServiceStep

LEMMA ChainKeepsAge ==
  ASSUME TimersFit, ServiceInv, AgeInv, Include \/ Evict \/ OthersAct \/ TimePasses
  PROVE  AgeInv'
<1> USE ServiceAssumption, CommonAssumption DEF ServiceInv
<1>0. /\ clock \in Nat \ {0} /\ last_update \in 0..clock /\ deadline \in Nat
      /\ started \in Nat /\ missed \in Nat /\ SlowestClock \in Int
  BY SlowestIsSlowest DEF OracleTypeOK, LoopInv
<1>1. UNCHANGED <<phase, deadline, started>>
  BY DEF Include, Evict, OthersAct, TimePasses, service_vars, tracker_vars
<1>2. ASSUME missed' = missed, last_update' \in Nat, last_update <= last_update'
      PROVE  AgeInv'
  <2>1. Due \in Int /\ Due' \in Int /\ Due <= Due'
    BY <1>0, <1>1, <1>2, DueForward
  <2>2. Patience' = Patience /\ Patience \in Int
    BY <1>0, <1>2, PatienceGrows
  <2>3. /\ deadline - Due < Patience => deadline' - Due' < Patience'
        /\ deadline - Due < Patience - TickTimeout => deadline' - Due' < Patience' - TickTimeout
    <3>1. \A d, u, v, p \in Int : u <= v =>
            /\ d - u < p => d - v < p
            /\ d - u < p - TickTimeout => d - v < p - TickTimeout
      OBVIOUS
    <3>2. deadline \in Int /\ deadline' = deadline
      BY <1>0, <1>1
    <3> QED
      BY <2>1, <2>2, <3>1, <3>2, Zenon
  <2> QED
    BY <1>1, <2>3 DEF AgeInv, InTick
<1>3. ASSUME NEW t, UpdateRate(Service, t.rate), missed' = 0
      PROVE  AgeInv'
  <2>1. last_update' = clock
    BY <1>3, UpdateTime
  <2>2. Due' \in Int /\ Due' >= clock + MinUpdateInterval - SlowestClock
    BY <1>0, <1>1, <2>1 DEF Due, Latest
  <2>3. Patience' = PollInterval + TickTimeout
    BY <1>0, <1>3, PatienceGrows
  <2>4. (InTick => deadline <= clock + TickTimeout) /\ (phase = "sleep" => deadline <= clock + PollInterval)
    BY DEF LoopInv
  <2>5. clock < Due'
    BY <1>0, <2>2 DEF TimersFit
  <2>6. /\ InTick => deadline' - Due' < Patience'
        /\ phase = "sleep" => deadline' - Due' < Patience' - TickTimeout
    <3>1. \A d, u, p \in Int : clock < u /\ p = PollInterval + TickTimeout =>
            /\ d <= clock + TickTimeout => d - u < p
            /\ d <= clock + PollInterval => d - u < p - TickTimeout
      BY <1>0
    <3>2. deadline \in Int /\ deadline' = deadline /\ Patience' \in Int
      BY <1>0, <1>1, <2>3
    <3> QED
      BY <2>2, <2>3, <2>4, <2>5, <3>1, <3>2, Zenon
  <2> QED
    BY <1>1, <2>6 DEF AgeInv, InTick
<1>4. CASE Include
  <2>1. \/ \E t \in mempool : UpdateRate(Service, t.rate) /\ missed' = 0
        \/ UNCHANGED <<chain_vars, missed>>
    BY <1>4 DEF Include
  <2> QED
    BY <1>0, <1>2, <1>3, <2>1 DEF chain_vars, oracle_vars, price_vars
<1>5. CASE OthersAct
  <2>1. missed' = missed
    BY <1>5 DEF OthersAct, service_vars
  <2>2. last_update <= last_update' /\ last_update' \in Nat
    BY <1>0, <1>5, UpdateTime DEF OthersAct, SetOraclePaused, SetOracleOperator, price_vars
  <2> QED
    BY <1>2, <2>1, <2>2
<1>6. CASE Evict \/ TimePasses
  <2>1. UNCHANGED <<missed, last_update>>
    BY <1>6
    DEF Evict, TimePasses, Tick, service_vars, chain_vars, oracle_vars, price_vars
  <2> QED
    BY <1>0, <1>2, <2>1
<1> QED
  BY <1>4, <1>5, <1>6

LEMMA StepAge == TimersFit /\ ServiceInv /\ DeliveryInv /\ AgeInv /\ [ServiceNext]_vars => AgeInv'
<1>1. CASE TimersFit /\ ServiceInv /\ DeliveryInv /\ AgeInv /\ ServiceNext
  BY <1>1, LoopKeepsAge, ChainKeepsAge DEF ServiceNext
<1>2. CASE AgeInv /\ UNCHANGED vars
  BY <1>2
  DEF vars, chain_vars, oracle_vars, price_vars, service_vars, tracker_vars, AgeInv, InTick,
      Due, Patience
<1> QED
  BY <1>1, <1>2

(* Once an update is due the rate waits less than a poll interval and a tick *)
(* for each tick that fails, and one: for every timer, skew and lag of which *)
(* the throttle is longer than a lag, a tick and the slowest clock's lead.   *)
THEOREM RateIsRefreshed == TimersFit => (ServiceSpec => []RateAgeBounded)
<1> DEFINE Inv == ServiceInv /\ DeliveryInv /\ AgeInv
<1> SUFFICES ASSUME TimersFit PROVE ServiceSpec => []RateAgeBounded
  OBVIOUS
<1>1. ServiceInit => Inv
  <2>1. SUFFICES ASSUME ServiceInit PROVE AgeInv
    BY InitServiceInv, InitDelivery
  <2>2. /\ clock \in Nat /\ deadline = clock /\ Due = clock
        /\ missed \in Nat /\ phase = "sleep"
    BY <2>1, InitServiceInv DEF ServiceInit, OracleInit, Due, ServiceInv, OracleTypeOK
  <2>3. Patience \in Int /\ Patience >= PollInterval + TickTimeout
    BY <2>2, PatienceGrows
  <2> QED
    BY <2>2, <2>3, ServiceAssumption DEF AgeInv, InTick
<1>2. Inv /\ [ServiceNext]_vars => Inv'
  BY StepServiceInv, StepDelivery, StepAge
<1>3. Inv => RateAgeBounded
  <2> SUFFICES ASSUME Inv, phase # "down" PROVE clock - Due < Patience
    BY DEF RateAgeBounded, Patience
  <2>1. /\ clock \in Nat \ {0} /\ deadline \in Nat /\ clock <= deadline
        /\ last_update \in Nat /\ started \in Nat /\ missed \in Nat
        /\ InTick \/ phase = "sleep"
    BY DEF ServiceInv, OracleTypeOK, LoopInv, InTick
  <2>2. Due \in Int /\ Patience \in Int
    BY <2>1, SlowestIsSlowest, PatienceGrows, CommonAssumption DEF Due, Latest
  <2> QED
    BY <2>1, <2>2, ServiceAssumption DEF AgeInv
<1> QED
  BY <1>1, <1>2, <1>3, PTL DEF ServiceSpec

(* How old a rate an update of this process can be read at: the slowest      *)
(* clock's throttle, and a poll interval and a tick for every tick that      *)
(* tried in vain, and one.                                                   *)
LEMMA AgeOfItsOwnUpdate ==
  ASSUME TimersFit, ServiceInv, RateAgeBounded, phase # "down", 0 < last_update, started <= last_update
  PROVE  clock - last_update < MinUpdateInterval - SlowestClock + Patience
<1>1. /\ clock \in Nat /\ last_update \in Nat /\ started \in Nat /\ missed \in Nat
      /\ SlowestClock \in Int /\ MinUpdateInterval \in Nat
  BY SlowestIsSlowest, CommonAssumption DEF ServiceInv, OracleTypeOK, LoopInv
<1>2. Patience \in Int
  BY <1>1, PatienceGrows
<1>3. Due = last_update + MinUpdateInterval - SlowestClock
  <2>1. SlowestClock < MinUpdateInterval
    BY <1>1, ServiceAssumption DEF TimersFit
  <2> QED
    BY <1>1, <2>1 DEF Due, Latest
<1>4. clock - Due < Patience
  BY DEF RateAgeBounded, Patience
<1> QED
  BY <1>1, <1>2, <1>3, <1>4

(* What INV-ORACLE-OPS-POLL-001 asks of a configuration: two polls and two   *)
(* ticks fit between the throttle and the window's age limit.                *)
AgeLimitFits ==
  MinUpdateInterval - SlowestClock + 2 * (PollInterval + TickTimeout) <= MaxOracleAge + 1

(* One missed tick is harmless to a rate the running process has updated     *)
(* wherever the timers leave the room: the default age limit of six hours    *)
(* is short of it by the two tick timeouts.                                  *)
THEOREM OneMissedTickFits ==
  TimersFit /\ AgeLimitFits =>
    (ServiceSpec => [](started <= last_update => OneMissedTickIsHarmless))
<1> SUFFICES ASSUME TimersFit, AgeLimitFits
             PROVE  ServiceSpec => [](started <= last_update => OneMissedTickIsHarmless)
  OBVIOUS
<1>1. ServiceInv /\ RateAgeBounded => (started <= last_update => OneMissedTickIsHarmless)
  <2> SUFFICES ASSUME ServiceInv, RateAgeBounded, started <= last_update,
                      phase # "down", last_update > 0, missed <= 1
               PROVE  clock - last_update <= MaxOracleAge
    BY DEF OneMissedTickIsHarmless
  <2>1. /\ clock \in Nat /\ last_update \in Nat /\ missed \in Nat
        /\ SlowestClock \in Int /\ MinUpdateInterval \in Nat
    BY SlowestIsSlowest, CommonAssumption DEF ServiceInv, OracleTypeOK, LoopInv
  <2>2. Patience \in Int /\ Patience <= 2 * (PollInterval + TickTimeout)
    <3> DEFINE cycle == PollInterval + TickTimeout
    <3>1. cycle \in Nat
      BY ServiceAssumption
    <3>2. missed = 0 \/ missed = 1
      BY <2>1
    <3>3. Patience = (1 + missed) * cycle
      BY DEF Patience
    <3> HIDE DEF cycle
    <3>4. Patience \in Int /\ Patience <= 2 * cycle
      BY <3>1, <3>2, <3>3
    <3> QED
      BY <3>4 DEF cycle
  <2>3. clock - last_update < MinUpdateInterval - SlowestClock + Patience
    BY <2>1, AgeOfItsOwnUpdate
  <2> QED
    BY <2>1, <2>2, <2>3, ServiceAssumption DEF AgeLimitFits
<1>2. ServiceSpec => []ServiceInv
  BY InitServiceInv, StepServiceInv, PTL DEF ServiceSpec
<1>3. ServiceSpec => []RateAgeBounded
  BY RateIsRefreshed
<1> QED
  BY <1>1, <1>2, <1>3, PTL

-----------------------------------------------------------------------------
(* The oracle under its service *)

(* Beside its own loop, its transactions and everybody else's, the service   *)
(* leaves the contract one of the behaviours of Ust1Oracle: what holds of    *)
(* the contract alone holds of it here.                                      *)
THEOREM ServiceRunsTheOracle == ServiceSpec => OracleSpec
<1>1. ServiceInit => OracleInit
  BY DEF ServiceInit
<1>2. ServiceInv /\ [ServiceNext]_vars => [OracleNext]_chain_vars
  <2> SUFFICES ASSUME ServiceInv, [ServiceNext]_vars PROVE [OracleNext]_chain_vars
    OBVIOUS
  <2>1. CASE ServiceStep
    BY <2>1
    DEF ServiceStep, BeginTick, ReadAndDecide, Broadcast, Confirm, TickFails, Stop, Start
  <2>2. CASE Include
    <3>1. (\E t \in mempool : UpdateRate(Service, t.rate)) \/ UNCHANGED chain_vars
      BY <2>2 DEF Include
    <3>2. \A t \in mempool : t.rate \in Rates
      BY DEF ServiceInv, TxInv
    <3> QED
      BY <3>1, <3>2, ServiceAssumption DEF OracleNext, OracleCall
  <2>3. CASE OthersAct
    BY <2>3 DEF OthersAct, OracleNext, OracleCall
  <2>4. CASE TimePasses
    BY <2>4 DEF TimePasses, OracleNext
  <2>5. CASE Evict \/ UNCHANGED vars
    BY <2>5 DEF Evict, vars
  <2> QED
    BY <2>1, <2>2, <2>3, <2>4, <2>5 DEF ServiceNext
<1>3. ServiceSpec => []ServiceInv
  BY InitServiceInv, StepServiceInv, PTL DEF ServiceSpec
<1> QED
  BY <1>1, <1>2, <1>3, PTL DEF ServiceSpec, OracleSpec

(* So whatever the loop, its transactions and the other operators have done, *)
(* a heartbeat that has waited out the throttle is accepted.                 *)
THEOREM ServiceHeartbeatNeverRefused == ServiceSpec => []HeartbeatAccepted
BY ServiceRunsTheOracle, HeartbeatNeverRefused, PTL
=============================================================================
