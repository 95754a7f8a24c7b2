------------------------------ MODULE BscRate ------------------------------
(***************************************************************************)
(* How the oracle service reads the Venus rate from BSC: evm_rpc.rs runs a *)
(* consensus over the first three RPC URLs, bsc.rs reads each of them at a *)
(* block some confirmations behind the head it was told.  A URL stands for *)
(* nodes behind a load balancer, which lag behind the chain and each other *)
(* and take turns in answering; the chain replaces its last blocks,        *)
(* requests fail or hang, one endpoint may answer anything, and URLs may   *)
(* be misconfigured to nodes of another network.                           *)
(***************************************************************************)
EXTENDS Integers, Sequences

CONSTANTS
  UrlCounts,       \* how many URLs BSC_RPC_URLS may list
  Confirmations,   \* BSC_CONFIRMATION_BLOCKS
  ReorgDepth,      \* how many of its last blocks BSC may replace
  PoolLag,         \* how many blocks the nodes behind one URL may be apart
  AgreeDenom,      \* 10_000: endpoints agree within 1/AgreeDenom
  Divisor,         \* 10^(underlying decimals - vToken decimals)
  Mantissas,       \* values of exchangeRateStored on the chain
  OtherRates,      \* what a faulty or foreign endpoint may answer
  MaxU128,         \* Uint128::MAX
  MaxBlocks        \* bound on the length of the chain

(* from_env requires two URLs.  The confirmations are the operator's choice; *)
(* they mean something only if they outlast the reorganisations, and the     *)
(* spread of the nodes that may answer one read's two requests.              *)
ASSUME BscAssumption ==
  /\ UrlCounts \subseteq Nat \ {0, 1}
  /\ Confirmations \in Nat /\ ReorgDepth \in Nat /\ PoolLag \in Nat
  /\ ReorgDepth + PoolLag <= Confirmations
  /\ AgreeDenom \in Nat \ {0}
  /\ Divisor \in Nat \ {0}
  /\ Mantissas \subseteq Nat /\ Mantissas # {}
  /\ MaxU128 \in Nat
  /\ OtherRates \subseteq 0..MaxU128
  /\ MaxBlocks \in Nat \ {0}

VARIABLES
  num_urls,    \* the length of BSC_RPC_URLS; distinct nodes, distinct owners
  faulty,      \* endpoints that answer anything, at most one
  foreign,     \* endpoints of a network that is not in BSC_ALLOWED_CHAIN_IDS
  bsc,         \* the mantissa each block of the chain leaves
  seen,        \* how many blocks the foremost node of each endpoint has
  verified,    \* CHAIN_ID_CACHE: URLs whose network was accepted
  stage,       \* of the consensus: "start" of the process, "idle" between
               \* ticks, "pair" or "third" while those URLs are read
  head,        \* the block each pending read asks about, 0 before it has one
  answer,      \* what each read returned
  result       \* what the last tick's consensus returned

endpoint_vars == <<num_urls, faulty, foreign>>
bsc_vars == <<bsc, seen>>
read_vars == <<head, answer>>
vars == <<endpoint_vars, bsc_vars, verified, stage, read_vars, result>>

Endpoints == 1..3
Urls == 1..num_urls
Pending == [kind |-> "pending", rate |-> 0]
Failed == [kind |-> "err", rate |-> 0]
Ok(r) == [kind |-> "ok", rate |-> r]

Honest == Endpoints \ (faulty \cup foreign)

Blockchains == UNION {[1..n -> Mantissas] : n \in 1..MaxBlocks}

(* The last block of a chain that no reorganisation can replace; the first   *)
(* block never is.                                                           *)
LastFinal(chain) == IF Len(chain) > ReorgDepth THEN Len(chain) - ReorgDepth ELSE 1

-----------------------------------------------------------------------------
(* Conversion and agreement *)

(* venus_exchange_rate_to_oracle_r: from the mantissa to the oracle's scale. *)
OracleRate(mantissa) == mantissa \div Divisor

Higher(a, b) == IF a >= b THEN a ELSE b
Lower(a, b) == IF a >= b THEN b ELSE a

(* rates_agree_within_point_zero_one_percent: the difference is scaled up    *)
(* with checked_mul, whose overflow means that it exceeds the larger rate.   *)
RatesAgree(a, b) == (Higher(a, b) - Lower(a, b)) * AgreeDenom <= Higher(a, b)

Agree(e, f) ==
  /\ answer[e].kind = "ok" /\ answer[f].kind = "ok"
  /\ RatesAgree(answer[e].rate, answer[f].rate)

-----------------------------------------------------------------------------
(* The process and its endpoints *)

BscInit ==
  /\ num_urls \in UrlCounts
  /\ foreign \in SUBSET Endpoints
  /\ faulty \in SUBSET (Endpoints \ foreign)
  /\ \A e, f \in faulty : e = f
  /\ bsc \in [1..1 -> Mantissas]
  /\ seen = [e \in Endpoints |-> 1]
  /\ verified = {} /\ stage = "start"
  /\ head = [e \in Endpoints |-> 0]
  /\ answer = [e \in Endpoints |-> Pending]
  /\ result = Pending

(* verify_bsc_rpc_chain_id: a URL is verified once for the process's life.   *)
(* A faulty endpoint may report any network.                                 *)
ChainAllowed_Any(e) == TRUE

ChainAllowed(e) == e \notin foreign

(* verify_all_bsc_rpc_urls: the URLs in their order; the first that does not *)
(* answer, or not with an allowed network, ends the process.                 *)
VerifyUrl ==
  /\ stage = "start"
  /\ \E e \in Urls \ verified :
       /\ 1..(e - 1) \subseteq verified
       /\ ChainAllowed(e)
       /\ verified' = verified \cup {e}
       /\ stage' = IF verified' = Urls THEN "idle" ELSE "start"
  /\ UNCHANGED <<endpoint_vars, bsc_vars, read_vars, result>>

(* The process exits or crashes, anywhere, and its supervisor starts it      *)
(* again: the cache is gone.                                                 *)
Restart ==
  /\ stage # "start" \/ verified # {}
  /\ verified' = {} /\ stage' = "start"
  /\ head' = [e \in Endpoints |-> 0]
  /\ answer' = [e \in Endpoints |-> Pending]
  /\ result' = Pending
  /\ UNCHANGED <<endpoint_vars, bsc_vars>>

-----------------------------------------------------------------------------
(* One read: read_exchange_rate_stored *)

Asked ==
  CASE stage = "pair"  -> {1, 2}
    [] stage = "third" -> {3}
    [] OTHER           -> {}

Reading(e) == e \in Asked /\ answer[e] = Pending

ConfirmedBlock_OneLess(height) ==
  IF height > Confirmations THEN height - Confirmations + 1 ELSE 1

(* latest.saturating_sub(confirmation_blocks), of blocks counted from one.   *)
ConfirmedBlock(height) ==
  IF height > Confirmations THEN height - Confirmations ELSE 1

(* The chains that the nodes behind a URL may have: no more than PoolLag     *)
(* blocks behind the foremost of them, on any fork above what is final.      *)
NodeChains(e) ==
  {chain \in Blockchains :
     /\ Len(chain) \in (seen[e] - PoolLag)..seen[e]
     /\ \A b \in 1..LastFinal(chain) : chain[b] = bsc[b]}

(* eth_blockNumber, answered by any of these nodes.                          *)
GetBlockNumber(e) ==
  /\ Reading(e) /\ e \in Honest /\ e \in verified
  /\ head[e] = 0
  /\ \E chain \in NodeChains(e) :
       head' = [head EXCEPT ![e] = ConfirmedBlock(Len(chain))]
  /\ UNCHANGED <<endpoint_vars, bsc_vars, verified, stage, answer, result>>

(* The calls at that block, answered by any node that has it, not always by  *)
(* the one that named it.  The conversion fails for a rate wider than        *)
(* Uint128.                                                                  *)
CallVToken(e) ==
  /\ Reading(e) /\ head[e] # 0
  /\ \E chain \in NodeChains(e) :
       /\ head[e] \in DOMAIN chain
       /\ LET rate == OracleRate(chain[head[e]])
          IN  answer' = [answer EXCEPT ![e] = IF rate <= MaxU128 THEN Ok(rate) ELSE Failed]
  /\ head' = [head EXCEPT ![e] = 0]
  /\ UNCHANGED <<endpoint_vars, bsc_vars, verified, stage, result>>

AnswerAnything(e) ==
  /\ Reading(e) /\ e \notin Honest
  /\ \E rate \in OtherRates : answer' = [answer EXCEPT ![e] = Ok(rate)]
  /\ UNCHANGED <<endpoint_vars, bsc_vars, verified, stage, head, result>>

(* Every request has a timeout; it may also be refused or answered badly.    *)
RequestFails_Refused(e) ==
  /\ Reading(e) /\ e \in Honest
  /\ answer' = [answer EXCEPT ![e] = Failed]
  /\ head' = [head EXCEPT ![e] = 0]
  /\ UNCHANGED <<endpoint_vars, bsc_vars, verified, stage, result>>

RequestFails_AsksAgain(e) ==
  /\ Reading(e)
  /\ head' = [head EXCEPT ![e] = 0]
  /\ UNCHANGED <<endpoint_vars, bsc_vars, verified, stage, answer, result>>

RequestFails(e) ==
  /\ Reading(e)
  /\ answer' = [answer EXCEPT ![e] = Failed]
  /\ head' = [head EXCEPT ![e] = 0]
  /\ UNCHANGED <<endpoint_vars, bsc_vars, verified, stage, result>>

-----------------------------------------------------------------------------
(* The consensus: run_with_evm_rpc_rate_consensus *)

BeginTick ==
  /\ stage = "idle"
  /\ stage' = "pair"
  /\ result' = Pending
  /\ UNCHANGED <<endpoint_vars, bsc_vars, verified, read_vars>>

(* The tick is over; what its endpoints said is dropped.                     *)
Conclude_KeepsAnswers(r) ==
  /\ result' = r
  /\ stage' = "idle"
  /\ UNCHANGED <<endpoint_vars, bsc_vars, verified, read_vars>>

Conclude(r) ==
  /\ result' = r
  /\ stage' = "idle"
  /\ head' = [e \in Endpoints |-> 0]
  /\ answer' = [e \in Endpoints |-> Pending]
  /\ UNCHANGED <<endpoint_vars, bsc_vars, verified>>

PairAnswered == stage = "pair" /\ answer[1] # Pending /\ answer[2] # Pending

PairAgrees ==
  /\ PairAnswered /\ Agree(1, 2)
  /\ Conclude(answer[1])

(* Disagreement, or a failure of either or both, is left to the third URL.   *)
AskThird ==
  /\ PairAnswered /\ ~Agree(1, 2)
  /\ num_urls >= 3
  /\ stage' = "third"
  /\ UNCHANGED <<endpoint_vars, bsc_vars, verified, read_vars, result>>

NobodyToAsk ==
  /\ PairAnswered /\ ~Agree(1, 2)
  /\ num_urls < 3
  /\ Conclude(Failed)

TieBreak_FirstOnly == IF Agree(1, 3) THEN answer[1] ELSE Failed

TieBreak_TrustsThird ==
  IF Agree(1, 3) THEN answer[1]
  ELSE IF answer[1].kind = "ok" /\ answer[2].kind = "ok" THEN Failed ELSE answer[3]

TieBreak ==
  IF Agree(1, 3) THEN answer[1]
  ELSE IF Agree(2, 3) THEN answer[2]
  ELSE Failed

ThirdAnswered ==
  /\ stage = "third" /\ answer[3] # Pending
  /\ Conclude(TieBreak)

(* The tick's own timeout drops the reads wherever they are.                 *)
TickTimesOut ==
  /\ stage \in {"pair", "third"}
  /\ Conclude(Pending)

-----------------------------------------------------------------------------
(* The chain *)

(* Blocks arrive, or replace the last ones; the new chain is not shorter.    *)
BlocksArrive ==
  \E chain \in Blockchains :
    /\ chain # bsc
    /\ Len(chain) >= Len(bsc)
    /\ \A b \in 1..LastFinal(bsc) : chain[b] = bsc[b]
    /\ bsc' = chain
  /\ UNCHANGED <<endpoint_vars, seen, verified, stage, read_vars, result>>

(* The foremost node behind a URL catches up, in its own time.               *)
Sync(e) ==
  /\ e \in Honest
  /\ \E n \in (seen[e] + 1)..Len(bsc) : seen' = [seen EXCEPT ![e] = n]
  /\ UNCHANGED <<endpoint_vars, bsc, verified, stage, read_vars, result>>

RequestEnds(e) == GetBlockNumber(e) \/ CallVToken(e) \/ RequestFails(e)

ReadStep(e) == RequestEnds(e) \/ AnswerAnything(e)

ConsensusStep == PairAgrees \/ AskThird \/ NobodyToAsk \/ ThirdAnswered

BscNext ==
  \/ VerifyUrl \/ Restart \/ BeginTick \/ ConsensusStep \/ TickTimesOut
  \/ \E e \in Endpoints : ReadStep(e) \/ Sync(e)
  \/ BlocksArrive

BscSpec == BscInit /\ [][BscNext]_vars

(* A request ends, by its timeout if not by its answer, and the service then *)
(* goes on.  Nothing is assumed of the tick's timeout, of the chain or of    *)
(* how fast its nodes are.                                                   *)
BscFairness ==
  /\ WF_vars(ConsensusStep)
  /\ \A e \in Endpoints : WF_vars(RequestEnds(e))

FairBscSpec == BscSpec /\ BscFairness

-----------------------------------------------------------------------------
(* Properties *)

Answers == [kind : {"pending", "err", "ok"}, rate : 0..MaxU128]

BscTypeOK ==
  /\ num_urls \in UrlCounts
  /\ faulty \subseteq Endpoints /\ foreign \subseteq Endpoints
  /\ bsc \in Blockchains /\ seen \in [Endpoints -> 1..MaxBlocks]
  /\ verified \subseteq Urls
  /\ stage \in {"start", "idle", "pair", "third"}
  /\ stage = "third" => 3 \in Urls
  /\ head \in [Endpoints -> 0..MaxBlocks]
  /\ answer \in [Endpoints -> Answers]
  /\ result \in Answers
  /\ \A e \in Endpoints : head[e] # 0 => e \in Honest /\ Reading(e)
  /\ \A e \in Endpoints : answer[e] # Pending => e \in Urls /\ stage \in {"pair", "third"}

(* What the service goes on to put on chain is, within the tolerance, the    *)
(* rate of a BSC block that stays: with at most one faulty endpoint, nodes   *)
(* that lag and answer by turns on different forks, any misconfigured URL,   *)
(* and reorganisations before, during and after the read.                    *)
RateIsFinal ==
  result.kind = "ok" =>
    \E b \in 1..LastFinal(bsc) : RatesAgree(result.rate, OracleRate(bsc[b]))

(* The consensus is two of three, in whatever order endpoints answer or      *)
(* fail: a rate is accepted only on the word of two endpoints that agree,    *)
(* and a tick that ran to its end goes without one only if no two of those   *)
(* it asked agreed.  Agreement is not transitive, so this is not obvious.    *)
TwoOfThree ==
  [][LET Agreed == {p \in Endpoints \X Endpoints : p[1] # p[2] /\ Agree(p[1], p[2])}
     IN  result' # result =>
           /\ result'.kind = "ok" => \E p \in Agreed : result' = answer[p[1]]
           /\ result'.kind = "err" => Agreed = {}]_vars

(* A read that has begun is over sooner or later, whoever hangs, even        *)
(* without the tick's timeout.                                               *)
ReadConcludes == stage = "pair" ~> stage \in {"idle", "start"}

(* The requests a read may still make, and the decisions it has before it.   *)
Requests(e) == IF answer[e] # Pending THEN 0 ELSE IF head[e] # 0 THEN 1 ELSE 2

WorkLeft ==
  CASE stage = "pair"  -> Requests(1) + Requests(2) + 4
    [] stage = "third" -> Requests(3) + 1
    [] OTHER           -> 0

(* What makes that so, of each step: a request that ends or an answer that   *)
(* is weighed takes a read nearer to its end, and nothing that nodes, blocks *)
(* or liars do takes it back.  A read is over after eight steps of its own.  *)
ReadsWindDown ==
  [][/\ ConsensusStep \/ (\E e \in Endpoints : ReadStep(e)) => WorkLeft' < WorkLeft
     /\ WorkLeft' > WorkLeft => BeginTick /\ WorkLeft' <= 8]_vars
=============================================================================
