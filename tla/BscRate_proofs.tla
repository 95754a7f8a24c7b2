--------------------------- MODULE BscRate_proofs ---------------------------
(***************************************************************************)
(* For every number of confirmations that outlasts the reorganisations and *)
(* the spread of the nodes behind a URL, every tolerance, every set of     *)
(* rates and every length of the chain: what the consensus accepts is the  *)
(* rate of a final block, while at most one endpoint lies.                 *)
(***************************************************************************)
EXTENDS BscRate, TLAPS

(* A rate that some final block of the chain stands for.                     *)
FinalRate(r) == \E b \in 1..LastFinal(bsc) : r = OracleRate(bsc[b])

(* The inductive invariant: no node is ahead of the chain, a read asks about *)
(* a block that is final whichever node answers, and every honest answer is  *)
(* the rate of a final block; of two endpoints that answered, one at least   *)
(* is honest.                                                                *)
SeenIsHistory == \A e \in Endpoints : seen[e] <= Len(bsc)

Settled(e, block) == block = 1 \/ block <= seen[e] - Confirmations

HeadsAreFinal ==
  \A e \in Endpoints : head[e] # 0 => Settled(e, head[e])

HonestAnswersAreFinal ==
  \A e \in Honest : answer[e].kind = "ok" => FinalRate(answer[e].rate)

OnlyOneLies ==
  /\ \A e, f \in faulty : e = f
  /\ verified \cap foreign = {}
  /\ stage # "start" => verified = Urls

IInv ==
  /\ BscTypeOK
  /\ SeenIsHistory
  /\ HeadsAreFinal
  /\ HonestAnswersAreFinal
  /\ OnlyOneLies
  /\ RateIsFinal

-----------------------------------------------------------------------------
(* Chains of blocks *)

(* A chain has a first block, and its blocks are mantissas. *)
LEMMA ChainFacts ==
  ASSUME NEW c \in Blockchains
  PROVE  /\ Len(c) \in 1..MaxBlocks
         /\ LastFinal(c) \in 1..Len(c)
         /\ \A b \in 1..Len(c) : c[b] \in Nat
<1>1. PICK n \in 1..MaxBlocks : c \in [1..n -> Mantissas]
  BY DEF Blockchains
<1>2. c \in Seq(Mantissas) /\ Len(c) = n
  BY <1>1, BscAssumption
<1>3. c[1] \in Mantissas /\ \A b \in 1..Len(c) : c[b] \in Mantissas
  BY <1>1, <1>2
<1>4. LastFinal(c) \in 1..Len(c)
  BY <1>2, BscAssumption DEF LastFinal
<1> QED
  BY <1>2, <1>3, <1>4, BscAssumption

(* The block a read asks about is settled, whichever node named the head.    *)
LEMMA ConfirmedIsSettled ==
  ASSUME NEW e \in Endpoints, seen[e] \in Nat, NEW c \in NodeChains(e)
  PROVE  /\ ConfirmedBlock(Len(c)) \in 1..MaxBlocks
         /\ Settled(e, ConfirmedBlock(Len(c)))
<1>1. c \in Blockchains /\ Len(c) <= seen[e]
  BY BscAssumption DEF NodeChains
<1> QED
  BY <1>1, ChainFacts, BscAssumption DEF ConfirmedBlock, Settled

(* A chain that replaces another one keeps its final blocks final. *)
LEMMA FinalityGrows ==
  ASSUME NEW c \in Blockchains, NEW d \in Blockchains, Len(c) <= Len(d)
  PROVE  LastFinal(c) <= LastFinal(d)
BY ChainFacts, BscAssumption DEF LastFinal

(* Agreement is reflexive and symmetric; it is not transitive. *)
LEMMA AgreementIsSymmetric ==
  ASSUME NEW a \in Nat, NEW b \in Nat
  PROVE  /\ RatesAgree(a, a)
         /\ RatesAgree(a, b) <=> RatesAgree(b, a)
BY BscAssumption DEF RatesAgree, Higher, Lower

(* The conversion rounds a mantissa to a natural number. *)
LEMMA OracleRateIsNat ==
  ASSUME NEW n \in Nat
  PROVE  OracleRate(n) \in Nat
BY BscAssumption DEF OracleRate

(* A settled block is the same in every chain that may be asked, and final.  *)
LEMMA SettledIsFinal ==
  ASSUME NEW e \in Endpoints, NEW c \in NodeChains(e), NEW block \in Nat \ {0},
         Settled(e, block), bsc \in Blockchains, seen[e] \in Nat, seen[e] <= Len(bsc)
  PROVE  /\ block \in 1..LastFinal(bsc) /\ c[block] = bsc[block]
         /\ c[block] \in Nat
<1>1. c \in Blockchains /\ Len(c) >= seen[e] - PoolLag /\ Len(c) <= seen[e]
  BY BscAssumption DEF NodeChains
<1>2. /\ Len(c) \in Nat /\ LastFinal(c) \in 1..Len(c)
      /\ Len(bsc) \in Nat /\ LastFinal(bsc) \in 1..Len(bsc) /\ LastFinal(c) <= LastFinal(bsc)
  BY <1>1, ChainFacts, FinalityGrows, BscAssumption
<1>3. block \in 1..LastFinal(c)
  <2>1. CASE block = 1
    BY <1>2, <2>1
  <2>2. CASE block <= seen[e] - Confirmations
    <3>1. block <= Len(c) - ReorgDepth
      BY <1>1, <1>2, <2>2, BscAssumption
    <3> QED
      BY <1>2, <3>1, BscAssumption DEF LastFinal
  <2> QED
    BY <2>1, <2>2 DEF Settled
<1>4. block \in 1..LastFinal(bsc) /\ block \in 1..Len(c)
  BY <1>2, <1>3
<1>5. c[block] = bsc[block]
  BY <1>3 DEF NodeChains
<1> QED
  BY <1>1, <1>4, <1>5, ChainFacts

-----------------------------------------------------------------------------
(* Invariance *)

LEMMA InitIInv == BscInit => IInv
<1> SUFFICES ASSUME BscInit PROVE IInv
  OBVIOUS
<1> USE BscAssumption
<1>1. bsc \in Blockchains
  BY DEF BscInit, Blockchains
<1>2. BscTypeOK
  BY <1>1 DEF BscInit, BscTypeOK, Answers, Pending, Urls, Endpoints, Reading, Asked
<1>3. OnlyOneLies
  BY DEF BscInit, OnlyOneLies
<1> QED
  BY <1>1, <1>2, <1>3, ChainFacts
  DEF BscInit, IInv, SeenIsHistory, HeadsAreFinal, Settled, HonestAnswersAreFinal,
      RateIsFinal, Pending, Endpoints, Honest

(* The heart of the consensus: of two different endpoints that agree, one is *)
(* honest, so the rate of either agrees with that of a final block.          *)
LEMMA AgreementIsFinal ==
  ASSUME IInv, NEW e \in Endpoints, NEW f \in Endpoints, e # f, Agree(e, f)
  PROVE  \E b \in 1..LastFinal(bsc) : RatesAgree(answer[e].rate, OracleRate(bsc[b]))
<1>1. e \notin foreign /\ f \notin foreign
  BY DEF IInv, OnlyOneLies, BscTypeOK, Agree, Pending
<1>2. answer[e].rate \in Nat /\ answer[f].rate \in Nat
  BY BscAssumption DEF IInv, BscTypeOK, Answers
<1>3. CASE e \in Honest
  <2>1. FinalRate(answer[e].rate)
    BY <1>3 DEF IInv, HonestAnswersAreFinal, Agree
  <2> QED
    BY <1>2, <2>1, AgreementIsSymmetric DEF FinalRate
<1>4. CASE f \in Honest
  <2>1. FinalRate(answer[f].rate)
    BY <1>4 DEF IInv, HonestAnswersAreFinal, Agree
  <2>2. RatesAgree(answer[e].rate, answer[f].rate)
    BY DEF Agree
  <2> QED
    BY <2>1, <2>2 DEF FinalRate
<1> QED
  BY <1>1, <1>3, <1>4 DEF IInv, OnlyOneLies, Honest

(* A concluded tick keeps the invariant if what it returns is justified. *)
LEMMA ConcludeIInv ==
  ASSUME IInv, NEW r \in Answers, Conclude(r),
         r.kind = "ok" => \E b \in 1..LastFinal(bsc) : RatesAgree(r.rate, OracleRate(bsc[b])),
         stage # "start"
  PROVE  IInv'
<1> USE DEF Conclude, endpoint_vars, bsc_vars
<1>1. BscTypeOK'
  BY BscAssumption
  DEF IInv, BscTypeOK, Pending, Answers, Urls, Endpoints, Honest, Reading, Asked
<1>2. SeenIsHistory' /\ HeadsAreFinal' /\ OnlyOneLies'
  BY DEF IInv, SeenIsHistory, HeadsAreFinal, Settled, OnlyOneLies, LastFinal, Urls
<1>3. HonestAnswersAreFinal'
  BY DEF HonestAnswersAreFinal, Pending, Honest, Endpoints
<1>4. RateIsFinal'
  BY DEF RateIsFinal, LastFinal
<1> QED
  BY <1>1, <1>2, <1>3, <1>4 DEF IInv

LEMMA StepIInv == IInv /\ [BscNext]_vars => IInv'
<1> SUFFICES ASSUME IInv, [BscNext]_vars PROVE IInv'
  OBVIOUS
<1> USE DEF endpoint_vars, bsc_vars, read_vars
<1>1. CASE VerifyUrl
  <2>1. BscTypeOK'
    BY <1>1 DEF VerifyUrl, IInv, BscTypeOK, Urls, Honest, Reading, Asked
  <2>2. OnlyOneLies'
    BY <1>1 DEF VerifyUrl, ChainAllowed, IInv, OnlyOneLies, Urls
  <2>3. HonestAnswersAreFinal' /\ SeenIsHistory' /\ HeadsAreFinal' /\ RateIsFinal'
    BY <1>1 DEF VerifyUrl, IInv, HonestAnswersAreFinal, FinalRate, Honest, LastFinal,
                SeenIsHistory, HeadsAreFinal, Settled, RateIsFinal
  <2> QED
    BY <2>1, <2>2, <2>3 DEF IInv
<1>2. CASE Restart
  <2>1. BscTypeOK'
    BY <1>2, BscAssumption
    DEF Restart, IInv, BscTypeOK, Pending, Answers, Urls, Endpoints, Honest, Reading, Asked
  <2> QED
    BY <1>2, <2>1
    DEF Restart, IInv, SeenIsHistory, HeadsAreFinal, Settled, HonestAnswersAreFinal, OnlyOneLies,
        RateIsFinal, Pending, LastFinal, Endpoints, Honest
<1>3. CASE BeginTick
  <2>1. BscTypeOK'
    BY <1>3, BscAssumption
    DEF BeginTick, IInv, BscTypeOK, Pending, Answers, Urls, Endpoints, Honest, Reading, Asked
  <2> QED
    BY <1>3, <2>1
    DEF BeginTick, IInv, SeenIsHistory, HeadsAreFinal, Settled, HonestAnswersAreFinal, OnlyOneLies,
        FinalRate, RateIsFinal, Pending, LastFinal, Honest, Urls
<1>4. CASE PairAgrees
  <2>1. answer[1] \in Answers /\ 1 \in Endpoints /\ 2 \in Endpoints
    BY DEF IInv, BscTypeOK, Endpoints
  <2> QED
    BY <1>4, <2>1, AgreementIsFinal, ConcludeIInv DEF PairAgrees, PairAnswered
<1>5. CASE AskThird
  <2>1. BscTypeOK'
    BY <1>5, BscAssumption
    DEF AskThird, PairAnswered, IInv, BscTypeOK, Answers, Urls, Endpoints, Honest, Reading, Asked,
        Pending
  <2> QED
    BY <1>5, <2>1
    DEF AskThird, PairAnswered, IInv, SeenIsHistory, HeadsAreFinal, Settled, HonestAnswersAreFinal,
        OnlyOneLies, FinalRate, RateIsFinal, LastFinal, Honest, Urls
<1>6. CASE NobodyToAsk
  <2>1. Failed \in Answers /\ Failed.kind = "err"
    BY BscAssumption DEF Failed, Answers
  <2> QED
    BY <1>6, <2>1, ConcludeIInv DEF NobodyToAsk, PairAnswered
<1>7. CASE ThirdAnswered
  <2>1. \A e \in Endpoints : answer[e] \in Answers
    BY DEF IInv, BscTypeOK
  <2>2. Failed \in Answers /\ Failed.kind = "err"
    BY BscAssumption DEF Failed, Answers
  <2>3. 1 \in Endpoints /\ 2 \in Endpoints /\ 3 \in Endpoints
    BY DEF Endpoints
  <2>4. CASE Agree(1, 3)
    BY <1>7, <2>1, <2>3, <2>4, AgreementIsFinal, ConcludeIInv DEF ThirdAnswered, TieBreak
  <2>5. CASE ~Agree(1, 3) /\ Agree(2, 3)
    BY <1>7, <2>1, <2>3, <2>5, AgreementIsFinal, ConcludeIInv DEF ThirdAnswered, TieBreak
  <2>6. CASE ~Agree(1, 3) /\ ~Agree(2, 3)
    BY <1>7, <2>2, <2>6, ConcludeIInv DEF ThirdAnswered, TieBreak
  <2> QED
    BY <2>4, <2>5, <2>6
<1>8. CASE TickTimesOut
  <2>1. Pending \in Answers /\ Pending.kind = "pending"
    BY BscAssumption DEF Pending, Answers
  <2> QED
    BY <1>8, <2>1, ConcludeIInv DEF TickTimesOut
<1>9. ASSUME NEW e \in Endpoints, GetBlockNumber(e) PROVE IInv'
  <2>1. PICK chain \in NodeChains(e) :
          head' = [head EXCEPT ![e] = ConfirmedBlock(Len(chain))]
    BY <1>9 DEF GetBlockNumber
  <2>2. seen[e] \in Nat
    BY ChainFacts, BscAssumption DEF IInv, BscTypeOK
  <2>3. head'[e] \in 1..MaxBlocks /\ Settled(e, head'[e])
    BY <2>1, <2>2, ConfirmedIsSettled DEF IInv, BscTypeOK
  <2>4. BscTypeOK'
    BY <1>9, <2>1, <2>3, BscAssumption
    DEF GetBlockNumber, IInv, BscTypeOK, Urls, Honest, Reading, Asked
  <2>5. HeadsAreFinal'
    BY <1>9, <2>1, <2>3 DEF GetBlockNumber, IInv, BscTypeOK, SeenIsHistory, HeadsAreFinal, Settled
  <2> QED
    BY <1>9, <2>4, <2>5
    DEF GetBlockNumber, IInv, SeenIsHistory, HonestAnswersAreFinal, OnlyOneLies, FinalRate,
        RateIsFinal, LastFinal, Honest, Urls
<1>10. ASSUME NEW e \in Endpoints, CallVToken(e) PROVE IInv'
  <2>1. PICK chain \in NodeChains(e) :
          answer' = [answer EXCEPT ![e] = IF OracleRate(chain[head[e]]) <= MaxU128
                                          THEN Ok(OracleRate(chain[head[e]])) ELSE Failed]
    BY <1>10 DEF CallVToken
  <2> DEFINE rate == OracleRate(chain[head[e]])
  <2>2. head[e] \in Nat \ {0} /\ Settled(e, head[e])
    BY <1>10, BscAssumption DEF CallVToken, IInv, BscTypeOK, HeadsAreFinal
  <2>3. head[e] \in 1..LastFinal(bsc) /\ chain[head[e]] = bsc[head[e]] /\ chain[head[e]] \in Nat
    BY <2>2, SettledIsFinal, BscAssumption DEF IInv, BscTypeOK, SeenIsHistory
  <2>4. rate \in Nat /\ rate = OracleRate(bsc[head[e]])
    BY <2>3, OracleRateIsNat
  <2>5. answer'[e] \in Answers /\ (answer'[e].kind = "ok" => answer'[e].rate = rate)
    BY <2>1, <2>4, BscAssumption DEF Answers, Ok, Failed, IInv, BscTypeOK
  <2>6. BscTypeOK'
    <3>1. PICK value \in Answers : answer' = [answer EXCEPT ![e] = value] /\ value # Pending
      BY <2>1, <2>5 DEF IInv, BscTypeOK, Ok, Failed, Pending
    <3>2. /\ head' = [head EXCEPT ![e] = 0] /\ Reading(e)
          /\ UNCHANGED <<endpoint_vars, bsc_vars, verified, stage, result>>
      BY <1>10 DEF CallVToken
    <3>3. e \in Urls
      BY <3>2, BscAssumption DEF Reading, Asked, IInv, BscTypeOK, Urls
    <3> QED
      BY <3>1, <3>2, <3>3, BscAssumption
      DEF IInv, BscTypeOK, Urls, Honest, Reading, Asked, Endpoints
  <2>7. HonestAnswersAreFinal'
    BY <1>10, <2>1, <2>3, <2>4, <2>5
    DEF CallVToken, IInv, BscTypeOK, HonestAnswersAreFinal, FinalRate, LastFinal, Honest
  <2> QED
    BY <1>10, <2>6, <2>7
    DEF CallVToken, IInv, BscTypeOK, SeenIsHistory, HeadsAreFinal, Settled, OnlyOneLies, RateIsFinal,
        LastFinal, Urls
<1>11. ASSUME NEW e \in Endpoints, AnswerAnything(e) PROVE IInv'
  <2>1. PICK rate \in OtherRates : answer' = [answer EXCEPT ![e] = Ok(rate)]
    BY <1>11 DEF AnswerAnything
  <2>2. Ok(rate) \in Answers
    BY BscAssumption DEF Ok, Answers
  <2>3. e \in Urls
    BY <1>11, BscAssumption DEF AnswerAnything, Reading, Asked, IInv, BscTypeOK, Urls
  <2>4. BscTypeOK'
    BY <1>11, <2>1, <2>2, <2>3, BscAssumption
    DEF AnswerAnything, IInv, BscTypeOK, Urls, Honest, Reading, Asked, Endpoints
  <2> QED
    BY <1>11, <2>1, <2>4
    DEF AnswerAnything, IInv, BscTypeOK, SeenIsHistory, HeadsAreFinal, Settled, HonestAnswersAreFinal,
        OnlyOneLies, FinalRate, RateIsFinal, LastFinal, Honest, Urls
<1>12. ASSUME NEW e \in Endpoints, RequestFails(e) PROVE IInv'
  <2>1. Failed \in Answers /\ Failed.kind = "err"
    BY BscAssumption DEF Failed, Answers
  <2>2. e \in Urls
    BY <1>12, BscAssumption DEF RequestFails, Reading, Asked, IInv, BscTypeOK, Urls
  <2>3. BscTypeOK'
    BY <1>12, <2>1, <2>2, BscAssumption
    DEF RequestFails, IInv, BscTypeOK, Urls, Honest, Reading, Asked, Endpoints
  <2> QED
    BY <1>12, <2>1, <2>3
    DEF RequestFails, IInv, BscTypeOK, SeenIsHistory, HeadsAreFinal, Settled, HonestAnswersAreFinal,
        OnlyOneLies, FinalRate, RateIsFinal, LastFinal, Honest, Urls
<1>13. ASSUME NEW e \in Endpoints, Sync(e) PROVE IInv'
  <2>1. PICK n \in (seen[e] + 1)..Len(bsc) : seen' = [seen EXCEPT ![e] = n]
    BY <1>13 DEF Sync
  <2>2. /\ Len(bsc) \in 1..MaxBlocks /\ seen \in [Endpoints -> 1..MaxBlocks]
        /\ \A f \in Endpoints : seen[f] <= Len(bsc)
    BY ChainFacts, BscAssumption DEF IInv, BscTypeOK, SeenIsHistory
  <2>3. /\ seen' \in [Endpoints -> 1..MaxBlocks]
        /\ \A f \in Endpoints : seen'[f] <= Len(bsc) /\ seen[f] <= seen'[f]
    BY <2>1, <2>2, BscAssumption
  <2>4. BscTypeOK'
    BY <1>13, <2>3 DEF Sync, IInv, BscTypeOK, Urls, Honest, Reading, Asked
  <2>5. HeadsAreFinal'
    <3>1. SUFFICES ASSUME NEW f \in Endpoints, head[f] # 0, head[f] # 1
                   PROVE  head[f] <= seen'[f] - Confirmations
      BY <1>13 DEF Sync, SeenIsHistory, HeadsAreFinal, Settled
    <3>2. head[f] <= seen[f] - Confirmations
      BY <3>1 DEF IInv, SeenIsHistory, HeadsAreFinal, Settled
    <3> QED
      BY <2>2, <2>3, <3>2, BscAssumption DEF IInv, BscTypeOK
  <2> QED
    BY <1>13, <2>3, <2>4, <2>5
    DEF Sync, IInv, SeenIsHistory, HonestAnswersAreFinal, OnlyOneLies, FinalRate, RateIsFinal, LastFinal,
        Honest, Urls
<1>14. CASE BlocksArrive
  <2>1. PICK chain \in Blockchains :
           /\ Len(chain) >= Len(bsc)
           /\ \A b \in 1..LastFinal(bsc) : chain[b] = bsc[b]
           /\ bsc' = chain
    BY <1>14 DEF BlocksArrive
  <2>2. bsc \in Blockchains /\ LastFinal(bsc) <= LastFinal(bsc')
        /\ LastFinal(bsc) \in Nat /\ LastFinal(bsc') \in Nat
        /\ Len(bsc) \in Nat /\ Len(bsc') \in Nat
    BY <2>1, FinalityGrows, ChainFacts, BscAssumption DEF IInv, BscTypeOK
  <2>3. BscTypeOK'
    BY <1>14, <2>1, <2>2 DEF BlocksArrive, IInv, BscTypeOK, Urls, Honest, Reading, Asked
  <2>4. HonestAnswersAreFinal'
    BY <1>14, <2>1, <2>2 DEF BlocksArrive, IInv, HonestAnswersAreFinal, FinalRate, Honest
  <2>5. RateIsFinal'
    BY <1>14, <2>1, <2>2 DEF BlocksArrive, IInv, RateIsFinal
  <2>6. SeenIsHistory'
    BY <1>14, <2>1, <2>2 DEF BlocksArrive, IInv, BscTypeOK, SeenIsHistory
  <2> QED
    BY <1>14, <2>3, <2>4, <2>5, <2>6
    DEF BlocksArrive, IInv, HeadsAreFinal, Settled, OnlyOneLies, Urls
<1>15. CASE UNCHANGED vars
  BY <1>15
  DEF vars, IInv, BscTypeOK, SeenIsHistory, HeadsAreFinal, Settled, HonestAnswersAreFinal, OnlyOneLies,
      FinalRate, RateIsFinal, LastFinal, Honest, Urls, Reading, Asked
<1> QED
  BY <1>1, <1>2, <1>3, <1>4, <1>5, <1>6, <1>7, <1>8, <1>9, <1>10, <1>11, <1>12, <1>13, <1>14,
     <1>15
  DEF BscNext, ConsensusStep, ReadStep, RequestEnds

-----------------------------------------------------------------------------
(* Every variable keeps its type; a read asks a verified URL and no other.   *)
THEOREM BscTypeCorrect == BscSpec => []BscTypeOK
<1>1. BscInit => IInv
  BY InitIInv
<1>2. IInv /\ [BscNext]_vars => IInv'
  BY StepIInv
<1>3. IInv => BscTypeOK
  BY DEF IInv
<1> QED
  BY <1>1, <1>2, <1>3, PTL DEF BscSpec

(* run_with_evm_rpc_rate_consensus never accepts a rate that no final block  *)
(* of BSC stands for, with one endpoint at fault, for all parameters.        *)
THEOREM AcceptedRateIsFinal == BscSpec => []RateIsFinal
<1>1. BscInit => IInv
  BY InitIInv
<1>2. IInv /\ [BscNext]_vars => IInv'
  BY StepIInv
<1>3. IInv => RateIsFinal
  BY DEF IInv
<1> QED
  BY <1>1, <1>2, <1>3, PTL DEF BscSpec

-----------------------------------------------------------------------------
(* Two of three *)

(* The third URL is only asked when the first two have not agreed.           *)
ThirdBreaksTies == stage = "third" => ~Agree(1, 2)

LEMMA ThirdBreaksTiesStep ==
  IInv /\ ThirdBreaksTies /\ [BscNext]_vars => ThirdBreaksTies'
<1> SUFFICES ASSUME IInv, ThirdBreaksTies, [BscNext]_vars, stage' = "third"
             PROVE  ~Agree(1, 2)'
  BY DEF ThirdBreaksTies
<1> USE DEF endpoint_vars, bsc_vars, read_vars
<1>1. CASE AskThird
  BY <1>1 DEF AskThird, Agree
<1>2. CASE \E e \in Endpoints : CallVToken(e) \/ AnswerAnything(e) \/ RequestFails(e)
  <2>1. stage = "third"
    BY <1>2 DEF CallVToken, AnswerAnything, RequestFails
  <2>2. answer'[1] = answer[1] /\ answer'[2] = answer[2]
    BY <1>2, <2>1
    DEF CallVToken, AnswerAnything, RequestFails, Reading, Asked, IInv, BscTypeOK, Endpoints
  <2> QED
    BY <2>1, <2>2 DEF ThirdBreaksTies, Agree
<1>3. CASE \E e \in Endpoints : GetBlockNumber(e) \/ Sync(e)
  BY <1>3 DEF GetBlockNumber, Sync, ThirdBreaksTies, Agree
<1>4. CASE BlocksArrive \/ UNCHANGED vars
  BY <1>4 DEF BlocksArrive, vars, ThirdBreaksTies, Agree
<1>5. CASE VerifyUrl \/ Restart \/ BeginTick
  BY <1>5 DEF VerifyUrl, Restart, BeginTick
<1>6. CASE PairAgrees \/ NobodyToAsk \/ ThirdAnswered \/ TickTimesOut
  BY <1>6 DEF PairAgrees, NobodyToAsk, ThirdAnswered, TickTimesOut, Conclude
<1> QED
  BY <1>1, <1>2, <1>3, <1>4, <1>5, <1>6 DEF BscNext, ConsensusStep, ReadStep, RequestEnds

(* A tick accepts a rate on the word of two endpoints that agree, and does   *)
(* without one only when no two of them do.                                  *)
THEOREM ConsensusIsTwoOfThree == BscSpec => TwoOfThree
<1> DEFINE Agreed == {p \in Endpoints \X Endpoints : p[1] # p[2] /\ Agree(p[1], p[2])}
           Justified == result' # result =>
                          /\ result'.kind = "ok" => \E p \in Agreed : result' = answer[p[1]]
                          /\ result'.kind = "err" => Agreed = {}
<1>1. BscInit => IInv /\ ThirdBreaksTies
  BY InitIInv DEF BscInit, ThirdBreaksTies
<1>2. IInv /\ ThirdBreaksTies /\ [BscNext]_vars => (IInv /\ ThirdBreaksTies)'
  BY StepIInv, ThirdBreaksTiesStep
<1>3. IInv /\ ThirdBreaksTies /\ [BscNext]_vars => [Justified]_vars
  <2> SUFFICES ASSUME IInv, ThirdBreaksTies, [BscNext]_vars, result' # result
               PROVE  /\ result'.kind = "ok" => \E p \in Agreed : result' = answer[p[1]]
                      /\ result'.kind = "err" => Agreed = {}
    OBVIOUS
  <2>1. \A e, f \in Endpoints : Agree(e, f) => Agree(f, e)
    BY AgreementIsSymmetric, BscAssumption DEF Agree, IInv, BscTypeOK, Answers
  <2>2. Agreed = {} <=> ~Agree(1, 2) /\ ~Agree(1, 3) /\ ~Agree(2, 3)
    <3>1. \A p \in Agreed : /\ p[1] \in Endpoints /\ p[2] \in Endpoints
                           /\ p[1] # p[2] /\ Agree(p[1], p[2])
      OBVIOUS
    <3>2. Agreed # {} => Agree(1, 2) \/ Agree(1, 3) \/ Agree(2, 3)
      BY <2>1, <3>1 DEF Endpoints
    <3>3. /\ Agree(1, 2) => <<1, 2>> \in Agreed
          /\ Agree(1, 3) => <<1, 3>> \in Agreed
          /\ Agree(2, 3) => <<2, 3>> \in Agreed
      BY DEF Endpoints
    <3> HIDE DEF Agreed
    <3> QED
      BY <3>2, <3>3
  <2>3. CASE PairAgrees
    <3>1. <<1, 2>> \in Agreed /\ result' = answer[1] /\ answer[1].kind = "ok"
      BY <2>3 DEF PairAgrees, Conclude, Agree, Endpoints
    <3> QED
      BY <3>1
  <2>4. CASE NobodyToAsk
    <3>1. ~Agree(1, 3) /\ ~Agree(2, 3)
      BY <2>4, BscAssumption
      DEF NobodyToAsk, Agree, IInv, BscTypeOK, Urls, Endpoints, Pending
    <3> QED
      BY <2>2, <2>4, <3>1 DEF NobodyToAsk, Conclude, Failed
  <2>5. CASE ThirdAnswered
    <3>1. ~Agree(1, 2) /\ result' = TieBreak
      BY <2>5 DEF ThirdAnswered, Conclude, ThirdBreaksTies
    <3>2. CASE Agree(1, 3)
      <4>1. <<1, 3>> \in Agreed /\ result' = answer[1] /\ answer[1].kind = "ok"
        BY <3>1, <3>2 DEF TieBreak, Agree, Endpoints
      <4> QED
        BY <4>1
    <3>3. CASE ~Agree(1, 3) /\ Agree(2, 3)
      <4>1. <<2, 3>> \in Agreed /\ result' = answer[2] /\ answer[2].kind = "ok"
        BY <3>1, <3>3 DEF TieBreak, Agree, Endpoints
      <4> QED
        BY <4>1
    <3>4. CASE ~Agree(1, 3) /\ ~Agree(2, 3)
      BY <2>2, <3>1, <3>4 DEF TieBreak, Failed
    <3> QED
      BY <3>2, <3>3, <3>4
  <2>6. CASE TickTimesOut \/ Restart \/ BeginTick
    BY <2>6 DEF TickTimesOut, Conclude, Restart, BeginTick, Pending
  <2>7. CASE VerifyUrl \/ AskThird \/ BlocksArrive \/ UNCHANGED vars
    BY <2>7 DEF VerifyUrl, AskThird, BlocksArrive, vars
  <2>8. CASE \E e \in Endpoints : ReadStep(e) \/ Sync(e)
    BY <2>8
    DEF ReadStep, RequestEnds, GetBlockNumber, CallVToken, AnswerAnything, RequestFails, Sync
  <2> QED
    BY <2>3, <2>4, <2>5, <2>6, <2>7, <2>8 DEF BscNext, ConsensusStep
<1> QED
  BY <1>1, <1>2, <1>3, PTL DEF BscSpec, TwoOfThree

-----------------------------------------------------------------------------
(* A read ends *)

(* A request that ends leaves its endpoint fewer, and the others theirs.     *)
LEMMA ReadStepWindsDown ==
  ASSUME BscTypeOK, NEW e \in Endpoints, ReadStep(e)
  PROVE  WorkLeft' < WorkLeft
<1> USE DEF endpoint_vars, bsc_vars, read_vars
<1>1. e \in Asked /\ answer[e] = Pending /\ stage' = stage
  BY DEF ReadStep, RequestEnds, GetBlockNumber, CallVToken, RequestFails, AnswerAnything, Reading
<1>2. \A f \in Endpoints \ {e} : answer'[f] = answer[f] /\ head'[f] = head[f]
  BY DEF ReadStep, RequestEnds, GetBlockNumber, CallVToken, RequestFails, AnswerAnything, BscTypeOK
<1>3. Requests(e)' < Requests(e)
  <2>1. CASE GetBlockNumber(e)
    <3>1. PICK chain \in Blockchains : head' = [head EXCEPT ![e] = ConfirmedBlock(Len(chain))]
      BY <2>1 DEF GetBlockNumber, NodeChains
    <3>2. ConfirmedBlock(Len(chain)) # 0
      BY ChainFacts, BscAssumption DEF ConfirmedBlock
    <3>3. head[e] = 0 /\ head'[e] # 0 /\ answer'[e] = Pending
      BY <1>1, <2>1, <3>1, <3>2 DEF GetBlockNumber, BscTypeOK
    <3> QED
      BY <1>1, <3>3 DEF Requests
  <2>2. CASE CallVToken(e) \/ RequestFails(e) \/ AnswerAnything(e)
    <3>1. answer'[e] # Pending
      BY <2>2 DEF CallVToken, RequestFails, AnswerAnything, BscTypeOK, Pending, Ok, Failed
    <3> QED
      BY <1>1, <3>1 DEF Requests
  <2> QED
    BY <2>1, <2>2 DEF ReadStep, RequestEnds
<1>4. \A f \in Endpoints \ {e} : Requests(f)' = Requests(f)
  BY <1>2 DEF Requests
<1>5. /\ Requests(1)' \in Int /\ Requests(2)' \in Int /\ Requests(3)' \in Int
      /\ Requests(1) \in Int /\ Requests(2) \in Int /\ Requests(3) \in Int
  BY DEF Requests
<1>6. CASE stage = "pair"
  <2>1. e = 1 \/ e = 2
    BY <1>1, <1>6 DEF Asked
  <2>2. \A f \in {1, 2} : f # e => Requests(f)' = Requests(f)
    BY <1>4 DEF Endpoints
  <2>3. WorkLeft = Requests(1) + Requests(2) + 4 /\ WorkLeft' = Requests(1)' + Requests(2)' + 4
    BY <1>1, <1>6 DEF WorkLeft
  <2>4. \A a, b, c, d \in Int : (c < a /\ d = b) \/ (c = a /\ d < b) => c + d + 4 < a + b + 4
    OBVIOUS
  <2>5. \/ Requests(1)' < Requests(1) /\ Requests(2)' = Requests(2)
        \/ Requests(1)' = Requests(1) /\ Requests(2)' < Requests(2)
    BY <1>3, <2>1, <2>2
  <2> QED
    BY <1>5, <2>3, <2>4, <2>5
<1>7. CASE stage = "third"
  <2>1. e = 3
    BY <1>1, <1>7 DEF Asked
  <2>2. WorkLeft = Requests(3) + 1 /\ WorkLeft' = Requests(3)' + 1
    BY <1>1, <1>7 DEF WorkLeft
  <2>3. \A a, c \in Int : c < a => c + 1 < a + 1
    OBVIOUS
  <2> QED
    BY <1>3, <1>5, <2>1, <2>2, <2>3
<1> QED
  BY <1>1, <1>6, <1>7 DEF Asked

(* What is left is counted in natural numbers, so it cannot fall for ever.   *)
LEMMA WorkIsNat == WorkLeft \in Nat /\ WorkLeft' \in Nat
<1>1. /\ Requests(1)' \in Nat /\ Requests(2)' \in Nat /\ Requests(3)' \in Nat
      /\ Requests(1) \in Nat /\ Requests(2) \in Nat /\ Requests(3) \in Nat
  BY DEF Requests
<1> QED
  BY <1>1 DEF WorkLeft

(* The consensus decides, or turns to the one URL that is left.              *)
LEMMA ConsensusWindsDown ==
  ASSUME ConsensusStep
  PROVE  WorkLeft' < WorkLeft
<1>1. CASE AskThird
  <2>1. /\ WorkLeft = Requests(1) + Requests(2) + 4 /\ WorkLeft' = Requests(3)' + 1
        /\ Requests(1) = 0 /\ Requests(2) = 0
    BY <1>1 DEF AskThird, PairAnswered, WorkLeft, Requests
  <2>2. Requests(3)' \in 0..2
    BY DEF Requests
  <2> QED
    BY <2>1, <2>2
<1>2. CASE PairAgrees \/ NobodyToAsk \/ ThirdAnswered
  <2>1. stage' = "idle" /\ stage \in {"pair", "third"}
    BY <1>2 DEF PairAgrees, NobodyToAsk, ThirdAnswered, PairAnswered, Conclude
  <2>2. WorkLeft' = 0
    BY <2>1 DEF WorkLeft
  <2>3. /\ Requests(1) \in Nat /\ Requests(2) \in Nat /\ Requests(3) \in Nat
    BY DEF Requests
  <2>4. WorkLeft > 0
    BY <2>1, <2>3 DEF WorkLeft
  <2> QED
    BY <2>2, <2>4
<1> QED
  BY <1>1, <1>2 DEF ConsensusStep

(* What ReadConcludes rests on besides fairness: no read goes round in       *)
(* circles, for any number of URLs and whatever they answer.                 *)
THEOREM EveryReadWindsDown == BscSpec => ReadsWindDown
<1>1. BscTypeOK /\ [BscNext]_vars =>
        [/\ ConsensusStep \/ (\E e \in Endpoints : ReadStep(e)) => WorkLeft' < WorkLeft
         /\ WorkLeft' > WorkLeft => BeginTick /\ WorkLeft' <= 8]_vars
  <2> SUFFICES ASSUME BscTypeOK, BscNext
               PROVE  /\ ConsensusStep \/ (\E e \in Endpoints : ReadStep(e)) => WorkLeft' < WorkLeft
                      /\ WorkLeft' > WorkLeft => BeginTick /\ WorkLeft' <= 8
    OBVIOUS
  <2>1. WorkLeft \in Nat /\ WorkLeft' \in Nat
    BY WorkIsNat
  <2>2. ConsensusStep \/ (\E e \in Endpoints : ReadStep(e)) => WorkLeft' < WorkLeft
    BY ReadStepWindsDown, ConsensusWindsDown
  <2>3. ASSUME BlocksArrive \/ \E e \in Endpoints : Sync(e)
        PROVE  WorkLeft' = WorkLeft
    BY <2>3 DEF BlocksArrive, Sync, read_vars, WorkLeft, Requests
  <2>4. ASSUME VerifyUrl \/ Restart \/ TickTimesOut
        PROVE  WorkLeft' = 0
    BY <2>4 DEF VerifyUrl, Restart, TickTimesOut, Conclude, WorkLeft
  <2>5. ASSUME BeginTick
        PROVE  WorkLeft' <= 8
    <3>1. WorkLeft' = Requests(1)' + Requests(2)' + 4
      BY <2>5 DEF BeginTick, WorkLeft
    <3>2. Requests(1)' \in 0..2 /\ Requests(2)' \in 0..2
      BY DEF Requests
    <3> QED
      BY <3>1, <3>2
  <2> QED
    BY <2>1, <2>2, <2>3, <2>4, <2>5 DEF BscNext
<1> QED
  BY <1>1, BscTypeCorrect, PTL DEF BscSpec, ReadsWindDown
=============================================================================
