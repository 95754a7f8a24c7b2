----------------------------- MODULE MCTerraTx -----------------------------
(* An instance of TerraTx for TLC.  Transactions tell of up to two           *)
(* executions: of the oracle or another contract, an update or another       *)
(* action, with the right rate, another one, both or none.                   *)
EXTENDS TerraTx

MCRates == {2}
MCStartTimes == {1}
MCSkews == {0}

MCExecution ==
  {[contract |-> OracleAddr, action |-> "update_rate", rates |-> r] :
     r \in {<<>>, <<2>>, <<3>>, <<2, 3>>}}
  \cup {[contract |-> OracleAddr, action |-> "other", rates |-> <<2>>],
        [contract |-> OtherAddr, action |-> "update_rate", rates |-> <<2>>]}
MCExecutions == UNION {[1..n -> MCExecution] : n \in 0..2}
=============================================================================
