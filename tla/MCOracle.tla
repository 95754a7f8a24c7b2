------------------------------ MODULE MCOracle ------------------------------
(* Instance of OracleHistory for TLC: an interval of 2 blocks, a day of 5    *)
(* (so updates fall at both sides of a rollover and twice in a day), a cap   *)
(* of +50% and rates whose cap arithmetic overflows at the top.              *)
EXTENDS OracleHistory, TLC

MCRates == 0..6
MCStartTimes == {1, 4}
Symmetry == Permutations(Addr)
=============================================================================
