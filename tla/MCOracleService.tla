-------------------------- MODULE MCOracleService --------------------------
(* Instances of OracleService for TLC.  MCOracleService.cfg: short timers, a *)
(* second operator and everything that can go wrong.  MCOneMissedTick.cfg:   *)
(* timers in the proportions of the defaults, ten minutes to a unit.         *)
EXTENDS OracleService

MCRates == {2}
MCStartTimes == {1}
MCNoSkew == {0}
MCSkews == {-1, 0}
=============================================================================
