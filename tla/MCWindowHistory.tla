-------------------------- MODULE MCWindowHistory --------------------------
(* Instances of WindowHistory for TLC: one user, the rate fixed at 1 so that *)
(* amounts are notionals, two limits governance moves between.               *)
EXTENDS WindowHistory

MCRates == {2}
MCStartTimes == {1}
MCAmounts == 0..2
MCFees == {0}
MCLimits == {1, 2}
MCMaxAges == {9}
=============================================================================
