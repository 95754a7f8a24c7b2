----------------------------- MODULE MCWindowTx -----------------------------
(* Instance of WindowTx for TLC: every hook on both tokens, min_vfdusd_out   *)
(* above and below what is paid, limits that refuse some swaps.              *)
EXTENDS WindowTx

MCRates == {2, 3}
MCStartTimes == {2}
MCAmounts == 0..2
MCFees == {0, 1}
MCLimits == {3}
MCMaxAges == {2}
MCStranded == 0..1
=============================================================================
