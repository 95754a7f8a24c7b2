---------------------------- MODULE MCNativeWrap ----------------------------
(* Instance of NativeWrapHistory for TLC: two denominations, the wrapped     *)
(* token of the second with other minters as well; an amount that a fee of   *)
(* one half rounds, a fee that takes all of it, one that is refused, two     *)
(* limits governance moves between.                                          *)
EXTENDS NativeWrapHistory

MCStartTimes == {1}
MCAmounts == {0, 3}
MCFees == {0, 1, 2, 3}
MCLimits == {1, 3}
=============================================================================
