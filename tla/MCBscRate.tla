----------------------------- MODULE MCBscRate -----------------------------
(* An instance of BscRate for TLC.  Mantissas convert, with a remainder, to  *)
(* 4 and 6, which disagree; an endpoint that answers 5 agrees with both.     *)
EXTENDS BscRate

MCUrlCounts == {2, 3}
MCMantissas == {9, 12}
MCOtherRates == {0, 5}
=============================================================================
