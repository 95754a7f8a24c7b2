--------------------------- MODULE MCContractTests ---------------------------
(* The suites at one unit per 100 base units.  MaxU128 stands for Uint128::MAX *)
(* and is what TLC's integers hold.                                            *)
EXTENDS ContractTests

MCRates == {100}
MCStartTimes == {1}
MCNoAmounts == {}
MCFees == {2}
MCLimits == {10000000, 100000000}
MCMaxAges == {6}
MCUsers == {User}
=============================================================================
