------------------------------ MODULE MCWindow ------------------------------
(* Instances of Ust1Window and ContractErrors for TLC, with rates from 1 to 2 *)
(* in halves.                                                                *)
(* MCWindow.cfg: small amounts, fees of 0, 1/4 and one that is refused.      *)
(* MCWindowOpen.cfg: a fee of 1/2, amounts that outgrow the roundings and    *)
(* products that leave Uint128.                                              *)
EXTENDS ContractErrors, TLC

MCRates == 2..4
MCStartTimes == {3}
MCAmounts == 0..3
MCFees == {0, 1, 5}
MCLimits == {3}
MCLargeAmounts == {0, 5, 12}
MCLargeFees == {0, 2}
MCLargeLimits == {24}
MCMaxAges == {0, 3}
MCOneMaxAge == {3}
Symmetry == Permutations(Users)
=============================================================================
