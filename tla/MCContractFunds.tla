--------------------------- MODULE MCContractFunds --------------------------
(***************************************************************************)
(* A small contract for TLC: two accounts, of which one is a guardian, and *)
(* the vectors, amounts and rates that the code must refuse among those it *)
(* is offered.                                                             *)
(***************************************************************************)
EXTENDS ContractFunds

CONSTANTS a1, a2, zero

MCGuardianLists == {<<a1>>}
MCAdminLists == {<<a1, a2>>, <<a1, a1>>, <<a1, zero>>}
MCMinusOne == -1
MCOutflowAmounts == {0, 1}
MCFeeAmounts == {MCMinusOne, 1, 3, 4, 7}

=============================================================================
