------------------------------ MODULE MCWallet ------------------------------
(***************************************************************************)
(* Wallets of a few drivers, sums of a few so'm, and rates below, within   *)
(* and above the range a commission can have.                              *)
(***************************************************************************)
EXTENDS Wallet, TLC

MCAmounts == {-1, 2}
MCFares == {-1, 3}
MCRates == {-5000, 5000, 20000}

Symmetry == Permutations(Drivers) \cup Permutations(Slots)
=============================================================================
