---------------------------- MODULE MCTotpLogin ----------------------------
(* Instances of TotpLogin for TLC.                                         *)
EXTENDS TotpLogin, TLC

AnyOrder == Permutations(Requests)
=============================================================================
