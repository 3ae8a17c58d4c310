---------------------------- MODULE MCBanTools -----------------------------
(* Instances of BanTools for TLC.                                          *)
EXTENDS BanTools, TLC

\* Requests are interchangeable.
RequestSymmetry == Permutations(Requests)
=============================================================================
