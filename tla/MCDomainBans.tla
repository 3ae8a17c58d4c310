---------------------------- MODULE MCDomainBans ----------------------------
(* Instances of DomainBans for TLC.                                        *)
EXTENDS DomainBans, TLC

\* Requests are interchangeable (not used with the liveness properties).
RequestSymmetry == Permutations(Requests)
=============================================================================
