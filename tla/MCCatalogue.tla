---------------------------- MODULE MCCatalogue -----------------------------
(* Instances of Catalogue for TLC.                                         *)
EXTENDS Catalogue
=============================================================================
