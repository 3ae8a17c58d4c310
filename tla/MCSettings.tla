----------------------------- MODULE MCSettings -----------------------------
(* Instances of Settings for TLC.                                          *)
EXTENDS Settings, TLC

\* A read is complete, or it misses all keys, or it breaks off after one.
SomeReads == {Keys, {}, {"rotation"}}

Slots == Permutations(Writers) \cup Permutations(Reloads)
=============================================================================
