-------------------------- MODULE MCConfigManager --------------------------
(* Instances of ConfigManager for TLC. *)
EXTENDS ConfigManager, TLC

CONSTANTS w1, w2, w3

WriterSymmetry == Permutations({w1, w2, w3})
=============================================================================
