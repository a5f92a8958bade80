---------------------------- MODULE MCConfigFile ----------------------------
(* Two init and two set-credential commands, interchangeable among themselves. *)
EXTENDS ConfigFile, TLC

ProcSymmetry == Permutations(Inits) \cup Permutations(Setters)
=============================================================================
