----------------------------- MODULE MCCloudSaves -----------------------------
(* Instances of CloudSaves for TLC. *)
EXTENDS CloudSaves, TLC

Symmetry == Permutations(Handlers) \cup Permutations(Contents) \cup Permutations(Devices)
===============================================================================
