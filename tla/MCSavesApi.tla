------------------------------ MODULE MCSavesApi ------------------------------
(* Instances of SavesApi for TLC. *)
EXTENDS SavesApi, TLC

Symmetry == Permutations(Handlers) \cup Permutations(Contents)
===============================================================================
