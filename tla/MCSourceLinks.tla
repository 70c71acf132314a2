---------------------------- MODULE MCSourceLinks -----------------------------
(* Instances of SourceLinks for TLC. *)
EXTENDS SourceLinks, TLC

CONSTANTS me, you, a, b

Symmetry == Permutations(Handlers)
===============================================================================
