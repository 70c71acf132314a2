----------------------------- MODULE MCAuthTokens -----------------------------
(* Instances of AuthTokens for TLC. *)
EXTENDS AuthTokens, TLC

Symmetry == Permutations(Handlers) \cup Permutations(Tokens \ (Bearers \cup Lapsing)) \cup Permutations(Names)
===============================================================================
