----------------------------- MODULE MCAuthTokens -----------------------------
(* Instances of AuthTokens for TLC.                                            *)
EXTENDS AuthTokens, TLC

TokenCallSymmetry == Permutations(Tokens) \cup Permutations(Calls)
=============================================================================
