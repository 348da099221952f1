------------------------------ MODULE MCGateway ------------------------------
(* GatewayConfig for TLC: tokens, callers and editors are interchangeable.   *)
EXTENDS GatewayConfig, TLC

Interchangeable == Permutations(Token) \cup Permutations(Caller) \cup Permutations(Editor)
==============================================================================
