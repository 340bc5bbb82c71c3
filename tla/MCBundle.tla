------------------------------ MODULE MCBundle ------------------------------
(* Two bundles at a time of three models: one with dependencies and remote  *)
(* code of its own, one without dependencies whose code is not in its       *)
(* snapshot, and one no pre-load can load whose code is in another          *)
(* repository.                                                              *)
EXTENDS Bundle, TLC

CONSTANTS b1, b2, d1, small, plain, colbert, shared

MCRefers == small :> {small} @@ plain :> {plain} @@ colbert :> {shared}
MCPorts  == <<8080, 8081>>

TwoBuilds == Permutations({b1, b2})
=============================================================================
