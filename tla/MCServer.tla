------------------------------ MODULE MCServer ------------------------------
(* Two replicas, as both deployments have, and one request more than a      *)
(* container has handlers for.                                              *)
EXTENDS Server, TLC

CONSTANTS r1, r2, q1, q2

MCReplicas == {r1, r2}
MCRequests == {q1, q2}
=============================================================================
