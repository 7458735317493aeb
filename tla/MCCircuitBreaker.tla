-------------------------- MODULE MCCircuitBreaker --------------------------
(* Two tasks share the breaker.                                            *)
EXTENDS CircuitBreaker
=============================================================================
