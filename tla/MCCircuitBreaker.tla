-------------------------- MODULE MCCircuitBreaker --------------------------
(* Small instances of CircuitBreaker: three callers of one provider. *)
EXTENDS CircuitBreaker, TLC

CallerSymmetry == Permutations(AgentCallers) \union Permutations(ReviewCallers)
=============================================================================
