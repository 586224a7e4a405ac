-------------------------- MODULE MCCircuitBreaker --------------------------
\* CircuitBreaker with interchangeable callers.
EXTENDS CircuitBreaker, TLC

CallerSymmetry == Permutations(Callers)
=============================================================================
