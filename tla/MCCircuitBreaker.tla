-------------------------- MODULE MCCircuitBreaker --------------------------
EXTENDS CircuitBreaker

CONSTANTS c1, c2

=============================================================================
