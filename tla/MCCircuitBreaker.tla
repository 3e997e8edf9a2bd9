-------------------------- MODULE MCCircuitBreaker --------------------------
(* A few tasks sharing one breaker. *)
EXTENDS CircuitBreaker

CONSTANTS task1, task2, task3, task4

CallerSet == {task1, task2, task3, task4}
=============================================================================
