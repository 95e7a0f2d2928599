-------------------------- MODULE MCCircuitBreaker --------------------------
(***************************************************************************)
(* CircuitBreaker with three callers, one of them with a POST.              *)
(***************************************************************************)
EXTENDS CircuitBreaker

CONSTANTS c1, c2, c3

MCmaxRetries == [s \in Side |-> IF s = "producer" THEN 2 ELSE 1]
MCConditions == [s \in Side |-> IF s = "producer" THEN {"up", "down"}
                                ELSE {"up", "down", "failing", "hung"}]
=============================================================================
