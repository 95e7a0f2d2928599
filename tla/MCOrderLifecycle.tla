-------------------------- MODULE MCOrderLifecycle --------------------------
(***************************************************************************)
(* OrderLifecycle with two or three orders; one definition of the faults    *)
(* for each question asked of it.                                           *)
(***************************************************************************)
EXTENDS OrderLifecycle

CONSTANTS o1, o2, o3

MCOrders == {o1, o2, o3}

\* One order that two others fill, one after the other.
MCTwoFills == {<<o1, "buy", 2>>, <<o2, "sell", 1>>, <<o3, "sell", 1>>}

\* The same, or that one order is rejected.
MCFillsOrReject == MCTwoFills \cup {<<o1, "buy", 0>>}

MCBuyer == {o1}

\* Any two orders.
MCTradedPair == {o1, o2} \X Side \X {1, 2}

MCEveryFault == [kind \in FaultKind |-> 1]

MCOnly(kinds) == [kind \in FaultKind |-> IF kind \in kinds THEN 1 ELSE 0]
MCNoFault == MCOnly({})
MCRestart == MCOnly({"engineRestart"})
MCDelays == MCOnly({"failedCommit", "repeatedPublish", "indexerRestart"})
=============================================================================
