-------------------------- MODULE MCOrderRequests --------------------------
(***************************************************************************)
(* OrderRequests with two orders to submit, one of them without a key, or   *)
(* three to cancel, whose fees together exceed what the user has, or one of *)
(* each and two failures.                                                   *)
(***************************************************************************)
EXTENDS OrderRequests, TLC

CONSTANTS p1, p2, p3, d1, d2, d3, o1, o2, o3

MCTarget == d1 :> o1 @@ d2 :> o2 @@ d3 :> o3
MCFee == o1 :> 2 @@ o2 :> 3 @@ o3 :> 1
MCCases == {[ops |-> {p1, p2, p3}, drops |-> 2, failures |-> 1],
            [ops |-> {d1, d2}, drops |-> 2, failures |-> 1],
            [ops |-> {p1, d1}, drops |-> 1, failures |-> 2],
            [ops |-> {d1, d2, d3}, drops |-> 1, failures |-> 0]}
=============================================================================
