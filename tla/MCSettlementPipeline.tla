------------------------ MODULE MCSettlementPipeline ------------------------
(***************************************************************************)
(* SettlementPipeline with two trades.                                      *)
(***************************************************************************)
EXTENDS SettlementPipeline

CONSTANTS t1, t2

MCMatched == <<t1, t2>>

\* Settlement feeds the others, which meet only in the table trades.
MCCases == {[readers |-> {"settlement", "orders", "trades"}, faults |-> 1],
            [readers |-> {"settlement", "balances"}, faults |-> 2],
            [readers |-> {"settlement", "eventlog"}, faults |-> 2]}
=============================================================================
