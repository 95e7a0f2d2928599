----------------------------- MODULE MCOrderBook -----------------------------
(***************************************************************************)
(* OrderBook with three orders, two positive prices and one that is not,     *)
(* and sizes that fill exactly, partly and not at all.                      *)
(***************************************************************************)
EXTENDS OrderBook, TLC

CONSTANTS e1, e2, e3, i1, i2

MCEntry == {e1, e2, e3}
MCId == {i1, i2}
MCPrice == {0, 1, 2}
MCSize == {0, 1, 2}
MCTime == {1, 2}

MCSymmetry == Permutations(MCEntry) \cup Permutations(MCId)
=============================================================================
