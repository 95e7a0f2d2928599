----------------------------- MODULE MCBookRace -----------------------------
(***************************************************************************)
(* Three asks and a bid at rest, two buys and a sell coming in, and four    *)
(* cancellations: two makers, the resting bid and a buy that may rest.      *)
(***************************************************************************)
EXTENDS BookRace

CONSTANTS a1, a2, a3, b1, t1, t2, t3

MCEntry == {a1, a2, a3, b1, t1, t2, t3}
MCId == MCEntry
MCPrice == {1, 2}
MCSize == {1, 2}
MCTime == 1..4

Is(e, side, price, size, time) ==
    [id |-> e, side |-> side, price |-> price, size |-> size, time |-> time]

MCObject ==
    [e \in MCEntry |->
        CASE e = a1 -> Is(e, "sell", 2, 1, 1)
          [] e = a2 -> Is(e, "sell", 2, 2, 2)
          [] e = a3 -> Is(e, "sell", 2, 1, 3)
          [] e = b1 -> Is(e, "buy", 1, 1, 1)
          [] e = t1 -> Is(e, "buy", 2, 2, 4)
          [] e = t2 -> Is(e, "buy", 1, 1, 4)
          [] e = t3 -> Is(e, "sell", 1, 2, 4)]

MCAtRest == [side \in Side |-> IF side = "buy" THEN <<b1>> ELSE <<a1, a2, a3>>]
MCArrivals == <<t1, t2, t3>>
MCToCancel == {a2, a3, b1, t2}
MCAddress == 1..6
=============================================================================
