------------------------------ MODULE BookDefs ------------------------------
(***************************************************************************)
(* What an order of one market's book is, and the two relations the        *)
(* matching loop of matching-engine/internal/orderbook/book.go is made of:  *)
(* when an incoming order crosses a resting one, and which of two resting   *)
(* orders the sort puts first.  The code writes each twice, once per        *)
(* branch of "switch in.Side"; here the side is a parameter.                *)
(***************************************************************************)
EXTENDS Integers

CONSTANTS
    Entry,  \* order objects: what the []*Order slices of the book point to
    Id,     \* order identifiers; two objects may carry the same one
    Price,  \* prices an order can carry
    Size,   \* sizes an order can carry
    Time    \* values of CreatedAt

\* Decimals are compared and subtracted exactly, so integers stand for them;
\* CreatedAt is only compared.
ASSUME DataAssumption ==
    /\ Price \subseteq Int
    /\ Size \subseteq Int
    /\ Time \subseteq Int

Side == {"buy", "sell"}

Opposite(side) == IF side = "buy" THEN "sell" ELSE "buy"

\* The orders that can be asked for: orderbook.Order without Remaining, which
\* changes and is kept apart, and without the names of the user and market.
OrderRecord == [id : Id, side : Side, price : Price, size : Size, time : Time]

\* The negation of the loop's price test: a buy at p meets an ask at q.
PricesCross(side, p, q) == IF side = "buy" THEN p >= q ELSE p <= q

\* The less function given to sort.Slice, for the slice that holds makers of
\* side "side": cheaper asks first, dearer bids first, then the older.
Before(side, x, y) ==
    \/ IF side = "sell" THEN x.price < y.price ELSE x.price > y.price
    \/ x.price = y.price /\ x.time < y.time

\* The function f extended to x, or changed there.
With(f, x, value) ==
    [y \in DOMAIN f \cup {x} |-> IF y = x THEN value ELSE f[y]]

Smaller(x, y) == IF x <= y THEN x ELSE y
=============================================================================
