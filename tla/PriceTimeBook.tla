---------------------------- MODULE PriceTimeBook ----------------------------
(***************************************************************************)
(* What a price-time order book promises, with no slice, no sort and no     *)
(* loop: a set of resting orders, at most one incoming order, and trades    *)
(* that always take the best resting order the incoming one crosses.        *)
(* OrderBook.tla, the book as the code keeps it, implements this module.    *)
(***************************************************************************)
EXTENDS BookDefs, Sequences

VARIABLES
    open,      \* FALSE while the book is being restored
    order,     \* what each order object holds
    remaining, \* what is left of each
    used,      \* the objects allocated so far
    resting,   \* the orders on the book
    incoming,  \* the order being matched: empty or a singleton
    trades     \* the fills made so far, oldest first

vars == <<open, order, remaining, used, resting, incoming, trades>>

Init ==
    /\ open = FALSE
    /\ order = <<>>
    /\ remaining = <<>>
    /\ used = {}
    /\ resting = {}
    /\ incoming = {}
    /\ trades = <<>>

Allocate(e, o) ==
    /\ e \notin used
    /\ o.size > 0
    /\ used' = used \cup {e}
    /\ order' = With(order, e, o)
    /\ remaining' = With(remaining, e, o.size)

\* An order that was resting before the restart comes back unmatched.
Restore(e, o) ==
    /\ ~open
    /\ Allocate(e, o)
    /\ resting' = resting \cup {e}
    /\ UNCHANGED <<open, incoming, trades>>

Open ==
    /\ ~open
    /\ open' = TRUE
    /\ UNCHANGED <<order, remaining, used, resting, incoming, trades>>

Submit(e, o) ==
    /\ open
    /\ incoming = {}
    /\ o.price > 0
    /\ Allocate(e, o)
    /\ incoming' = {e}
    /\ UNCHANGED <<open, resting, trades>>

\* The resting orders that taker t meets, and the best of them.
Makers(t) ==
    {m \in resting : /\ order[m].side = Opposite(order[t].side)
                     /\ PricesCross(order[t].side, order[t].price, order[m].price)}

Best(t) ==
    {m \in Makers(t) :
        \A n \in Makers(t) : ~ Before(order[m].side, order[n], order[m])}

Trade(t, m) ==
    /\ incoming = {t}
    /\ remaining[t] > 0
    /\ m \in Best(t)
    /\ LET size == Smaller(remaining[t], remaining[m])
       IN  /\ remaining' = [remaining EXCEPT ![t] = @ - size, ![m] = @ - size]
           /\ trades' = Append(trades, [maker |-> m, taker |-> t,
                                        price |-> order[m].price, size |-> size,
                                        makerRemaining |-> remaining[m] - size,
                                        takerRemaining |-> remaining[t] - size])
    /\ resting' = resting \ {x \in {m} : remaining'[x] = 0}
    /\ UNCHANGED <<open, order, used, incoming>>

\* The incoming order is exhausted, or nothing on the book meets it and what
\* is left of it rests.
Settle(t) ==
    /\ incoming = {t}
    /\ remaining[t] = 0 \/ Makers(t) = {}
    /\ resting' = IF remaining[t] > 0 THEN resting \cup {t} ELSE resting
    /\ incoming' = {}
    /\ UNCHANGED <<open, order, remaining, used, trades>>

Cancel(e) ==
    /\ open
    /\ incoming = {}
    /\ e \in resting
    /\ resting' = resting \ {e}
    /\ UNCHANGED <<open, order, remaining, used, incoming, trades>>

Next ==
    \/ Open
    \/ \E e \in Entry, o \in OrderRecord : Restore(e, o) \/ Submit(e, o)
    \/ \E t, m \in Entry : Trade(t, m)
    \/ \E e \in Entry : Settle(e) \/ Cancel(e)

Spec == Init /\ [][Next]_vars
=============================================================================
