------------------------------ MODULE OrderBook ------------------------------
(***************************************************************************)
(* One market's book as matching-engine/internal/orderbook/book.go keeps    *)
(* it: a slice of bids and a slice of asks, in the order they were          *)
(* appended, sorted only when an incoming order is about to walk them.      *)
(*                                                                         *)
(* MatchIncoming is several steps here: the sort, one step per iteration of *)
(* the range loop, and the end (prune, then Add).  Restored orders are      *)
(* appended without being matched, before any message is consumed.          *)
(* A Cancel comes between two calls of MatchIncoming; the code does not     *)
(* force that, and what happens when the two overlap is BookRace.tla.       *)
(***************************************************************************)
EXTENDS BookDefs, Sequences, SequencesExt

CONSTANT NoEntry  \* the absence of an order object

ASSUME NoEntryAssumption == NoEntry \notin Entry

VARIABLES
    order,     \* what each object holds, fixed when it is allocated
    remaining, \* its field Remaining
    used,      \* the objects allocated so far
    book,      \* book["buy"] is b.bids, book["sell"] is b.asks
    pc,        \* "restore", then "idle" or, inside MatchIncoming, "match"
    taker,     \* the parameter "in" of MatchIncoming
    index,     \* the loop's position in the opposite slice
    trades,    \* the fills of every call so far, oldest first
    restored   \* history: the objects RestoreOrder put on the book

vars == <<order, remaining, used, book, pc, taker, index, trades, restored>>

Init ==
    /\ order = <<>>
    /\ remaining = <<>>
    /\ used = {}
    /\ book = [side \in Side |-> <<>>]
    /\ pc = "restore"
    /\ taker = NoEntry
    /\ index = 1
    /\ trades = <<>>
    /\ restored = {}

Allocate(e, o) ==
    /\ e \notin used
    /\ used' = used \cup {e}
    /\ order' = With(order, e, o)
    /\ remaining' = With(remaining, e, o.size)

\* The slice after b.Add(e).
Added(e, side) == [book EXCEPT ![side] = Append(@, e)]

\* RestoreOrder: an order with nothing remaining is skipped, any price goes.
Restore(e, o) ==
    /\ pc = "restore"
    /\ o.size > 0
    /\ Allocate(e, o)
    /\ book' = Added(e, o.side)
    /\ restored' = restored \cup {e}
    /\ UNCHANGED <<pc, taker, index, trades>>

\* restoreFromDB has returned and the two consumers start.
StartConsumers ==
    /\ pc = "restore"
    /\ pc' = "idle"
    /\ UNCHANGED <<order, remaining, used, book, taker, index, trades, restored>>

\* Seeded fault for Sorted: CreatedAt is not compared.
SortedByPriceOnly(side, s) ==
    \A i, j \in DOMAIN s :
        i < j => ~ Before(side, [order[s[j]] EXCEPT !.time = 0],
                                [order[s[i]] EXCEPT !.time = 0])

\* What sort.Slice may leave: a rearrangement in which no element comes
\* before the one in front of it.  The sort is not stable, so two orders
\* with the same price and time may end up either way round.
Sorted(side, s) ==
    \A i, j \in DOMAIN s : i < j => ~ Before(side, order[s[j]], order[s[i]])

Arrangements(s) ==
    {[i \in DOMAIN s |-> s[p[i]]] : p \in Bijection(DOMAIN s, DOMAIN s)}

\* ProcessCreated passes its checks and MatchIncoming sorts the other side.
BeginMatch(e, o) ==
    /\ pc = "idle"
    /\ o.price > 0 /\ o.size > 0
    /\ Allocate(e, o)
    /\ taker' = e
    /\ index' = 1
    /\ pc' = "match"
    /\ \E s \in Arrangements(book[Opposite(o.side)]) :
        /\ Sorted(Opposite(o.side), s)
        /\ book' = [book EXCEPT ![Opposite(o.side)] = s]
    /\ UNCHANGED <<trades, restored>>

MakerSide == Opposite(order[taker].side)

\* Seeded fault for LoopGoesOn: equal prices do not meet.
LoopGoesOnStrictly ==
    /\ index <= Len(book[MakerSide])
    /\ remaining[taker] > 0
    /\ PricesCross(order[taker].side, order[taker].price,
                   order[book[MakerSide][index]].price)
    /\ order[taker].price # order[book[MakerSide][index]].price

\* The loop has an element to look at and takes neither of its two breaks.
LoopGoesOn ==
    /\ index <= Len(book[MakerSide])
    /\ remaining[taker] > 0
    /\ PricesCross(order[taker].side, order[taker].price,
                   order[book[MakerSide][index]].price)

\* Seeded fault for Iterate: the maker keeps what it had.
IterateTakerOnly ==
    /\ pc = "match"
    /\ LoopGoesOn
    /\ LET m == book[MakerSide][index]
           size == Smaller(remaining[taker], remaining[m])
       IN  /\ remaining' = [remaining EXCEPT ![taker] = @ - size]
           /\ trades' = Append(trades,
                [maker |-> m, taker |-> taker, price |-> order[m].price,
                 size |-> size, makerRemaining |-> remaining[m] - size,
                 takerRemaining |-> remaining[taker] - size])
    /\ index' = index + 1
    /\ UNCHANGED <<order, used, book, pc, taker, restored>>

\* One iteration.  A fill of zero is the "continue": it changes nothing.
Iterate ==
    /\ pc = "match"
    /\ LoopGoesOn
    /\ LET m == book[MakerSide][index]
           size == Smaller(remaining[taker], remaining[m])
           fill == [maker |-> m, taker |-> taker, price |-> order[m].price,
                    size |-> size, makerRemaining |-> remaining[m] - size,
                    takerRemaining |-> remaining[taker] - size]
       IN IF size > 0
          THEN /\ remaining' = [remaining EXCEPT ![taker] = @ - size, ![m] = @ - size]
               /\ trades' = Append(trades, fill)
          ELSE UNCHANGED <<remaining, trades>>
    /\ index' = index + 1
    /\ UNCHANGED <<order, used, book, pc, taker, restored>>

\* Seeded fault for Pruned: filled orders stay.
Unpruned(s) == {s}

\* pruneFilledOrders: the positions whose order still has something left, in
\* their order.  The set has one element.
Pruned(s) ==
    LET live == {i \in DOMAIN s : remaining[s[i]] > 0}
        keep == {f \in Surjection(1..Cardinality(live), live) :
                    \A i, j \in DOMAIN f : i < j => f[i] < f[j]}
    IN {[i \in DOMAIN f |-> s[f[i]]] : f \in keep}

\* Seeded faults for EndMatch: the remainder is not added, and the taker is
\* not let go of.
EndMatchDropsTaker ==
    /\ pc = "match"
    /\ ~ LoopGoesOn
    /\ pc' = "idle"
    /\ taker' = NoEntry
    /\ index' = 1
    /\ \E kept \in Pruned(book[MakerSide]) : book' = [book EXCEPT ![MakerSide] = kept]
    /\ UNCHANGED <<order, remaining, used, trades, restored>>

EndMatchKeepsTaker ==
    /\ pc = "match"
    /\ ~ LoopGoesOn
    /\ pc' = "idle"
    /\ UNCHANGED <<taker, index>>
    /\ \E kept \in Pruned(book[MakerSide]) :
        book' = [book EXCEPT
                    ![MakerSide] = kept,
                    ![order[taker].side] =
                        IF remaining[taker] > 0 THEN Append(@, taker) ELSE @]
    /\ UNCHANGED <<order, remaining, used, trades, restored>>

EndMatch ==
    /\ pc = "match"
    /\ ~ LoopGoesOn
    /\ pc' = "idle"
    /\ taker' = NoEntry
    /\ index' = 1
    /\ \E kept \in Pruned(book[MakerSide]) :
        book' = [book EXCEPT
                    ![MakerSide] = kept,
                    ![order[taker].side] =
                        IF remaining[taker] > 0 THEN Append(@, taker) ELSE @]
    /\ UNCHANGED <<order, remaining, used, trades, restored>>

\* Where Cancel(id) finds its order: the bids first, then the asks, and in
\* each the first object with that id.
Holds(side, i, id) == i \in DOMAIN book[side] /\ order[book[side][i]].id = id

Found(side, i, id) ==
    /\ Holds(side, i, id)
    /\ \A j \in 1..(i - 1) : ~ Holds(side, j, id)
    /\ side = "sell" => \A j \in DOMAIN book["buy"] : ~ Holds("buy", j, id)

Cancel(id) ==
    /\ pc = "idle"
    /\ \E side \in Side : \E i \in DOMAIN book[side] :
        /\ Found(side, i, id)
        /\ book' = [book EXCEPT ![side] = RemoveAt(@, i)]
    /\ UNCHANGED <<order, remaining, used, pc, taker, index, trades, restored>>

Next ==
    \/ StartConsumers
    \/ \E e \in Entry, o \in OrderRecord : Restore(e, o) \/ BeginMatch(e, o)
    \/ Iterate
    \/ EndMatch
    \/ \E id \in Id : Cancel(id)

Spec == Init /\ [][Next]_vars
-----------------------------------------------------------------------------

Fill == [maker : Entry, taker : Entry, price : Price, size : Int,
         makerRemaining : Int, takerRemaining : Int]

TypeOK ==
    /\ order \in [used -> OrderRecord]
    /\ remaining \in [used -> Int]
    /\ used \subseteq Entry
    /\ book \in [Side -> Seq(used)]
    /\ pc \in {"restore", "idle", "match"}
    /\ taker \in IF pc = "match" THEN used ELSE {NoEntry}
    /\ index \in Nat \ {0}
    /\ trades \in Seq(Fill)
    /\ restored \subseteq used

Resting(side) == ToSet(book[side])

\* A bid and an ask that are both on the book and would trade with each other
\* both came from the restore: an order that went through MatchIncoming
\* (book.go:63) has met everything it crossed, and restored orders are never
\* matched with one another (engine.go:204).
OnlyRestoredOrdersCross ==
    \A b \in Resting("buy"), a \in Resting("sell") :
        PricesCross("buy", order[b].price, order[a].price)
            => {a, b} \subseteq restored

\* Every fill of order e takes its size off both sides, so what is left and
\* what was traded always add up to the order's size: neither a skipped nor a
\* repeated iteration (book.go:77-103) can lose or invent quantity.
SizeConserved ==
    \A e \in used :
        LET part(sum, f) == IF e \in {f.maker, f.taker} THEN sum + f.size ELSE sum
        IN  order[e].size = remaining[e] + FoldLeft(part, 0, trades)

\* A fill takes the best order there is: no order with something left on the
\* maker's side is better in price, or as good and older (SERVICE.md:53).
PriceTimePriority ==
    [][trades' # trades =>
        LET f == Last(trades')
            side == order[f.maker].side
        IN  \A n \in Resting(side) :
                remaining[n] > 0 => ~ Before(side, order[n], order[f.maker])]_vars

\* An object is on the book once, and outside MatchIncoming only with
\* something left to trade, so the next incoming order can fill it.
LiveOrdersOnce ==
    /\ \A side \in Side : IsInjective(book[side])
    /\ pc # "match" => \A side \in Side : \A e \in Resting(side) : remaining[e] > 0

\* The abstract book: what rests is what has something left.
Promise ==
    INSTANCE PriceTimeBook WITH
        open <- pc # "restore",
        resting <- {e \in Resting("buy") \cup Resting("sell") : remaining[e] > 0},
        incoming <- {taker} \ {NoEntry}

\* The slices, the sort, the loop and the prune do what an abstract price-time
\* book does, step by step.
ImplementsPromise == Promise!Spec
=============================================================================
