--------------------------- MODULE OrderLifecycle ---------------------------
(***************************************************************************)
(* An order's way through the exchange: the API inserts it in Postgres and  *)
(* then publishes it; the matching engine consumes orders.created and       *)
(* orders.cancelled on two goroutines and publishes fills and rejections;   *)
(* the indexer consumes those and writes the order rows and trade rows; on  *)
(* a restart the engine rebuilds its book from the rows.                    *)
(*                                                                         *)
(* Every order has the same price, so the book is a queue on each side and  *)
(* one call of MatchIncoming is one step (OrderBook.tla has the loop and    *)
(* the prices, BookRace.tla two calls that overlap).  A topic is one        *)
(* partition: a sequence with the position of its consumer group and the    *)
(* offset the group has committed.                                          *)
(***************************************************************************)
EXTENDS Integers, Sequences, FiniteSets, FiniteSetsExt, SequencesExt

CONSTANTS
    Order,     \* the orders there may be
    Wanted,    \* what may be placed: triples of an order, a side and a size
    Cancellable, \* the orders whose owners may cancel
    MaxFault,  \* bound: how often each kind of fault may happen
    MaxFaults  \* bound: how many faults may happen in all

FaultKind == {"lostRequest", "repeatedRequest", "failedPublish",
              "repeatedPublish", "failedCommit", "dropped",
              "engineRestart", "emptyStart", "indexerRestart"}

ASSUME BoundsAssumption ==
    /\ Wanted \subseteq Order \X {"buy", "sell"} \X Int
    /\ Cancellable \subseteq Order
    /\ MaxFault \in [FaultKind -> Nat]
    /\ MaxFaults \in Nat

Side == {"buy", "sell"}
Opposite(side) == IF side = "buy" THEN "sell" ELSE "buy"

Topic == {"created", "cancelled", "matched", "rejected"}
EngineTopic == {"created", "cancelled"}
IndexerTopic == {"matched", "rejected"}

VARIABLES
    rows,       \* the table orders, by id
    placed,     \* the ids in the order of created_at
    tradeRows,  \* the table trades
    publishing, \* API requests whose row is written and whose event is not
    cancels,    \* history: how often a cancellation of the order was accepted
    log,        \* the messages of each topic
    position,   \* how many of them the consumer has fetched
    committed,  \* how many its group has committed
    handling,   \* whether it is between handling a message and committing it
    book,       \* the engine's book: [id, left] in time order, on each side
    outbox,     \* what the engine has still to publish for the last message
    fault       \* how often each kind of fault has happened

store == <<rows, placed, tradeRows>>
api == <<publishing, cancels>>
consumers == <<position, committed, handling>>
engine == <<book, outbox>>
vars == <<store, api, log, consumers, engine, fault>>

Init ==
    /\ rows = <<>>
    /\ placed = <<>>
    /\ tradeRows = {}
    /\ publishing = {}
    /\ cancels = [o \in Order |-> 0]
    /\ log = [t \in Topic |-> <<>>]
    /\ position = [t \in Topic |-> 0]
    /\ committed = [t \in Topic |-> 0]
    /\ handling = [t \in Topic |-> FALSE]
    /\ book = [side \in Side |-> <<>>]
    /\ outbox = <<>>
    /\ fault = [kind \in FaultKind |-> 0]

\* One more fault of each of these kinds, within the bounds.
Suffer(kinds) ==
    /\ \A kind \in kinds : fault[kind] < MaxFault[kind]
    /\ MapThenSumSet(LAMBDA kind : fault[kind], FaultKind) < MaxFaults
    /\ fault' = [kind \in FaultKind |->
                    IF kind \in kinds THEN fault[kind] + 1 ELSE fault[kind]]

Published(t, message) == log' = [log EXCEPT ![t] = Append(@, message)]
-----------------------------------------------------------------------------
(* The API *)

Request(t, o, n) == [topic |-> t, order |-> o, nth |-> n]

\* The insert.  No one looks at the size; zero or less is the engine's to
\* reject.
fn_create_order_atomic(o, side, size) ==
    /\ o \notin ToSet(placed)
    /\ placed' = Append(placed, o)
    /\ rows' = [x \in DOMAIN rows \cup {o} |->
                    IF x = o THEN [side |-> side, size |-> size, remaining |-> size,
                                   status |-> "pending"]
                    ELSE rows[x]]

CreateLimitOrder(o, side, size) ==
    /\ fn_create_order_atomic(o, side, size)
    /\ publishing' = publishing \cup {Request("created", o, 1)}
    /\ UNCHANGED <<tradeRows, cancels, log, consumers, engine, fault>>

Open(o) == rows[o].status \in {"pending", "partial"}

\* The fee it takes is not modelled.
fn_cancel_order(o) ==
    /\ o \in ToSet(placed)
    /\ Open(o)
    /\ rows' = [rows EXCEPT ![o].status = "cancelled"]

CancelOrder(o) ==
    /\ fn_cancel_order(o)
    /\ cancels' = [cancels EXCEPT ![o] = @ + 1]
    /\ publishing' = publishing \cup {Request("cancelled", o, cancels'[o])}
    /\ UNCHANGED <<placed, tradeRows, log, consumers, engine, fault>>

PublishRequest(r) ==
    /\ Published(r.topic, r.order)
    /\ publishing' = publishing \ {r}
    /\ UNCHANGED <<store, cancels, consumers, engine, fault>>

\* The broker has the message but the write timed out, so writeJSON retries.
RepeatRequest(r) ==
    /\ Suffer({"repeatedRequest"})
    /\ Published(r.topic, r.order)
    /\ UNCHANGED <<store, api, consumers, engine>>

\* The publish fails for good, which is only logged, or the API stops here.
LoseRequest(r) ==
    /\ Suffer({"lostRequest"})
    /\ publishing' = publishing \ {r}
    /\ UNCHANGED <<store, cancels, log, consumers, engine>>
-----------------------------------------------------------------------------
(* The consumer loops *)

Fetch(t) ==
    /\ ~ handling[t]
    /\ position[t] < Len(log[t])
    /\ position' = [position EXCEPT ![t] = @ + 1]
    /\ handling' = [handling EXCEPT ![t] = TRUE]
    /\ UNCHANGED committed

Message(t) == log[t][position[t] + 1]

\* Seeded fault for CommitMessages: the offset after the next message.
CommitMessagesAhead(t) ==
    /\ handling[t]
    /\ t = "created" => outbox = <<>>
    /\ committed' = [committed EXCEPT ![t] = position[t] + 1]
    /\ handling' = [handling EXCEPT ![t] = FALSE]
    /\ UNCHANGED <<store, api, log, position, engine, fault>>

\* The handler has returned without an error.
CommitMessages(t) ==
    /\ handling[t]
    /\ t = "created" => outbox = <<>>
    /\ committed' = [committed EXCEPT ![t] = position[t]]
    /\ handling' = [handling EXCEPT ![t] = FALSE]
    /\ UNCHANGED <<store, api, log, position, engine, fault>>

\* An error of the commit is logged and the loop goes on.
CommitFails(t) ==
    /\ handling[t]
    /\ t = "created" => outbox = <<>>
    /\ Suffer({"failedCommit"})
    /\ handling' = [handling EXCEPT ![t] = FALSE]
    /\ UNCHANGED <<store, api, log, position, committed, engine>>
-----------------------------------------------------------------------------
(* The matching engine *)

\* Seeded fault for Matching: a maker filled in part keeps what it had.
MatchingKeepsMakers(o, makers) ==
    LET step(acc, m) ==
            LET size == Min({acc.left, m.left})
                fill == [trade |-> <<fault["engineRestart"], position["created"],
                                     Len(acc.fills)>>,
                         maker |-> m.id, taker |-> o, size |-> size,
                         makerLeft |-> m.left - size, takerLeft |-> acc.left - size]
            IN  [left  |-> acc.left - size,
                 fills |-> IF size > 0 THEN Append(acc.fills, fill) ELSE acc.fills,
                 kept  |-> IF m.left > size
                           THEN Append(acc.kept, m)
                           ELSE acc.kept]
    IN  FoldLeft(step, [left |-> rows[o].size, fills |-> <<>>, kept |-> <<>>], makers)

\* What the taker's walk over the makers, oldest first, leaves and trades.
\* A trade's id is a fresh uuid: this life of the engine, the message, the
\* number of the fill.
Matching(o, makers) ==
    LET step(acc, m) ==
            LET size == Min({acc.left, m.left})
                fill == [trade |-> <<fault["engineRestart"], position["created"],
                                     Len(acc.fills)>>,
                         maker |-> m.id, taker |-> o, size |-> size,
                         makerLeft |-> m.left - size, takerLeft |-> acc.left - size]
            IN  [left  |-> acc.left - size,
                 fills |-> IF size > 0 THEN Append(acc.fills, fill) ELSE acc.fills,
                 kept  |-> IF m.left > size
                           THEN Append(acc.kept, [m EXCEPT !.left = @ - size])
                           ELSE acc.kept]
    IN  FoldLeft(step, [left |-> rows[o].size, fills |-> <<>>, kept |-> <<>>], makers)

Envelope(t, body) == [topic |-> t, body |-> body]

ProcessCreated ==
    /\ Fetch("created")
    /\ LET o == Message("created")
           side == rows[o].side
           m == Matching(o, book[Opposite(side)])
       IN  IF rows[o].size <= 0
           THEN /\ outbox' = <<Envelope("rejected", o)>>
                /\ UNCHANGED book
           ELSE /\ outbox' = [i \in DOMAIN m.fills |-> Envelope("matched", m.fills[i])]
                /\ book' = [book EXCEPT
                    ![Opposite(side)] = m.kept,
                    ![side] = IF m.left > 0 THEN Append(@, [id |-> o, left |-> m.left])
                              ELSE @]
    /\ UNCHANGED <<store, api, log, fault>>

PublishResult ==
    /\ outbox # <<>>
    /\ Published(Head(outbox).topic, Head(outbox).body)
    /\ outbox' = Tail(outbox)
    /\ UNCHANGED <<store, api, consumers, book, fault>>

\* The writer retries a message the broker already has.
RepeatResult ==
    /\ outbox # <<>>
    /\ Suffer({"repeatedPublish"})
    /\ Published(Head(outbox).topic, Head(outbox).body)
    /\ UNCHANGED <<store, api, consumers, engine>>

\* Seeded fault for PublishFails: the message is fetched again.
PublishFailsAndRefetches ==
    /\ outbox # <<>>
    /\ Suffer({"failedPublish"})
    /\ outbox' = <<>>
    /\ handling' = [handling EXCEPT !["created"] = FALSE]
    /\ position' = [position EXCEPT !["created"] = @ - 1]
    /\ UNCHANGED <<store, api, log, committed, book>>

\* ProcessCreated returns the error: the rest is not published, the message
\* is not committed, and the loop fetches the next one.
PublishFails ==
    /\ outbox # <<>>
    /\ Suffer({"failedPublish"})
    /\ outbox' = <<>>
    /\ handling' = [handling EXCEPT !["created"] = FALSE]
    /\ UNCHANGED <<store, api, log, position, committed, book>>

\* Seeded fault for Without: the bids are not searched.
WithoutAsk(o) ==
    [book EXCEPT !["sell"] = SelectSeq(@, LAMBDA e : e.id # o)]

\* The book without the first order with this id, bids before asks.
Without(o) ==
    LET Has(side) == \E i \in DOMAIN book[side] : book[side][i].id = o
        Drop(s) == RemoveAt(s, SelectInSeq(s, LAMBDA e : e.id = o))
    IN  CASE Has("buy")  -> [book EXCEPT !["buy"] = Drop(@)]
          [] ~ Has("buy") /\ Has("sell") -> [book EXCEPT !["sell"] = Drop(@)]
          [] OTHER -> book

ProcessCancelled ==
    /\ Fetch("cancelled")
    /\ book' = Without(Message("cancelled"))
    /\ UNCHANGED <<store, api, log, outbox, fault>>

\* Seeded fault for fn_get_resting_orders: partial orders are left out.
fn_get_pending_orders(side) ==
    {o \in ToSet(placed) : rows[o].side = side /\ rows[o].status = "pending"}

\* The orders Postgres has as resting on one side; it gives them in the order
\* of created_at, which is that of placed.
fn_get_resting_orders(side) ==
    {o \in ToSet(placed) : rows[o].side = side /\ Open(o)}

\* Seeded fault for RestoreOrder: the order comes back with its whole size.
RestoreWholeOrder(acc, o) == Append(acc, [id |-> o, left |-> rows[o].size])

\* One side of the book with one more order; one with nothing left is skipped.
RestoreOrder(acc, o) ==
    IF rows[o].remaining > 0
    THEN Append(acc, [id |-> o, left |-> rows[o].remaining])
    ELSE acc

restoreFromDB ==
    [side \in Side |->
        FoldLeft(LAMBDA acc, o : IF o \in fn_get_resting_orders(side)
                                 THEN RestoreOrder(acc, o) ELSE acc,
                 <<>>, placed)]

Rewound(topics) ==
    /\ position' = [t \in Topic |-> IF t \in topics THEN committed[t] ELSE position[t]]
    /\ handling' = [t \in Topic |-> t \notin topics /\ handling[t]]
    /\ UNCHANGED committed

\* The engine stops anywhere and starts again.
RestartEngine ==
    /\ Suffer({"engineRestart"})
    /\ book' = restoreFromDB
    /\ outbox' = <<>>
    /\ Rewound(EngineTopic)
    /\ UNCHANGED <<store, api, log>>

\* The same when Postgres cannot be reached: it starts with empty books.
RestartEngineEmpty ==
    /\ Suffer({"engineRestart", "emptyStart"})
    /\ book' = [side \in Side |-> <<>>]
    /\ outbox' = <<>>
    /\ Rewound(EngineTopic)
    /\ UNCHANGED <<store, api, log>>
-----------------------------------------------------------------------------
(* The indexer *)

\* Seeded fault for AfterFill: a filled order stays partial.
AfterFillAlwaysPartial(row, left) ==
    [row EXCEPT !.remaining = left, !.status = "partial"]

AfterFill(row, left) ==
    [row EXCEPT !.remaining = left,
                !.status = IF left = 0 THEN "matched" ELSE "partial"]

\* Seeded fault for fn_process_order_matched: the trade row has no key.
fn_process_match_unkeyed(f) ==
    /\ rows' = [rows EXCEPT ![f.maker] = AfterFill(@, f.makerLeft),
                            ![f.taker] = AfterFill(@, f.takerLeft)]
    /\ tradeRows' = tradeRows \cup
            {[trade |-> <<Cardinality(tradeRows), 0, 0>>, maker |-> f.maker,
              taker |-> f.taker, size |-> f.size]}

\* The two rows whatever their status, and the trade unless its id is there.
fn_process_order_matched(f) ==
    /\ rows' = [rows EXCEPT ![f.maker] = AfterFill(@, f.makerLeft),
                            ![f.taker] = AfterFill(@, f.takerLeft)]
    /\ tradeRows' = tradeRows \cup
            {[trade |-> f.trade, maker |-> f.maker, taker |-> f.taker, size |-> f.size]}

OrderMatched ==
    /\ Fetch("matched")
    /\ fn_process_order_matched(Message("matched"))
    /\ UNCHANGED <<placed, api, log, engine, fault>>

OrderRejected ==
    /\ Fetch("rejected")
    /\ rows' = [rows EXCEPT ![Message("rejected")].status = "rejected"]
    /\ UNCHANGED <<placed, tradeRows, api, log, engine, fault>>

\* handleWithRetry gives up: the message is dropped, and committed next.
DropMessage(t) ==
    /\ Suffer({"dropped"})
    /\ Fetch(t)
    /\ UNCHANGED <<store, api, log, engine>>

RestartIndexer ==
    /\ Suffer({"indexerRestart"})
    /\ Rewound(IndexerTopic)
    /\ UNCHANGED <<store, api, log, engine>>
-----------------------------------------------------------------------------

Next ==
    \/ \E w \in Wanted : CreateLimitOrder(w[1], w[2], w[3])
    \/ \E o \in Cancellable : CancelOrder(o)
    \/ \E r \in publishing : PublishRequest(r) \/ RepeatRequest(r) \/ LoseRequest(r)
    \/ \E t \in Topic : CommitMessages(t) \/ CommitFails(t)
    \/ ProcessCreated \/ PublishResult \/ RepeatResult \/ PublishFails
    \/ ProcessCancelled
    \/ RestartEngine \/ RestartEngineEmpty
    \/ OrderMatched \/ OrderRejected
    \/ \E t \in IndexerTopic : DropMessage(t)
    \/ RestartIndexer

\* Each consumer loop and each request handler runs on; no one has to place
\* or cancel an order, and no fault has to happen.
Fairness ==
    /\ WF_vars(\E r \in publishing : PublishRequest(r))
    /\ \A t \in Topic : WF_vars(CommitMessages(t))
    /\ WF_vars(ProcessCreated)
    /\ WF_vars(PublishResult)
    /\ WF_vars(ProcessCancelled)
    /\ WF_vars(OrderMatched)
    /\ WF_vars(OrderRejected)

Spec == Init /\ [][Next]_vars

FairSpec == Spec /\ Fairness
-----------------------------------------------------------------------------
Fill == [trade : Nat \X Nat \X Nat, maker : Order, taker : Order, size : Int,
         makerLeft : Int, takerLeft : Int]

Entry == [id : Order, left : Int]

Result == [topic : {"matched"}, body : Fill] \cup [topic : {"rejected"}, body : Order]

TypeOK ==
    /\ placed \in Seq(Order) /\ IsInjective(placed)
    /\ rows \in [ToSet(placed) ->
            [side : Side, size : Int, remaining : Int,
             status : {"pending", "partial", "matched", "cancelled", "rejected"}]]
    /\ tradeRows \subseteq [trade : Nat \X Nat \X Nat, maker : Order, taker : Order,
                            size : Int]
    /\ cancels \in [Order -> Nat]
    /\ \A r \in publishing :
        r \in [topic : EngineTopic, order : ToSet(placed), nth : 1..cancels[r.order] \cup {1}]
    /\ log \in [Topic -> Seq(Order \cup Fill)]
    /\ \A t \in EngineTopic : log[t] \in Seq(ToSet(placed))
    /\ log["rejected"] \in Seq(Order) /\ log["matched"] \in Seq(Fill)
    /\ position \in [Topic -> Nat] /\ committed \in [Topic -> Nat]
    /\ \A t \in Topic : committed[t] <= position[t] /\ position[t] <= Len(log[t])
    /\ handling \in [Topic -> BOOLEAN]
    /\ book \in [Side -> Seq(Entry)]
    /\ outbox \in Seq(Result) /\ (outbox # <<>> => handling["created"])
    /\ fault \in [FaultKind -> Nat]

NoFault(kinds) == \A kind \in kinds : fault[kind] = 0

\* The orders on the book, and how often.
OnBook(o) == \E side \in Side : \E i \in DOMAIN book[side] : book[side][i].id = o

OneCopy ==
    \A side1, side2 \in Side :
        \A i \in DOMAIN book[side1], j \in DOMAIN book[side2] :
            book[side1][i].id = book[side2][j].id => side1 = side2 /\ i = j

\* The engine keeps no record of the ids it has seen, so only the API's single
\* publish and the offsets keep an order from resting twice: as long as the
\* engine lives and no write is retried, it never does (engine.go:106-175).
OneCopyInOneLife == NoFault({"engineRestart", "repeatedRequest"}) => OneCopy

Traded(o, fills) ==
    MapThenSumSet(LAMBDA f : f.size, {f \in fills : o \in {f.maker, f.taker}})

LeftOnBook(o) ==
    MapThenSumSet(LAMBDA side :
        MapThenSumSet(LAMBDA i : IF book[side][i].id = o THEN book[side][i].left ELSE 0,
                      DOMAIN book[side]), Side)

\* What was published or is about to be for an order, and what is left of it
\* on the book, never exceed its size: not through failed publishes and
\* commits, late cancels, nor anything the API or the indexer does.
NeverOvertraded ==
    NoFault({"engineRestart", "repeatedRequest"}) =>
        LET fills == ToSet(log["matched"]) \cup
                        {m.body : m \in {n \in ToSet(outbox) : n.topic = "matched"}}
        IN  \A o \in ToSet(placed) :
                rows[o].size > 0 => Traded(o, fills) + LeftOnBook(o) <= rows[o].size

CaughtUp(t) == position[t] = Len(log[t])

\* Redelivered and repeated messages leave no trace: once the indexer is
\* through its topic, the trade rows of an order add up to what its own row
\* says was traded (stored_procedures.sql:415), if no fill was lost on the way.
RowsMatchTrades ==
    /\ CaughtUp("matched")
    /\ NoFault({"engineRestart", "repeatedRequest", "failedPublish", "dropped"})
    => \A o \in ToSet(placed) :
            rows[o].size - rows[o].remaining = Traded(o, tradeRows)

Restarted == fault'["engineRestart"] # fault["engineRestart"]

\* "A restart never loses resting orders" (README.md:321): whatever was in
\* flight when the engine stopped, what rested uncancelled rests again with no
\* less, if Postgres answers and no order had been doubled before.
RestartLosesNothing ==
    [][Restarted /\ fault'["emptyStart"] = 0
                 /\ NoFault({"engineRestart", "repeatedRequest"}) =>
        \A side \in Side : \A e \in ToSet(book[side]) :
            cancels[e.id] = 0 =>
                \E f \in ToSet(book'[side]) : f.id = e.id /\ f.left >= e.left]_vars

Settled ==
    /\ publishing = {}
    /\ outbox = <<>>
    /\ \A t \in Topic : CaughtUp(t)

\* An engine that stops when everything is handled and committed comes back
\* with exactly the book it had, if nothing was lost, doubled or cancelled.
QuietRestartKeepsBook ==
    [][/\ Restarted /\ fault'["emptyStart"] = 0
       /\ Settled /\ \A t \in EngineTopic : committed[t] = Len(log[t])
       /\ NoFault({"engineRestart", "lostRequest", "repeatedRequest",
                   "failedPublish", "dropped"})
       /\ \A o \in Order : cancels[o] = 0
       => \A side \in Side : ToSet(book'[side]) = ToSet(book[side])]_vars

\* The orders Postgres shows as resting are those on the book, with the same
\* quantity: the two agree for ever once everything placed has been handled,
\* unless someone cancels or something is lost (README.md:341).
RowsAgreeWithBook ==
    /\ Settled
    /\ \A o \in ToSet(placed) : Open(o) <=> OnBook(o)
    /\ \A side \in Side : \A e \in ToSet(book[side]) : rows[e.id].remaining = e.left

Converges ==
    <>[](RowsAgreeWithBook \/ (\E o \in Order : cancels[o] > 0)
            \/ ~ NoFault(FaultKind \ {"failedCommit", "repeatedPublish", "indexerRestart"}))

\* Cancellations of o whose message the engine has not handled yet.
CancelUnderway(o) ==
    \/ \E r \in publishing : r.topic = "cancelled" /\ r.order = o
    \/ \E i \in (position["cancelled"] + 1)..Len(log["cancelled"]) :
            log["cancelled"][i] = o

\* An accepted cancellation takes an order that rests off the book, by itself
\* or because it was filled first.
CancelsLand ==
    \A o \in Order :
        (OnBook(o) /\ CancelUnderway(o))
            ~> (~ OnBook(o)
                \/ ~ NoFault({"lostRequest", "repeatedRequest", "engineRestart"}))

\* "One query gives us exactly the set of orders that belong on the book"
\* (README.md:341), so no order is there twice.
OrdersRestOnce == OneCopy

\* "Cancelled: not cancellable, already cancelled" (README.md:254): an order
\* is cancelled, and its owner charged for it, once.
CancelledOnce == \A o \in Order : cancels[o] <= 1
=============================================================================
