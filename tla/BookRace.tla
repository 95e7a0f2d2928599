------------------------------ MODULE BookRace ------------------------------
(***************************************************************************)
(* One book shared by the two goroutines main.go starts: consumeCreated      *)
(* calls MatchIncoming, consumeCancelled calls Cancel, and no lock covers    *)
(* either (Engine.mu only guards the map of books).                         *)
(*                                                                         *)
(* A slice is a header, the words "at" (the array) and "len", in a field of *)
(* the book; arrays live on the heap.  Each goroutine reads a header at      *)
(* once but stores it word by word, in either order, because the code does  *)
(* not synchronise; the copy made by append, the pass of pruneFilledOrders, *)
(* the sort and the scan of Cancel are one step each over the array.         *)
(* A nil or out-of-range element that is dereferenced, or a slice bound      *)
(* beyond len, ends the process.                                            *)
(***************************************************************************)
EXTENDS BookDefs, Sequences, SequencesExt

CONSTANTS
    NoEntry,   \* nil, and what an array holds past its elements
    Object,    \* Object[e]: what each order object holds
    AtRest,    \* AtRest[side]: the objects on the book at first
    Arrivals,  \* the objects MatchIncoming is called with, one after another
    ToCancel,  \* the objects whose cancellation arrives
    Address    \* where arrays can be

ASSUME RaceAssumption ==
    /\ NoEntry \notin Entry
    /\ Object \in [Entry -> OrderRecord]
    /\ AtRest \in [Side -> Seq(Entry)]
    /\ Arrivals \in Seq(Entry)
    /\ ToCancel \subseteq Entry
    /\ {1, 2} \subseteq Address /\ Address \subseteq Nat

\* Orders of no size do not get here (engine.go:129, 212), Add puts an order on
\* its own side, and every message makes a new object (engine.go:134, 218).
ASSUME ObjectsAssumption ==
    /\ \A e \in Entry : Object[e].size > 0
    /\ \A side \in Side : /\ IsInjective(AtRest[side])
                          /\ \A e \in ToSet(AtRest[side]) : Object[e].side = side
    /\ IsInjective(Arrivals)
    /\ \A side \in Side : ToSet(Arrivals) \cap ToSet(AtRest[side]) = {}

\* The allocator finds memory besides what the book and the two calls use.
ASSUME MemoryAssumption ==
    \A a, b, c, d \in Address : \E new \in Address : new \notin {a, b, c, d}

VARIABLES
    heap,       \* heap[a]: the array at a; its length is its capacity
    header,     \* header[side]: the fields b.bids and b.asks
    remaining,  \* Remaining of each object
    match,      \* the locals of MatchIncoming, or where it is between calls
    cancel,     \* the same for Cancel
    arrived,    \* how many arrivals MatchIncoming was called with
    pending,    \* cancellations not handled yet
    gone,       \* history: the objects for which Cancel returned true
    filled,     \* history: filled[e] is the total size of e's fills
    crashed,    \* a goroutine has panicked, which ends the process
    overlapped  \* history: the two calls have been inside the book at once

vars == <<heap, header, remaining, match, cancel, arrived, pending, gone,
          filled, crashed, overlapped>>

Header == [at : Address, len : Nat]
Nowhere == [at |-> 1, len |-> 0]
Words == {"at", "len"}

\* Where a goroutine stands.  "next" is the header it is about to store and
\* "words" what is left to store of it.
Idle == [pc |-> "idle", object |-> NoEntry, side |-> "buy", index |-> 1,
         walked |-> Nowhere, next |-> Nowhere, words |-> {}]

Init ==
    /\ heap = [a \in Address |-> IF a = 1 THEN AtRest["buy"]
                                 ELSE IF a = 2 THEN AtRest["sell"] ELSE <<>>]
    /\ header = [side \in Side |->
                    [at |-> IF side = "buy" THEN 1 ELSE 2, len |-> Len(AtRest[side])]]
    /\ remaining = [e \in Entry |-> Object[e].size]
    /\ match = Idle
    /\ cancel = Idle
    /\ arrived = 0
    /\ pending = ToCancel
    /\ gone = {}
    /\ filled = [e \in Entry |-> 0]
    /\ crashed = FALSE
    /\ overlapped = FALSE

\* The elements a header gives access to.
Element(h, k) == IF k <= Len(heap[h.at]) THEN heap[h.at][k] ELSE NoEntry
Elements(h) == [k \in 1..h.len |-> Element(h, k)]
Intact(h) == \A k \in 1..h.len : Element(h, k) # NoEntry

\* An address no slice in use points to: what it held is garbage.
Fresh ==
    CHOOSE a \in Address :
        a \notin {header["buy"].at, header["sell"].at, match.walked.at, cancel.next.at}

Padded(s, capacity) == s \o [k \in 1..(capacity - Len(s)) |-> NoEntry]

\* Every step of a goroutine is one of a live process, and one taken while
\* the other goroutine is inside the book is noted.
StepBeside(other) ==
    /\ ~ crashed
    /\ overlapped' = (overlapped \/ other.pc # "idle")

Alive == crashed' = FALSE

Panic ==
    /\ crashed' = TRUE
    /\ UNCHANGED <<heap, header, remaining, match, cancel, arrived, pending,
                   gone, filled>>

-----------------------------------------------------------------------------
(* MatchIncoming                                                            *)

MakerSide == Opposite(match.side)

SortedArrangements(side, s) ==
    {t \in {[i \in DOMAIN s |-> s[p[i]]] : p \in Bijection(DOMAIN s, DOMAIN s)} :
        \A i, j \in DOMAIN s :
            i < j => ~ Before(side, Object[t[j]], Object[t[i]])}

\* The sort, in place, and the header the range loop keeps.
BeginMatch ==
    /\ StepBeside(cancel)
    /\ match.pc = "idle"
    /\ arrived < Len(Arrivals)
    /\ LET in == Arrivals[arrived + 1]
           side == Opposite(Object[in].side)
           h == header[side]
       IN  IF Intact(h)
           THEN /\ \E s \in SortedArrangements(side, Elements(h)) :
                      heap' = [heap EXCEPT ![h.at] = s \o SubSeq(@, h.len + 1, Len(@))]
                /\ match' = [Idle EXCEPT !.pc = "loop", !.object = in,
                                         !.side = Object[in].side, !.walked = h]
                /\ arrived' = arrived + 1
                /\ UNCHANGED <<header, remaining, cancel, pending, gone, filled>>
                /\ Alive
           ELSE Panic

\* The loop reads the array, not the field: it sees what Cancel moves there.
LoopGoesOn ==
    /\ match.index <= match.walked.len
    /\ remaining[match.object] > 0
    /\ LET m == Element(match.walked, match.index)
       IN  m # NoEntry =>
               PricesCross(match.side, Object[match.object].price, Object[m].price)

\* Seeded fault for Iterate: the fill is what the taker has left, not the smaller
\* of the two.
IterateWholeTaker ==
    /\ StepBeside(cancel)
    /\ match.pc = "loop"
    /\ LoopGoesOn
    /\ LET m == Element(match.walked, match.index)
           size == remaining[match.object]
       IN  IF m # NoEntry
           THEN /\ remaining' = [remaining EXCEPT ![match.object] = @ - size, ![m] = @ - size]
                /\ filled' = [filled EXCEPT ![match.object] = @ + size, ![m] = @ + size]
                /\ match' = [match EXCEPT !.index = @ + 1]
                /\ UNCHANGED <<heap, header, cancel, arrived, pending, gone>>
                /\ Alive
           ELSE Panic

Iterate ==
    /\ StepBeside(cancel)
    /\ match.pc = "loop"
    /\ LoopGoesOn
    /\ LET m == Element(match.walked, match.index)
           size == Smaller(remaining[match.object], remaining[m])
       IN  IF m # NoEntry
           THEN /\ remaining' = [remaining EXCEPT ![match.object] = @ - size, ![m] = @ - size]
                /\ filled' = [filled EXCEPT ![match.object] = @ + size, ![m] = @ + size]
                /\ match' = [match EXCEPT !.index = @ + 1]
                /\ UNCHANGED <<heap, header, cancel, arrived, pending, gone>>
                /\ Alive
           ELSE Panic

\* Seeded fault for Prune: filled orders stay.
PruneNothing ==
    /\ StepBeside(cancel)
    /\ match.pc = "loop"
    /\ ~ LoopGoesOn
    /\ LET h == header[MakerSide]
           kept == Elements(h)
       IN  IF Intact(h)
           THEN /\ heap' = [heap EXCEPT ![Fresh] = Padded(kept, h.len)]
                /\ match' = [match EXCEPT !.pc = "pruned", !.words = Words,
                                !.next = [at |-> Fresh, len |-> Len(kept)],
                                !.walked = [at |-> Fresh, len |-> 0]]
                /\ UNCHANGED <<header, remaining, cancel, arrived, pending, gone, filled>>
                /\ Alive
           ELSE Panic

\* pruneFilledOrders: the positions whose order still has something left, in
\* their order.  The set has one element.
Pruned(s) ==
    LET live == {i \in DOMAIN s : remaining[s[i]] > 0}
        keep == {f \in Surjection(1..Cardinality(live), live) :
                    \A i, j \in DOMAIN f : i < j => f[i] < f[j]}
    IN {[i \in DOMAIN f |-> s[f[i]]] : f \in keep}

\* b.asks = pruneFilledOrders(b.asks) up to the store: the field is read again
\* and copied to a new array.
Prune ==
    /\ StepBeside(cancel)
    /\ match.pc = "loop"
    /\ ~ LoopGoesOn
    /\ LET h == header[MakerSide]
       IN  IF Intact(h)
           THEN /\ \E kept \in Pruned(Elements(h)) :
                    /\ heap' = [heap EXCEPT ![Fresh] = Padded(kept, h.len)]
                    /\ match' = [match EXCEPT !.pc = "pruned", !.words = Words,
                                    !.next = [at |-> Fresh, len |-> Len(kept)],
                                    !.walked = [at |-> Fresh, len |-> 0]]
                /\ UNCHANGED <<header, remaining, cancel, arrived, pending, gone, filled>>
                /\ Alive
           ELSE Panic

\* One word of "b.asks = ..." or "b.bids = ...".
Stored(side, g, w) == [header EXCEPT ![side][w] = g.next[w]]

StorePruned ==
    /\ StepBeside(cancel)
    /\ match.pc = "pruned"
    /\ \E w \in match.words :
        /\ header' = Stored(MakerSide, match, w)
        /\ match' = IF match.words = {w}
                    THEN IF remaining[match.object] > 0
                         THEN [match EXCEPT !.pc = "add", !.words = {}]
                         ELSE Idle
                    ELSE [match EXCEPT !.words = @ \ {w}]
    /\ UNCHANGED <<heap, remaining, cancel, arrived, pending, gone, filled>>
    /\ Alive

\* append(b.bids, in): in place while there is room, else into an array twice
\* as large.
AppendRest ==
    /\ StepBeside(cancel)
    /\ match.pc = "add"
    /\ LET h == header[match.side]
           grown == Append(Elements(h), match.object)
           capacity == Len(heap[h.at])
           room == h.len < capacity
           at == IF room THEN h.at ELSE Fresh
       IN  /\ heap' = [heap EXCEPT ![at] =
                          IF room THEN [@ EXCEPT ![h.len + 1] = match.object]
                          ELSE Padded(grown, IF h.len = 0 THEN 1 ELSE 2 * h.len)]
           /\ match' = [match EXCEPT !.pc = "added", !.words = Words,
                            !.next = [at |-> at, len |-> h.len + 1],
                            !.walked = [at |-> at, len |-> 0]]
    /\ UNCHANGED <<header, remaining, cancel, arrived, pending, gone, filled>>
    /\ Alive

StoreAppended ==
    /\ StepBeside(cancel)
    /\ match.pc = "added"
    /\ \E w \in match.words :
        /\ header' = Stored(match.side, match, w)
        /\ match' = IF match.words = {w} THEN Idle
                    ELSE [match EXCEPT !.words = @ \ {w}]
    /\ UNCHANGED <<heap, remaining, cancel, arrived, pending, gone, filled>>
    /\ Alive

-----------------------------------------------------------------------------
(* Cancel                                                                   *)

Positions(side, e) ==
    {k \in 1..header[side].len : Element(header[side], k) = e}

\* A range loop reads up to the order it looks for; nil before it is a panic.
ReadsNil(side, e) ==
    \E k \in 1..header[side].len :
        /\ Element(header[side], k) = NoEntry
        /\ \A j \in Positions(side, e) : k < j

\* Both range loops: the bids first, and the first match in each.  Not found
\* is Cancel returning false, after which the goroutine is where "otherwise"
\* says.
Look(e, otherwise) ==
    LET side == IF Positions("buy", e) # {} THEN "buy" ELSE "sell"
        found == Positions(side, e)
    IN  IF ReadsNil("buy", e) \/ (side = "sell" /\ ReadsNil("sell", e))
        THEN Panic
        ELSE /\ pending' = pending \ {e}
             /\ cancel' = IF found = {} THEN otherwise
                          ELSE [Idle EXCEPT !.pc = "found", !.object = e, !.side = side,
                                    !.index = Min(found)]
             /\ UNCHANGED <<heap, header, remaining, match, arrived, gone, filled>>
             /\ Alive

\* ProcessCancelled asks the book of the message's market, and when that does
\* not have the order every book, hence this one again.
Scan ==
    /\ StepBeside(match)
    /\ cancel.pc = "idle"
    /\ \E e \in pending : Look(e, [Idle EXCEPT !.pc = "again", !.object = e])

ScanAgain ==
    /\ StepBeside(match)
    /\ cancel.pc = "again"
    /\ Look(cancel.object, Idle)

\* append(s[:i], s[i+1:]...) on the field as it is now, which need not be the
\* slice the index was found in.
Shift ==
    /\ StepBeside(match)
    /\ cancel.pc = "found"
    /\ LET h == header[cancel.side]
           i == cancel.index
       IN  IF i <= h.len /\ h.len <= Len(heap[h.at])
           THEN /\ heap' = [heap EXCEPT ![h.at] =
                               [k \in DOMAIN @ |-> IF k \in i..(h.len - 1)
                                                   THEN @[k + 1] ELSE @[k]]]
                /\ cancel' = [cancel EXCEPT !.pc = "shifted", !.words = Words,
                                  !.next = [at |-> h.at, len |-> h.len - 1]]
                /\ UNCHANGED <<header, remaining, match, arrived, pending, gone, filled>>
                /\ Alive
           ELSE Panic

\* Seeded fault for StoreShifted: the order reported is the one that is at the
\* index by now.
StoreShiftedNamesNext ==
    /\ StepBeside(match)
    /\ cancel.pc = "shifted"
    /\ \E w \in cancel.words :
        /\ header' = Stored(cancel.side, cancel, w)
        /\ IF cancel.words = {w}
           THEN /\ cancel' = Idle
                /\ gone' = gone \cup {Element(cancel.next, cancel.index)}
           ELSE /\ cancel' = [cancel EXCEPT !.words = @ \ {w}]
                /\ UNCHANGED gone
    /\ UNCHANGED <<heap, remaining, match, arrived, pending, filled>>
    /\ Alive

StoreShifted ==
    /\ StepBeside(match)
    /\ cancel.pc = "shifted"
    /\ \E w \in cancel.words :
        /\ header' = Stored(cancel.side, cancel, w)
        /\ IF cancel.words = {w}
           THEN /\ cancel' = Idle
                /\ gone' = gone \cup {cancel.object}
           ELSE /\ cancel' = [cancel EXCEPT !.words = @ \ {w}]
                /\ UNCHANGED gone
    /\ UNCHANGED <<heap, remaining, match, arrived, pending, filled>>
    /\ Alive

Next ==
    \/ BeginMatch \/ Iterate \/ Prune \/ StorePruned \/ AppendRest \/ StoreAppended
    \/ Scan \/ ScanAgain \/ Shift \/ StoreShifted

Spec == Init /\ [][Next]_vars
-----------------------------------------------------------------------------

GoroutineState ==
    [pc : {"idle", "loop", "pruned", "add", "added", "again", "found", "shifted"},
     object : Entry \cup {NoEntry}, side : Side, index : Nat,
     walked : Header, next : Header, words : SUBSET Words]

TypeOK ==
    /\ heap \in [Address -> Seq(Entry \cup {NoEntry})]
    /\ header \in [Side -> Header]
    /\ remaining \in [Entry -> Int]
    /\ match \in GoroutineState
    /\ cancel \in GoroutineState
    /\ arrived \in 0..Len(Arrivals)
    /\ pending \subseteq ToCancel
    /\ gone \subseteq ToCancel
    /\ filled \in [Entry -> Nat]
    /\ crashed \in BOOLEAN
    /\ overlapped \in BOOLEAN

OnBook == ToSet(Elements(header["buy"])) \cup ToSet(Elements(header["sell"]))

\* Whatever the two goroutines do to the slices, no order trades more than its
\* size.  A damaged slice can show an order twice, or one that is filled or
\* cancelled; a fill is still the smaller of what two orders have left
\* (book.go:84), and no taker is met as its own maker.
NeverOverfilled ==
    \A e \in Entry : filled[e] <= Object[e].size

\* Between calls that never overlapped, the book is what it should be: the
\* objects with something left, less the cancelled, and no goroutine panicked.
SoundWithoutOverlap ==
    ~ overlapped =>
        /\ ~ crashed
        /\ match.pc = "idle" /\ cancel.pc = "idle" =>
              OnBook = {e \in (ToSet(AtRest["buy"]) \cup ToSet(AtRest["sell"])
                                 \cup ToSet(SubSeq(Arrivals, 1, arrived))) \ gone :
                           remaining[e] > 0}

\* "Cancel removes a resting order from the book by ID.  Returns true if the
\* order was found and removed" (book.go:160-161): when no call is running,
\* no order for which Cancel returned true is on the book.
CancelledIsGone ==
    match.pc = "idle" /\ cancel.pc = "idle" /\ ~ crashed => gone \cap OnBook = {}
=============================================================================
