--------------------------- MODULE OrderBookProofs ---------------------------
(***************************************************************************)
(* Proofs about OrderBook.tla, for any set of orders, prices, sizes and     *)
(* times: its invariants, and that it implements PriceTimeBook.             *)
(***************************************************************************)
EXTENDS OrderBook, DataTheorems, FiniteSetTheorems, SequenceTheorems, TLAPS

-----------------------------------------------------------------------------
(* The inductive invariant.                                                 *)

\* The strengthening of the properties of OrderBook that is inductive.
BookInv ==
    /\ \A side \in Side : IsInjective(book[side])
    /\ \A side \in Side : \A e \in Resting(side) : order[e].side = side
    /\ \A e \in used : remaining[e] >= 0
    /\ pc # "match" => \A side \in Side : \A e \in Resting(side) : remaining[e] > 0
    /\ pc = "restore" => used = restored

\* Inside the loop the makers are sorted, those already visited are filled
\* unless the taker is, and everything else on the book is untouched.
LoopInv ==
    pc = "match" =>
        /\ taker \in used \ restored
        /\ \A side \in Side : taker \notin Resting(side)
        /\ \A e \in Resting(order[taker].side) : remaining[e] > 0
        /\ Sorted(MakerSide, book[MakerSide])
        /\ index <= Len(book[MakerSide]) + 1
        /\ \A j \in DOMAIN book[MakerSide] :
              IF j < index
              THEN remaining[taker] = 0 \/ remaining[book[MakerSide][j]] = 0
              ELSE remaining[book[MakerSide][j]] > 0

IInv == TypeOK /\ BookInv /\ LoopInv /\ OnlyRestoredOrdersCross

-----------------------------------------------------------------------------
(* What the operations on the slices keep.                                  *)

LEMMA ArrangementFacts ==
    ASSUME NEW S, NEW s \in Seq(S), NEW t \in Arrangements(s)
    PROVE  /\ t \in Seq(S)
           /\ Len(t) = Len(s)
           /\ ToSet(t) = ToSet(s)
           /\ IsInjective(s) => IsInjective(t)
<1>1. PICK p \in Bijection(DOMAIN s, DOMAIN s) : t = [i \in DOMAIN s |-> s[p[i]]]
  BY DEF Arrangements
<1>2. /\ p \in [DOMAIN s -> DOMAIN s]
      /\ \A a, b \in DOMAIN s : p[a] = p[b] => a = b
      /\ \A j \in DOMAIN s : \E i \in DOMAIN s : p[i] = j
  BY <1>1 DEF Bijection, Injection, Surjection, IsInjective
<1>3. /\ DOMAIN s = 1..Len(s) /\ Len(s) \in Nat
      /\ \A i \in DOMAIN s : s[i] \in S
  BY SeqFacts
<1>4. t \in Seq(S) /\ Len(t) = Len(s) /\ DOMAIN t = DOMAIN s
  BY <1>1, <1>2, <1>3
<1>5. ToSet(t) = ToSet(s)
  BY <1>1, <1>2, <1>4 DEF ToSet
<1>6. IsInjective(s) => IsInjective(t)
  BY <1>1, <1>2, <1>4 DEF IsInjective
<1> QED
  BY <1>4, <1>5, <1>6

LEMMA PrunedFacts ==
    ASSUME NEW S, NEW s \in Seq(S), NEW t \in Pruned(s)
    PROVE  /\ t \in Seq(S)
           /\ ToSet(t) = {x \in ToSet(s) : remaining[x] > 0}
           /\ IsInjective(s) => IsInjective(t)
<1> DEFINE live == {i \in DOMAIN s : remaining[s[i]] > 0}
           n == Cardinality(live)
<1>1. PICK f \in Surjection(1..n, live) :
          /\ \A i, j \in DOMAIN f : i < j => f[i] < f[j]
          /\ t = [i \in DOMAIN f |-> s[f[i]]]
  BY DEF Pruned
<1>2. /\ DOMAIN s = 1..Len(s) /\ Len(s) \in Nat
      /\ \A i \in DOMAIN s : s[i] \in S
  BY SeqFacts
<1>3. n \in Nat
  <2>1. IsFiniteSet(DOMAIN s)
    BY <1>2, FS_Interval
  <2>2. IsFiniteSet(live)
    BY <2>1, FS_Subset
  <2> QED
    BY <2>2, FS_CardinalityType
<1> HIDE DEF n
<1>4. /\ f \in [1..n -> live]
      /\ \A j \in live : \E i \in 1..n : f[i] = j
  BY <1>1 DEF Surjection
<1>5. t \in Seq(S) /\ DOMAIN t = 1..n
  BY <1>1, <1>2, <1>3, <1>4
<1>6. ToSet(t) = {x \in ToSet(s) : remaining[x] > 0}
  BY <1>1, <1>4, <1>5 DEF ToSet
<1>7. \A i, j \in 1..n : f[i] = f[j] => i = j
  <2>1. DOMAIN f = 1..n /\ \A i \in 1..n : f[i] \in Int
    BY <1>2, <1>4
  <2>2. \A i, j \in 1..n : i < j => f[i] < f[j]
    BY <1>1, <2>1
  <2> HIDE DEF live
  <2> QED
    BY <1>3, <2>1, <2>2
<1>8. IsInjective(s) => IsInjective(t)
  BY <1>1, <1>4, <1>5, <1>7 DEF IsInjective
<1> QED
  BY <1>5, <1>6, <1>8

-----------------------------------------------------------------------------
(* Type correctness.                                                        *)

LEMMA SideFacts ==
    /\ \A side \in Side : Opposite(side) \in Side /\ Opposite(side) # side
    /\ \A a, b \in Side : a # b => b = Opposite(a)
  BY DEF Side, Opposite

LEMMA TypeInit == Init => TypeOK
  BY DEF Init, TypeOK, Side

LEMMA AllocateType ==
    ASSUME TypeOK, NEW e \in Entry, NEW o \in OrderRecord, Allocate(e, o)
    PROVE  /\ used' = used \cup {e} /\ e \notin used
           /\ used' \subseteq Entry
           /\ order' \in [used' -> OrderRecord]
           /\ remaining' \in [used' -> Int]
           /\ order'[e] = o /\ remaining'[e] = o.size
           /\ \A x \in used : order'[x] = order[x] /\ remaining'[x] = remaining[x]
<1>1. o.size \in Int
  BY DataAssumption DEF OrderRecord
<1> QED
  BY <1>1 DEF TypeOK, Allocate, With

LEMMA TypeStep == TypeOK /\ [Next]_vars => TypeOK'
<1> SUFFICES ASSUME TypeOK, [Next]_vars PROVE TypeOK'
  OBVIOUS
<1>0. \A side \in Side : book[side] \in Seq(used)
  BY DEF TypeOK
<1>1. CASE StartConsumers
  BY <1>1 DEF StartConsumers, TypeOK
<1>2. ASSUME NEW e \in Entry, NEW o \in OrderRecord, Restore(e, o)
      PROVE  TypeOK'
  <2>1. o.side \in Side
    BY DEF OrderRecord
  <2>2. used' = used \cup {e}
    BY <1>2 DEF Restore, Allocate
  <2>3. \A side \in Side : book[side] \in Seq(used')
    BY <1>0, <2>2, SeqMonotonic
  <2>4. book' \in [Side -> Seq(used')]
    BY <1>2, <2>1, <2>2, <2>3, AppendFacts DEF TypeOK, Restore, Added
  <2> QED
    BY <1>2, <2>4, AllocateType DEF TypeOK, Restore
<1>3. ASSUME NEW e \in Entry, NEW o \in OrderRecord, BeginMatch(e, o)
      PROVE  TypeOK'
  <2>1. Opposite(o.side) \in Side
    BY SideFacts DEF OrderRecord
  <2>2. used' = used \cup {e}
    BY <1>3 DEF BeginMatch, Allocate
  <2>3. \A side \in Side : book[side] \in Seq(used')
    BY <1>0, <2>2, SeqMonotonic
  <2>4. book' \in [Side -> Seq(used')]
    BY <1>3, <2>1, <2>3, ArrangementFacts DEF TypeOK, BeginMatch
  <2>5. /\ pc' = "match" /\ taker' = e /\ index' = 1
        /\ UNCHANGED <<trades, restored>>
    BY <1>3 DEF BeginMatch
  <2>6. /\ used' \subseteq Entry
        /\ order' \in [used' -> OrderRecord]
        /\ remaining' \in [used' -> Int]
    BY <1>3, AllocateType DEF BeginMatch
  <2> QED
    BY <2>2, <2>4, <2>5, <2>6 DEF TypeOK
<1>4. CASE Iterate
  <2> DEFINE m == book[MakerSide][index]
             size == Smaller(remaining[taker], remaining[m])
             fill == [maker |-> m, taker |-> taker, price |-> order[m].price,
                      size |-> size, makerRemaining |-> remaining[m] - size,
                      takerRemaining |-> remaining[taker] - size]
  <2>1. /\ remaining' = remaining \/
           remaining' = [remaining EXCEPT ![taker] = @ - size, ![m] = @ - size]
        /\ trades' = trades \/ trades' = Append(trades, fill)
    BY <1>4 DEF Iterate
  <2>2. taker \in used /\ order[taker].side \in Side
    BY <1>4 DEF Iterate, TypeOK, OrderRecord
  <2>3. MakerSide \in Side
    BY <2>2, SideFacts DEF MakerSide
  <2>4. index \in DOMAIN book[MakerSide]
    BY <1>0, <1>4, <2>3 DEF Iterate, LoopGoesOn, TypeOK
  <2>5. m \in used
    BY <1>0, <2>3, <2>4, SeqFacts
  <2> HIDE DEF m
  <2>6. size \in Int
    BY <2>2, <2>5 DEF TypeOK, Smaller
  <2> HIDE DEF size
  <2>7. remaining' \in [used -> Int]
    BY <2>1, <2>2, <2>5, <2>6 DEF TypeOK
  <2>8. fill \in Fill
    BY <2>2, <2>5, <2>6 DEF TypeOK, Fill, OrderRecord
  <2> HIDE DEF fill
  <2>9. trades' \in Seq(Fill)
    <3>1. trades \in Seq(Fill)
      BY DEF TypeOK
    <3>2. Append(trades, fill) \in Seq(Fill)
      BY <2>8, <3>1, AppendFacts
    <3> QED
      BY <2>1, <3>1, <3>2
  <2> QED
    BY <1>4, <2>7, <2>9 DEF TypeOK, Iterate
<1>5. CASE EndMatch
  <2>0. taker \in used /\ order[taker].side \in Side
    BY <1>5 DEF EndMatch, TypeOK, OrderRecord
  <2>1. MakerSide \in Side /\ MakerSide # order[taker].side
    BY <2>0, SideFacts DEF MakerSide
  <2>2. PICK kept \in Pruned(book[MakerSide]) :
            book' = [book EXCEPT
                        ![MakerSide] = kept,
                        ![order[taker].side] =
                            IF remaining[taker] > 0 THEN Append(@, taker) ELSE @]
    BY <1>5 DEF EndMatch
  <2>3. kept \in Seq(used)
    BY <1>0, <2>1, PrunedFacts
  <2>4. Append(book[order[taker].side], taker) \in Seq(used)
    BY <1>0, <2>0, AppendFacts
  <2>5. book' \in [Side -> Seq(used)]
    BY <1>0, <2>0, <2>1, <2>2, <2>3, <2>4 DEF TypeOK
  <2>6. /\ pc' = "idle" /\ taker' = NoEntry /\ index' = 1
        /\ UNCHANGED <<order, remaining, used, trades, restored>>
    BY <1>5 DEF EndMatch
  <2> QED
    BY <2>5, <2>6 DEF TypeOK
<1>6. ASSUME NEW id \in Id, Cancel(id)
      PROVE  TypeOK'
  <2>1. PICK side \in Side : \E i \in DOMAIN book[side] :
            book' = [book EXCEPT ![side] = RemoveAt(@, i)]
    BY <1>6 DEF Cancel
  <2>2. book' \in [Side -> Seq(used)]
    BY <1>0, <2>1, RemoveAtFacts DEF TypeOK
  <2> QED
    BY <1>6, <2>2 DEF TypeOK, Cancel
<1>7. CASE UNCHANGED vars
  BY <1>7 DEF TypeOK, vars
<1> QED
  BY <1>1, <1>2, <1>3, <1>4, <1>5, <1>6, <1>7 DEF Next

\* Every reachable state has the declared types: pointers on the book point
\* to allocated orders, and the loop variables exist only inside the loop.
THEOREM TypeCorrect == Spec => []TypeOK
  BY TypeInit, TypeStep, PTL DEF Spec

-----------------------------------------------------------------------------
(* The inductive invariant.                                                 *)

LEMMA RestingFacts ==
    ASSUME TypeOK, NEW side \in Side
    PROVE  /\ book[side] \in Seq(used)
           /\ Resting(side) \subseteq used
           /\ \A e \in Resting(side) : order[e] \in OrderRecord /\ remaining[e] \in Int
  BY SeqFacts DEF TypeOK, Resting

\* When the loop has stopped and the taker has something left, no maker that
\* has something left meets its price: those before the index are filled, and
\* those from the index on are sorted behind one that does not.
LEMMA NothingLeftToMatch ==
    ASSUME TypeOK, LoopInv, pc = "match", ~ LoopGoesOn, remaining[taker] > 0,
           NEW x \in Resting(MakerSide), remaining[x] > 0
    PROVE  ~ PricesCross(order[taker].side, order[taker].price, order[x].price)
<1> DEFINE s == book[MakerSide]
<1>1. taker \in used /\ order[taker] \in OrderRecord
  BY DEF TypeOK
<1>2. MakerSide \in Side
  BY <1>1, SideFacts DEF MakerSide, OrderRecord
<1>3. s \in Seq(used) /\ Len(s) \in Nat /\ DOMAIN s = 1..Len(s)
  BY <1>2, RestingFacts, SeqFacts
<1>4. PICK j \in DOMAIN s : s[j] = x
  BY DEF Resting, ToSet
<1>5. index \in Nat \ {0} /\ ~ (j < index)
  BY <1>4 DEF TypeOK, LoopInv
<1>6. index \in DOMAIN s
  BY <1>3, <1>4, <1>5
<1>7. ~ PricesCross(order[taker].side, order[taker].price, order[s[index]].price)
  BY <1>3, <1>6 DEF LoopGoesOn
<1>8. j = index \/ ~ Before(MakerSide, order[x], order[s[index]])
  BY <1>3, <1>4, <1>5, <1>6 DEF LoopInv, Sorted
<1>9. order[x] \in OrderRecord /\ order[s[index]] \in OrderRecord
  BY <1>2, <1>6, RestingFacts DEF Resting, ToSet
<1>10. /\ order[x].price \in Int
       /\ order[s[index]].price \in Int
       /\ order[taker].price \in Int
       /\ order[taker].side \in {"buy", "sell"}
  BY <1>1, <1>9, DataAssumption DEF OrderRecord, Side
<1>11. CASE j = index
  BY <1>4, <1>7, <1>11
<1>12. CASE ~ Before(MakerSide, order[x], order[s[index]])
  BY <1>7, <1>10, <1>12 DEF Before, PricesCross, MakerSide, Opposite
<1> QED
  BY <1>8, <1>11, <1>12

LEMMA InvInit == Init => IInv
  BY TypeInit
  DEF Init, IInv, BookInv, LoopInv, OnlyRestoredOrdersCross, Resting, ToSet,
      Side, IsInjective

LEMMA RestoreInv ==
    ASSUME IInv, NEW e \in Entry, NEW o \in OrderRecord, Restore(e, o)
    PROVE  BookInv' /\ LoopInv' /\ OnlyRestoredOrdersCross'
<1> USE DEF IInv
<1>1. /\ pc = "restore" /\ pc' = "restore" /\ o.size > 0
      /\ restored' = restored \cup {e}
      /\ book' = [book EXCEPT ![o.side] = Append(@, e)]
  BY DEF Restore, Added
<1>2. /\ used' = used \cup {e} /\ e \notin used
      /\ order'[e] = o /\ remaining'[e] = o.size
      /\ \A x \in used : order'[x] = order[x] /\ remaining'[x] = remaining[x]
  BY AllocateType DEF Restore
<1>3. /\ o.side \in Side
      /\ \A side \in Side : Resting(side) \subseteq used /\ e \notin Resting(side)
  BY <1>2, RestingFacts DEF OrderRecord
<1>4. /\ book'[o.side] = Append(book[o.side], e)
      /\ \A side \in Side : side # o.side => book'[side] = book[side]
  BY <1>1, <1>3 DEF TypeOK
<1>5. book[o.side] \in Seq(used \cup {e})
  BY <1>3, RestingFacts, SeqMonotonic
<1>6. /\ Resting(o.side)' = Resting(o.side) \cup {e}
      /\ IsInjective(book'[o.side])
  BY <1>3, <1>4, <1>5, AppendFacts DEF Resting, BookInv
<1>7. \A side \in Side : side # o.side => Resting(side)' = Resting(side)
  BY <1>4 DEF Resting
<1>8. o.size \in Int
  BY DataAssumption DEF OrderRecord
<1>9. BookInv'
  <2>1. \A side \in Side : IsInjective(book'[side])
    BY <1>4, <1>6 DEF BookInv
  <2>2. \A side \in Side : \A x \in Resting(side)' : order'[x].side = side
    BY <1>2, <1>3, <1>6, <1>7 DEF BookInv
  <2>3. \A x \in used' : remaining'[x] >= 0
    BY <1>1, <1>2, <1>8 DEF BookInv
  <2>4. \A side \in Side : \A x \in Resting(side)' : remaining'[x] > 0
    BY <1>1, <1>2, <1>3, <1>6, <1>7 DEF BookInv
  <2>5. used' = restored'
    BY <1>1, <1>2 DEF BookInv
  <2> QED
    BY <2>1, <2>2, <2>3, <2>4, <2>5 DEF BookInv
<1>10. OnlyRestoredOrdersCross'
  <2>1. \A side \in Side : Resting(side)' \subseteq restored'
    BY <1>1, <1>3, <1>6, <1>7 DEF BookInv
  <2> QED
    BY <2>1 DEF OnlyRestoredOrdersCross, Side
<1> QED
  BY <1>1, <1>9, <1>10 DEF LoopInv

LEMMA BeginMatchInv ==
    ASSUME IInv, NEW e \in Entry, NEW o \in OrderRecord, BeginMatch(e, o)
    PROVE  BookInv' /\ LoopInv' /\ OnlyRestoredOrdersCross'
<1> USE DEF IInv
<1> DEFINE maker == Opposite(o.side)
<1>1. /\ pc = "idle" /\ pc' = "match" /\ taker' = e /\ index' = 1
      /\ restored' = restored /\ o.size > 0
  BY DEF BeginMatch
<1>2. /\ used' = used \cup {e} /\ e \notin used
      /\ order'[e] = o /\ remaining'[e] = o.size
      /\ \A x \in used : order'[x] = order[x] /\ remaining'[x] = remaining[x]
  BY AllocateType DEF BeginMatch
<1>3. PICK s \in Arrangements(book[maker]) :
          Sorted(maker, s) /\ book' = [book EXCEPT ![maker] = s]
  BY DEF BeginMatch
<1>4. o.side \in Side /\ maker \in Side /\ maker # o.side
  BY SideFacts DEF OrderRecord
<1>5. \A side \in Side : Resting(side) \subseteq used /\ e \notin Resting(side)
  BY <1>2, RestingFacts
<1>6. /\ book'[maker] = s
      /\ \A side \in Side : side # maker => book'[side] = book[side]
  BY <1>3, <1>4 DEF TypeOK
<1>7. book[maker] \in Seq(used)
  BY <1>4, RestingFacts
<1>8. \A side \in Side : Resting(side)' = Resting(side) /\ IsInjective(book'[side])
  BY <1>6, <1>7, ArrangementFacts DEF Resting, BookInv
<1>9. o.size \in Int
  BY DataAssumption DEF OrderRecord
<1>10. \A side \in Side : \A x \in Resting(side) : remaining[x] > 0
  BY <1>1 DEF BookInv
<1>11. s \in Seq(used) /\ DOMAIN s = 1..Len(s) /\ Len(s) \in Nat
       /\ \A i \in DOMAIN s : s[i] \in Resting(maker)
  <2>1. s \in Seq(used) /\ ToSet(s) = Resting(maker)
    BY <1>7, ArrangementFacts DEF Resting
  <2> QED
    BY <2>1, SeqFacts DEF ToSet
<1>12. BookInv'
  <2>1. \A side \in Side : \A x \in Resting(side)' : order'[x].side = side
    BY <1>2, <1>5, <1>8 DEF BookInv
  <2>2. \A x \in used' : remaining'[x] >= 0
    BY <1>1, <1>2, <1>9 DEF BookInv
  <2> QED
    BY <1>1, <1>8, <2>1, <2>2 DEF BookInv
<1>13. LoopInv'
  <2>1. MakerSide' = maker /\ order'[taker'].side = o.side
    BY <1>1, <1>2 DEF MakerSide
  <2>2. taker' \in used' \ restored'
    BY <1>1, <1>2 DEF TypeOK
  <2>3. \A side \in Side : taker' \notin Resting(side)'
    BY <1>1, <1>5, <1>8
  <2>4. \A x \in Resting(o.side)' : remaining'[x] > 0
    BY <1>2, <1>4, <1>5, <1>8, <1>10
  <2>5. Sorted(maker, s)'
    BY <1>2, <1>3, <1>4, <1>5, <1>11 DEF Sorted
  <2>6. Sorted(MakerSide, book[MakerSide])'
    BY <1>6, <2>1, <2>5 DEF Sorted
  <2>7. 1 <= Len(s) + 1 /\ \A j \in DOMAIN s : ~ (j < 1) /\ remaining'[s[j]] > 0
    BY <1>2, <1>4, <1>5, <1>10, <1>11
  <2> QED
    BY <1>1, <1>6, <2>1, <2>2, <2>3, <2>4, <2>6, <2>7 DEF LoopInv
<1>14. OnlyRestoredOrdersCross'
  BY <1>1, <1>2, <1>5, <1>8 DEF OnlyRestoredOrdersCross, Side
<1> QED
  BY <1>12, <1>13, <1>14

LEMMA IterateInv ==
    ASSUME IInv, Iterate
    PROVE  BookInv' /\ LoopInv' /\ OnlyRestoredOrdersCross'
<1> USE DEF IInv
<1> DEFINE s == book[MakerSide]
           m == s[index]
           size == Smaller(remaining[taker], remaining[m])
<1>1. /\ pc = "match" /\ LoopGoesOn /\ index' = index + 1
      /\ UNCHANGED <<order, used, book, pc, taker, restored>>
  BY DEF Iterate
<1>2. taker \in used /\ order[taker].side \in Side /\ remaining[taker] \in Int
  BY <1>1 DEF TypeOK, OrderRecord
<1>3. MakerSide \in Side /\ MakerSide # order[taker].side
  BY <1>2, SideFacts DEF MakerSide
<1>4. s \in Seq(used) /\ DOMAIN s = 1..Len(s) /\ Len(s) \in Nat
  BY <1>3, RestingFacts, SeqFacts
<1>5. index \in DOMAIN s /\ index \in Nat /\ remaining[taker] > 0
  BY <1>1, <1>4 DEF LoopGoesOn, TypeOK
<1>6. m \in Resting(MakerSide) /\ m \in used /\ remaining[m] \in Int
  BY <1>3, <1>5, RestingFacts DEF Resting, ToSet
<1>7. \A side \in Side : taker \notin Resting(side)
  BY <1>1 DEF LoopInv
<1>8. m # taker
  BY <1>3, <1>6, <1>7
<1>9. remaining[m] > 0
  BY <1>1, <1>5 DEF LoopInv
<1>10. size > 0 /\ size <= remaining[taker] /\ size <= remaining[m] /\ size \in Int
       /\ (size = remaining[taker] \/ size = remaining[m])
  BY <1>2, <1>5, <1>6, <1>9 DEF Smaller
<1>11. remaining' = [remaining EXCEPT ![taker] = @ - size, ![m] = @ - size]
  BY <1>10 DEF Iterate
<1> HIDE DEF size
<1>12. /\ remaining'[taker] = remaining[taker] - size
       /\ remaining'[m] = remaining[m] - size
       /\ \A x \in used : x # taker /\ x # m => remaining'[x] = remaining[x]
  BY <1>2, <1>6, <1>8, <1>11 DEF TypeOK
<1>13. \A side \in Side : Resting(side)' = Resting(side) /\ Resting(side) \subseteq used
  BY <1>1, RestingFacts DEF Resting
<1> HIDE DEF m
<1>14. BookInv'
  <2>1. \A x \in used : remaining'[x] >= 0
    BY <1>2, <1>6, <1>10, <1>12 DEF BookInv
  <2> QED
    BY <1>1, <1>13, <2>1 DEF BookInv
<1>15. m \notin Resting(order[taker].side)
  BY <1>2, <1>3, <1>6 DEF BookInv
<1>16. LoopInv'
  <2>1. MakerSide' = MakerSide /\ s' = s /\ order' = order /\ taker' = taker
    BY <1>1 DEF MakerSide
  <2>2. \A x \in Resting(order[taker].side) : remaining'[x] > 0
    BY <1>1, <1>2, <1>7, <1>12, <1>13, <1>15 DEF LoopInv
  <2>3. Sorted(MakerSide, s)'
    BY <1>1, <2>1 DEF LoopInv, Sorted
  <2>4. index' <= Len(s) + 1
    BY <1>1, <1>4, <1>5
  <2>5. ASSUME NEW j \in DOMAIN s, j < index'
        PROVE  remaining'[taker] = 0 \/ remaining'[s[j]] = 0
    <3>1. CASE j = index
      BY <1>2, <1>6, <1>10, <1>12, <3>1 DEF m
    <3>2. CASE j < index
      <4>1. remaining[s[j]] = 0
        BY <1>1, <1>5, <3>2 DEF LoopInv
      <4>2. s[j] \in used /\ s[j] # taker /\ s[j] # m
        BY <1>3, <1>6, <1>7, <1>9, <1>13, <4>1 DEF Resting, ToSet
      <4> QED
        BY <1>12, <4>1, <4>2
    <3> QED
      BY <1>1, <1>4, <1>5, <2>5, <3>1, <3>2
  <2>6. ASSUME NEW j \in DOMAIN s, ~ (j < index')
        PROVE  remaining'[s[j]] > 0
    <3>1. j # index /\ ~ (j < index)
      BY <1>1, <1>4, <1>5, <2>6
    <3>2. remaining[s[j]] > 0
      BY <1>1, <3>1 DEF LoopInv
    <3>3. s[j] # m
      BY <1>3, <1>5, <3>1 DEF m, BookInv, IsInjective
    <3>4. s[j] \in used /\ s[j] # taker
      BY <1>3, <1>7, <1>13 DEF Resting, ToSet
    <3> QED
      BY <1>12, <3>2, <3>3, <3>4
  <2>7. taker' \in used' \ restored' /\ \A side \in Side : taker' \notin Resting(side)'
    BY <1>1, <1>13 DEF LoopInv
  <2> QED
    BY <1>13, <2>1, <2>2, <2>3, <2>4, <2>5, <2>6, <2>7, <1>2 DEF LoopInv
<1>17. OnlyRestoredOrdersCross'
  BY <1>1, <1>13 DEF OnlyRestoredOrdersCross, Side
<1> QED
  BY <1>14, <1>16, <1>17

LEMMA EndMatchInv ==
    ASSUME IInv, EndMatch
    PROVE  BookInv' /\ LoopInv' /\ OnlyRestoredOrdersCross'
<1> USE DEF IInv
<1>1. /\ pc = "match" /\ ~ LoopGoesOn /\ pc' = "idle"
      /\ UNCHANGED <<order, remaining, used, restored>>
  BY DEF EndMatch
<1>2. /\ taker \in used
      /\ order[taker].side \in Side
      /\ order[taker].price \in Int
      /\ MakerSide \in Side /\ MakerSide # order[taker].side
  BY <1>1, DataAssumption, SideFacts DEF TypeOK, OrderRecord, MakerSide
\* Constants, so that priming a formula leaves them alone.
<1>3. PICK t \in used, own \in Side, maker \in Side :
          t = taker /\ own = order[taker].side /\ maker = MakerSide
  BY <1>2
<1>4. own # maker /\ \A side \in Side : side = maker \/ side = own
  BY <1>2, <1>3 DEF Side
<1> DEFINE rests == IF remaining[t] > 0 THEN {t} ELSE {}
<1>5. PICK kept \in Pruned(book[maker]) :
          book' = [book EXCEPT
                      ![maker] = kept,
                      ![own] = IF remaining[t] > 0 THEN Append(@, t) ELSE @]
  BY <1>3 DEF EndMatch
<1>6. /\ book'[maker] = kept
      /\ book'[own] = IF remaining[t] > 0 THEN Append(book[own], t) ELSE book[own]
  BY <1>4, <1>5 DEF TypeOK
<1>7. /\ Resting(maker)' = {x \in Resting(maker) : remaining[x] > 0}
      /\ IsInjective(book'[maker])
  <2>1. book[maker] \in Seq(used) /\ IsInjective(book[maker])
    BY RestingFacts DEF BookInv
  <2> QED
    BY <1>6, <2>1, PrunedFacts DEF Resting
<1>8. /\ Resting(own)' = Resting(own) \cup rests
      /\ IsInjective(book'[own])
  <2>1. /\ book[own] \in Seq(used) /\ IsInjective(book[own])
        /\ t \notin ToSet(book[own])
    BY <1>1, <1>3, RestingFacts DEF BookInv, LoopInv, Resting
  <2>2. CASE remaining[t] > 0
    BY <1>6, <2>1, <2>2, AppendFacts DEF Resting
  <2>3. CASE ~ (remaining[t] > 0)
    BY <1>6, <2>1, <2>3 DEF Resting
  <2> QED
    BY <2>2, <2>3
<1>9. BookInv'
  <2>1. \A side \in Side : IsInjective(book'[side])
    BY <1>4, <1>7, <1>8
  <2>2. \A x \in Resting(maker)' : order[x].side = maker /\ remaining[x] > 0
    BY <1>7 DEF BookInv
  <2>3. \A x \in Resting(own)' : order[x].side = own /\ remaining[x] > 0
    BY <1>1, <1>3, <1>8 DEF BookInv, LoopInv
  <2> QED
    BY <1>1, <1>4, <2>1, <2>2, <2>3 DEF BookInv
<1>10. OnlyRestoredOrdersCross'
  <2>1. SUFFICES ASSUME NEW b \in Resting("buy")', NEW a \in Resting("sell")',
                        order[b].price >= order[a].price
                 PROVE  {a, b} \subseteq restored
    BY <1>1 DEF OnlyRestoredOrdersCross, PricesCross
  <2>2. CASE b \in Resting("buy") /\ a \in Resting("sell")
    BY <2>1, <2>2 DEF OnlyRestoredOrdersCross, PricesCross
  <2>3. ASSUME NEW x \in Resting(maker), remaining[x] > 0, remaining[t] > 0
        PROVE  ~ PricesCross(own, order[t].price, order[x].price)
    BY <1>1, <1>3, <2>3, NothingLeftToMatch
  <2>4. CASE own = "buy" /\ maker = "sell" /\ b \notin Resting("buy")
    <3>1. b = t /\ remaining[t] > 0
      BY <1>8, <2>4
    <3>2. a \in Resting(maker) /\ remaining[a] > 0
      BY <1>7, <2>4
    <3> QED
      BY <2>1, <2>3, <2>4, <3>1, <3>2 DEF PricesCross
  <2>5. CASE own = "sell" /\ maker = "buy" /\ a \notin Resting("sell")
    <3>1. a = t /\ remaining[t] > 0
      BY <1>8, <2>5
    <3>2. b \in Resting(maker) /\ remaining[b] > 0
      BY <1>7, <2>5
    <3>3. order[t].price \in Int /\ order[b].price \in Int
      BY <1>2, <1>3, <3>2, RestingFacts, DataAssumption DEF OrderRecord
    <3> QED
      BY <2>1, <2>3, <2>5, <3>1, <3>2, <3>3 DEF PricesCross
  <2>6. /\ own = "buy" => maker = "sell" /\ a \in Resting("sell")
        /\ own = "sell" => maker = "buy" /\ b \in Resting("buy")
        /\ own \in {"buy", "sell"}
    BY <1>4, <1>7 DEF Side
  <2> QED
    BY <2>2, <2>4, <2>5, <2>6
<1> QED
  BY <1>1, <1>9, <1>10 DEF LoopInv

LEMMA CancelInv ==
    ASSUME IInv, NEW id \in Id, Cancel(id)
    PROVE  BookInv' /\ LoopInv' /\ OnlyRestoredOrdersCross'
<1> USE DEF IInv
<1>1. /\ pc = "idle"
      /\ UNCHANGED <<order, remaining, used, pc, taker, index, restored>>
  BY DEF Cancel
<1>2. PICK side \in Side : \E i \in DOMAIN book[side] :
          book' = [book EXCEPT ![side] = RemoveAt(@, i)]
  BY DEF Cancel
<1>3. PICK i \in DOMAIN book[side] : book' = [book EXCEPT ![side] = RemoveAt(@, i)]
  BY <1>2
<1>4. /\ book'[side] = RemoveAt(book[side], i)
      /\ \A other \in Side : other # side => book'[other] = book[other]
  BY <1>3 DEF TypeOK
<1>5. book[side] \in Seq(used) /\ IsInjective(book[side])
  BY RestingFacts DEF BookInv
<1>6. \A any \in Side : Resting(any)' \subseteq Resting(any) /\ IsInjective(book'[any])
  BY <1>4, <1>5, RemoveAtFacts DEF Resting, BookInv
<1>7. BookInv'
  BY <1>1, <1>6 DEF BookInv
<1>8. OnlyRestoredOrdersCross'
  BY <1>1, <1>6 DEF OnlyRestoredOrdersCross, Side
<1> QED
  BY <1>1, <1>7, <1>8 DEF LoopInv

LEMMA InvStep == IInv /\ [Next]_vars => IInv'
<1> SUFFICES ASSUME IInv, [Next]_vars PROVE BookInv' /\ LoopInv' /\ OnlyRestoredOrdersCross'
  BY TypeStep DEF IInv
<1>1. CASE StartConsumers
  BY <1>1
  DEF StartConsumers, IInv, BookInv, LoopInv, OnlyRestoredOrdersCross, Resting
<1>2. ASSUME NEW e \in Entry, NEW o \in OrderRecord, Restore(e, o)
      PROVE  BookInv' /\ LoopInv' /\ OnlyRestoredOrdersCross'
  BY <1>2, RestoreInv
<1>3. ASSUME NEW e \in Entry, NEW o \in OrderRecord, BeginMatch(e, o)
      PROVE  BookInv' /\ LoopInv' /\ OnlyRestoredOrdersCross'
  BY <1>3, BeginMatchInv
<1>4. CASE Iterate
  BY <1>4, IterateInv
<1>5. CASE EndMatch
  BY <1>5, EndMatchInv
<1>6. ASSUME NEW id \in Id, Cancel(id)
      PROVE  BookInv' /\ LoopInv' /\ OnlyRestoredOrdersCross'
  BY <1>6, CancelInv
<1>7. CASE UNCHANGED vars
  <2>1. BookInv' /\ OnlyRestoredOrdersCross'
    BY <1>7 DEF IInv, BookInv, OnlyRestoredOrdersCross, Resting, vars
  <2>2. LoopInv'
    BY <1>7 DEF IInv, LoopInv, MakerSide, Resting, Sorted, vars
  <2> QED
    BY <2>1, <2>2
<1> QED
  BY <1>1, <1>2, <1>3, <1>4, <1>5, <1>6, <1>7 DEF Next

LEMMA Invariance == Spec => []IInv
  BY InvInit, InvStep, PTL DEF Spec

\* A bid and an ask that cross are both leftovers of the restore, whatever
\* was matched or cancelled since (book.go:63, engine.go:205).
THEOREM CrossingOrdersWereRestored == Spec => []OnlyRestoredOrdersCross
  BY Invariance, PTL DEF IInv

\* Outside MatchIncoming every order on the book has something left, and no
\* object is on it twice (book.go:178).
THEOREM RestingOrdersAreLive == Spec => []LiveOrdersOnce
<1>1. IInv => LiveOrdersOnce
  BY DEF IInv, BookInv, LiveOrdersOnce
<1> QED
  BY <1>1, Invariance, PTL

\* A fill never passes over an order that is better in price, or as good and
\* older: the makers are walked in the order of the sort (book.go:70, 107).
THEOREM FillsKeepPriority == Spec => PriceTimePriority
<1> DEFINE Priority ==
        trades' # trades =>
            LET f == Last(trades')
                side == order[f.maker].side
            IN  \A n \in Resting(side) :
                    remaining[n] > 0 => ~ Before(side, order[n], order[f.maker])
<1>1. ASSUME IInv, Iterate PROVE Priority
  <2> USE DEF IInv
  <2> DEFINE s == book[MakerSide]
             m == s[index]
  <2>1. taker \in used /\ order[taker].side \in Side /\ pc = "match"
    BY <1>1 DEF Iterate, TypeOK, OrderRecord
  <2>2. MakerSide \in Side
    BY <2>1, SideFacts DEF MakerSide
  <2>3. s \in Seq(used) /\ DOMAIN s = 1..Len(s) /\ Len(s) \in Nat
    BY <1>1, <2>2, RestingFacts, SeqFacts
  <2>4. index \in DOMAIN s /\ index \in Nat /\ remaining[taker] > 0
    BY <1>1, <2>3 DEF Iterate, LoopGoesOn, TypeOK
  <2>5. m \in Resting(MakerSide) /\ order[m].side = MakerSide
    BY <1>1, <2>2, <2>4 DEF Resting, ToSet, BookInv
  <2>6. trades' # trades => Last(trades').maker = m
    <3>1. SUFFICES ASSUME trades' # trades PROVE Last(trades').maker = m
      OBVIOUS
    <3>2. PICK fill : trades' = Append(trades, fill) /\ fill.maker = m
      BY <1>1, <3>1 DEF Iterate
    <3>3. trades \in Seq(Fill)
      BY <1>1 DEF TypeOK
    <3>4. Last(Append(trades, fill)) = fill
      BY <3>3 DEF Last
    <3> QED
      BY <3>2, <3>4
  <2>7. ASSUME NEW n \in Resting(MakerSide), remaining[n] > 0
        PROVE  ~ Before(MakerSide, order[n], order[m])
    <3>1. PICK j \in DOMAIN s : s[j] = n
      BY DEF Resting, ToSet
    <3>2. ~ (j < index)
      BY <1>1, <2>1, <2>4, <2>7, <3>1 DEF LoopInv
    <3>3. CASE j = index
      <4>1. order[n].price \in Int /\ order[n].time \in Int
        BY <1>1, <2>2, RestingFacts, DataAssumption DEF OrderRecord
      <4> QED
        BY <3>1, <3>3, <4>1 DEF Before
    <3>4. CASE index < j
      BY <1>1, <2>1, <2>4, <3>1, <3>4 DEF LoopInv, Sorted
    <3> QED
      BY <2>3, <2>4, <3>1, <3>2, <3>3, <3>4
  <2> QED
    BY <2>5, <2>6, <2>7
<1>2. ASSUME IInv, [Next]_vars PROVE [Priority]_vars
  <2>1. CASE Iterate
    BY <1>1, <1>2, <2>1
  <2>2. CASE ~ Iterate
    <3>1. trades' = trades
      BY <1>2, <2>2
      DEF Next, StartConsumers, Restore, BeginMatch, EndMatch, Cancel, vars
    <3> QED
      BY <3>1
  <2> QED
    BY <2>1, <2>2
<1> QED
  BY <1>2, Invariance, PTL DEF Spec, PriceTimePriority

-----------------------------------------------------------------------------
(* The sum of the fills.                                                    *)

\* What order e traded in each of the fills s, and in all of them: the sum in
\* SizeConserved.
Parts(e, s) ==
    [i \in DOMAIN s |-> IF e \in {s[i].maker, s[i].taker} THEN s[i].size ELSE 0]

TradedBy(e, s) ==
    LET part(sum, f) == IF e \in {f.maker, f.taker} THEN sum + f.size ELSE sum
    IN  FoldLeft(part, 0, s)

LEMMA PartsFacts ==
    ASSUME NEW s \in Seq(Fill), NEW e
    PROVE  /\ Len(s) \in Nat /\ DOMAIN s = 1..Len(s) /\ IsFiniteSet(DOMAIN s)
           /\ \A i \in DOMAIN s : s[i] \in Fill
           /\ Parts(e, s) \in [DOMAIN s -> Int]
<1>1. Len(s) \in Nat /\ DOMAIN s = 1..Len(s) /\ \A i \in DOMAIN s : s[i] \in Fill
  OBVIOUS
<1>2. IsFiniteSet(1..Len(s))
  BY <1>1, FS_Interval
<1>3. \A i \in DOMAIN s : s[i].size \in Int
  BY <1>1 DEF Fill
<1> QED
  BY <1>1, <1>2, <1>3 DEF Parts

\* However TLA+ goes through the fills, TradedBy is their sum.
LEMMA TradedIsASum ==
    ASSUME NEW s \in Seq(Fill), NEW e
    PROVE  \E g : Adds(g, Parts(e, s), DOMAIN s) /\ g[{}] = 0 /\ g[DOMAIN s] = TradedBy(e, s)
<1> DEFINE D == DOMAIN s
           c == [t \in SUBSET D |-> Max(t)]
<1>1. PICK p \in [D -> Int] : p = Parts(e, s)
  BY PartsFacts
<1>2. IsFiniteSet(D)
  BY PartsFacts
<1>3. Chooses(c, D)
  <2>1. PICK n \in Nat : D = 1..n
    BY PartsFacts
  <2>2. Chooses([t \in SUBSET (1..n) |-> Max(t)], 1..n)
    BY MaxChooses
  <2> QED
    BY <2>1, <2>2, Zenon
<1>4. \A t \in SUBSET D : c[t] = Max(t)
  OBVIOUS
<1> HIDE DEF c
<1>5. PICK g \in [SUBSET D -> Int] : AddsBy(g, p, D, c)
  BY <1>1, <1>2, <1>3, SumExists
<1>6. g = [t \in SUBSET D |->
              IF t = {} THEN 0
              ELSE LET i == Max(t)
                   IN  IF e \in {s[i].maker, s[i].taker}
                       THEN g[t \ {i}] + s[i].size ELSE g[t \ {i}]]
  <2>1. ASSUME NEW t \in SUBSET D, t # {}
        PROVE  g[t] = IF e \in {s[c[t]].maker, s[c[t]].taker}
                      THEN g[t \ {c[t]}] + s[c[t]].size ELSE g[t \ {c[t]}]
    <3>1. PICK i \in D : i = c[t]
      BY <1>3, <2>1 DEF Chooses
    <3>2. g[t] = p[i] + g[t \ {i}] /\ g[t \ {i}] \in Int
      BY <1>5, <2>1, <3>1 DEF AddsBy
    <3>3. p[i] = IF e \in {s[i].maker, s[i].taker} THEN s[i].size ELSE 0
      BY <1>1 DEF Parts
    <3>4. p[i] \in Int
      BY <1>1
    <3> QED
      BY <3>1, <3>2, <3>3, <3>4
  <2>2. ASSUME NEW t \in SUBSET D
        PROVE  g[t] = IF t = {} THEN 0
                      ELSE LET i == Max(t)
                           IN  IF e \in {s[i].maker, s[i].taker}
                               THEN g[t \ {i}] + s[i].size ELSE g[t \ {i}]
    BY <1>4, <1>5, <2>1 DEF AddsBy
  <2> QED
    BY <2>2
<1>7. PICK h : /\ h = [t \in SUBSET D |->
                        IF t = {} THEN 0
                        ELSE LET i == Max(t)
                             IN  IF e \in {s[i].maker, s[i].taker}
                                 THEN h[t \ {i}] + s[i].size ELSE h[t \ {i}]]
               /\ h[D] = TradedBy(e, s)
  <2>1. TradedBy(e, s) = MapThenFoldSet(
            LAMBDA f, sum : IF e \in {f.maker, f.taker} THEN sum + f.size ELSE sum,
            0, LAMBDA i : s[i], LAMBDA S : Max(S), DOMAIN s)
    BY Zenon DEF TradedBy, FoldLeft
  <2>2. \E h : /\ h = [t \in SUBSET D |->
                        IF t = {} THEN 0
                        ELSE LET i == Max(t)
                             IN  IF e \in {s[i].maker, s[i].taker}
                                 THEN h[t \ {i}] + s[i].size ELSE h[t \ {i}]]
               /\ h[D] = MapThenFoldSet(
                    LAMBDA f, sum : IF e \in {f.maker, f.taker} THEN sum + f.size ELSE sum,
                    0, LAMBDA i : s[i], LAMBDA S : Max(S), DOMAIN s)
    BY <1>6, Zenon DEF MapThenFoldSet
  <2> QED
    BY <2>1, <2>2
<1>8. ASSUME NEW t \in SUBSET D, t # {}
      PROVE  \E i \in t : h[t] = IF e \in {s[i].maker, s[i].taker}
                                THEN h[t \ {i}] + s[i].size ELSE h[t \ {i}]
  <2>1. Max(t) \in t
    BY <1>3, <1>4, <1>8 DEF Chooses
  <2>2. PICK i \in t : i = Max(t)
    BY <2>1
  <2> QED
    BY <1>7, <1>8, <2>2
<1>9. h[{}] = 0
  BY <1>7
<1> HIDE DEF D
<1>10. \A t \in SUBSET D : h[t] \in Int
  <2> DEFINE Bad == {t \in SUBSET D : h[t] \notin Int}
  <2> SUFFICES ASSUME Bad # {}
               PROVE  FALSE
    OBVIOUS
  <2>1. PICK t \in Bad : \A r \in Bad : Cardinality(t) <= Cardinality(r)
    <3>1. \A r \in Bad : IsFiniteSet(r)
      BY <1>2, FS_Subset
    <3> HIDE DEF Bad
    <3> QED
      BY <3>1, SmallestSet, Zenon
  <2>2. t \in SUBSET D /\ h[t] \notin Int /\ t # {}
    <3>1. CASE t = {}
      <4>1. h[t] = 0
        BY <1>9, <3>1
      <4> QED
        BY <4>1
    <3> QED
      BY <3>1
  <2>3. PICK i \in t : h[t] = IF e \in {s[i].maker, s[i].taker}
                              THEN h[t \ {i}] + s[i].size ELSE h[t \ {i}]
    BY <1>8, <2>2
  <2>4. PICK r \in SUBSET D : r = t \ {i}
    BY <2>2
  <2>5. ~ (Cardinality(t) <= Cardinality(r))
    BY <1>2, <2>2, <2>4, OneLess
  <2>6. h[r] \in Int
    BY <2>1, <2>5
  <2>7. s[i].size \in Int
    BY <2>2, PartsFacts DEF D, Fill
  <2> QED
    BY <2>2, <2>3, <2>4, <2>6, <2>7
<1>11. Sums(h, p, D)
  <2>1. ASSUME NEW t \in SUBSET D, t # {}
        PROVE  \E i \in t : h[t] = p[i] + h[t \ {i}]
    <3>1. PICK i \in t : h[t] = IF e \in {s[i].maker, s[i].taker}
                                THEN h[t \ {i}] + s[i].size ELSE h[t \ {i}]
      BY <1>8, <2>1
    <3>2. t \ {i} \in SUBSET D /\ h[t \ {i}] \in Int
      BY <1>10
    <3>3. p[i] = (IF e \in {s[i].maker, s[i].taker} THEN s[i].size ELSE 0) /\ p[i] \in Int
      BY <1>1 DEF D, Parts
    <3>4. PICK v \in Int : v = h[t \ {i}]
      BY <3>2
    <3>5. h[t] = p[i] + v
      BY <3>1, <3>3, <3>4
    <3> QED
      BY <3>4, <3>5
  <2> QED
    BY <1>9, <2>1 DEF Sums
<1>12. Adds(h, p, D) /\ h[{}] = 0
  BY <1>2, <1>11, AnyOrder
<1> QED
  BY <1>1, <1>7, <1>12 DEF D

LEMMA TradedAppend ==
    ASSUME NEW s \in Seq(Fill), NEW f \in Fill, NEW e
    PROVE  /\ TradedBy(e, s) \in Int
           /\ TradedBy(e, Append(s, f)) =
                 TradedBy(e, s) + IF e \in {f.maker, f.taker} THEN f.size ELSE 0
<1> DEFINE n == Len(s) + 1
           more == Append(s, f)
           part == IF e \in {f.maker, f.taker} THEN f.size ELSE 0
<1>1. more \in Seq(Fill) /\ Len(s) \in Nat /\ DOMAIN s = 1..Len(s) /\ DOMAIN more = 1..n
      /\ more[n] = f /\ \A i \in DOMAIN s : more[i] = s[i]
  OBVIOUS
<1> HIDE DEF more
<1>2. PICK E, D : E = DOMAIN more /\ D = DOMAIN s /\ E = D \cup {n} /\ n \notin D
  BY <1>1
<1>3. PICK p \in [D -> Int] : p = Parts(e, s)
  BY <1>2, PartsFacts
<1>4. PICK k \in [E -> Int] : k = Parts(e, more)
  BY <1>1, <1>2, PartsFacts
<1>5. IsFiniteSet(D)
  BY <1>2, PartsFacts
<1>6. PICK g : Adds(g, p, D) /\ g[{}] = 0 /\ g[D] = TradedBy(e, s)
  BY <1>2, <1>3, TradedIsASum
<1>7. PICK h : Adds(h, k, E) /\ h[{}] = 0 /\ h[E] = TradedBy(e, more)
  BY <1>1, <1>2, <1>4, TradedIsASum
<1>8. k[n] = part /\ \A i \in D : k[i] = p[i]
  BY <1>1, <1>2, <1>3, <1>4 DEF Parts
<1> HIDE DEF n
<1>9. g[D] \in Int /\ h[E] = g[D] + k[n]
  BY <1>2, <1>5, <1>6, <1>7, <1>8, SumExtend
<1> QED
  BY <1>6, <1>7, <1>8, <1>9 DEF more

LEMMA TradedNothing ==
    ASSUME NEW s \in Seq(Fill), NEW e, \A i \in DOMAIN s : e \notin {s[i].maker, s[i].taker}
    PROVE  TradedBy(e, s) = 0
<1>1. PICK p : p = Parts(e, s)
  OBVIOUS
<1>2. PICK D : D = DOMAIN s
  OBVIOUS
<1>3. \A i \in D : p[i] = 0
  BY <1>1, <1>2 DEF Parts
<1>4. PICK g : Adds(g, p, D) /\ g[{}] = 0 /\ g[D] = TradedBy(e, s)
  BY <1>1, <1>2, TradedIsASum
<1> QED
  <2>1. IsFiniteSet(D)
    BY <1>2, PartsFacts
  <2>2. g[D] = 0
    BY <1>3, <1>4, <2>1, SumOfNothing
  <2> QED
    BY <1>4, <2>2

\* The inductive invariant: fills are of objects that have been allocated, and
\* what an object has left and what it traded add up.
FillsInv ==
    /\ \A i \in DOMAIN trades : {trades[i].maker, trades[i].taker} \subseteq used
    /\ \A e \in used : order[e].size = remaining[e] + TradedBy(e, trades)

LEMMA AllocateFills ==
    ASSUME IInv, FillsInv, NEW e \in Entry, NEW o \in OrderRecord, Allocate(e, o),
           trades' = trades
    PROVE  FillsInv'
<1>1. PICK s \in Seq(Fill) : s = trades
  BY DEF IInv, TypeOK
<1>2. /\ used' = used \cup {e} /\ e \notin used /\ order'[e] = o /\ remaining'[e] = o.size
      /\ \A x \in used : order'[x] = order[x] /\ remaining'[x] = remaining[x]
  BY AllocateType DEF IInv
<1>3. o.size \in Int
  BY DataAssumption DEF OrderRecord
<1>4. TradedBy(e, s) = 0
  BY <1>1, <1>2, TradedNothing DEF FillsInv
<1>5. \A x \in used : order[x].size = remaining[x] + TradedBy(x, s)
  BY <1>1 DEF FillsInv
<1>6. \A x \in used' : order'[x].size = remaining'[x] + TradedBy(x, s)
  <2>1. order'[e].size = remaining'[e] + TradedBy(e, s)
    BY <1>2, <1>3, <1>4
  <2> QED
    BY <1>2, <1>5, <2>1
<1>7. \A i \in DOMAIN s : {s[i].maker, s[i].taker} \subseteq used'
  BY <1>1, <1>2 DEF FillsInv
<1>8. trades' = s
  BY <1>1
<1> QED
  BY <1>6, <1>7, <1>8 DEF FillsInv

LEMMA IterateFills ==
    ASSUME IInv, FillsInv, Iterate
    PROVE  FillsInv'
<1> USE DEF IInv
<1> DEFINE m == book[MakerSide][index]
           size == Smaller(remaining[taker], remaining[m])
<1>1. /\ pc = "match" /\ LoopGoesOn /\ used' = used /\ order' = order
  BY DEF Iterate
<1>2. taker \in used /\ order[taker].side \in Side /\ remaining[taker] \in Int
  BY <1>1 DEF TypeOK, OrderRecord
<1>3. MakerSide \in Side
  BY <1>2, SideFacts DEF MakerSide
<1>4. index \in DOMAIN book[MakerSide] /\ book[MakerSide] \in Seq(used)
  BY <1>1, <1>3, RestingFacts, SeqFacts DEF LoopGoesOn, TypeOK
<1>5. m \in Resting(MakerSide) /\ m \in used /\ remaining[m] \in Int
  BY <1>3, <1>4, RestingFacts DEF Resting, ToSet
<1>6. m # taker
  BY <1>1, <1>3, <1>5 DEF LoopInv
<1>7. size \in Int
  BY <1>2, <1>5 DEF Smaller
<1>8. PICK t \in used, maker \in used, n \in Int :
          t = taker /\ maker = m /\ n = size /\ maker # t
  BY <1>2, <1>5, <1>6, <1>7
<1>9. PICK s \in Seq(Fill) : s = trades
  BY DEF TypeOK
<1>10. \A x \in used : remaining[x] \in Int /\ order[x].size = remaining[x] + TradedBy(x, s)
  BY <1>9 DEF FillsInv, TypeOK
<1>11. CASE ~ (size > 0)
  <2>1. remaining' = remaining /\ trades' = trades
    BY <1>11 DEF Iterate
  <2> QED
    BY <1>1, <2>1 DEF FillsInv
<1>12. CASE size > 0
  <2>1. remaining' = [remaining EXCEPT ![t] = @ - n, ![maker] = @ - n]
    BY <1>8, <1>12 DEF Iterate
  <2>2. PICK f : trades' = Append(s, f) /\ f.maker = maker /\ f.taker = t /\ f.size = n
    BY <1>8, <1>9, <1>12 DEF Iterate
  <2>3. f \in Fill
    <3>1. trades' \in Seq(Fill)
      BY TypeStep DEF Next, TypeOK
    <3>2. Append(s, f) \in Seq(Fill) /\ Append(s, f)[Len(s) + 1] = f
      BY <1>9, <2>2, <3>1
    <3>3. Len(s) + 1 \in 1..Len(Append(s, f))
      BY <1>9
    <3> QED
      BY <3>2, <3>3
  <2>4. \A x \in used : /\ TradedBy(x, s) \in Int
                         /\ TradedBy(x, Append(s, f)) =
                              TradedBy(x, s) + IF x \in {maker, t} THEN n ELSE 0
    BY <2>2, <2>3, TradedAppend
  <2>5. \A x \in used : remaining'[x] = IF x \in {maker, t} THEN remaining[x] - n ELSE remaining[x]
    BY <1>8, <2>1 DEF TypeOK
  <2>6. ASSUME NEW x \in used
        PROVE  order'[x].size = remaining'[x] + TradedBy(x, Append(s, f))
    <3>1. PICK before \in Int, left \in Int : before = TradedBy(x, s) /\ left = remaining[x]
      BY <1>10, <2>4
    <3>2. order'[x].size = left + before
      BY <1>1, <1>10, <3>1
    <3>3. CASE x \in {maker, t}
      <4>1. remaining'[x] = left - n /\ TradedBy(x, Append(s, f)) = before + n
        BY <2>4, <2>5, <3>1, <3>3
      <4> QED
        BY <3>2, <4>1
    <3>4. CASE x \notin {maker, t}
      <4>1. remaining'[x] = left /\ TradedBy(x, Append(s, f)) = before
        BY <2>4, <2>5, <3>1, <3>4
      <4> QED
        BY <3>2, <4>1
    <3> QED
      BY <3>3, <3>4
  <2>7. \A i \in DOMAIN Append(s, f) :
            {Append(s, f)[i].maker, Append(s, f)[i].taker} \subseteq used
    <3>1. \A i \in DOMAIN s : {s[i].maker, s[i].taker} \subseteq used
      BY <1>9 DEF FillsInv
    <3>2. ASSUME NEW i \in DOMAIN Append(s, f)
          PROVE  Append(s, f)[i] = f \/ (i \in DOMAIN s /\ Append(s, f)[i] = s[i])
      BY <1>9, <3>2
    <3> QED
      BY <2>2, <3>1, <3>2
  <2> QED
    BY <1>1, <2>2, <2>6, <2>7 DEF FillsInv
<1> QED
  BY <1>11, <1>12

\* What an order has left and what it traded always add up to its size: no
\* iteration of the loop loses or invents quantity, whichever orders meet, in
\* whatever order they come (book.go:77-103).
THEOREM QuantityConserved == Spec => []SizeConserved
<1>1. Init => FillsInv
  BY DEF Init, FillsInv
<1>2. ASSUME IInv, FillsInv, [Next]_vars
      PROVE  FillsInv'
  <2>1. ASSUME NEW e \in Entry, NEW o \in OrderRecord, Restore(e, o) \/ BeginMatch(e, o)
        PROVE  FillsInv'
    BY <1>2, <2>1, AllocateFills DEF Restore, BeginMatch
  <2>2. CASE Iterate
    BY <1>2, <2>2, IterateFills
  <2>3. ASSUME UNCHANGED <<order, remaining, used, trades>>
        PROVE  FillsInv'
    BY <1>2, <2>3 DEF FillsInv
  <2>4. CASE StartConsumers
    BY <2>3, <2>4 DEF StartConsumers
  <2>5. CASE EndMatch
    BY <2>3, <2>5 DEF EndMatch
  <2>6. ASSUME NEW id \in Id, Cancel(id)
        PROVE  FillsInv'
    BY <2>3, <2>6 DEF Cancel
  <2>7. CASE UNCHANGED vars
    BY <2>3, <2>7 DEF vars
  <2> QED
    BY <1>2, <2>1, <2>2, <2>4, <2>5, <2>6, <2>7 DEF Next
<1>3. FillsInv => SizeConserved
  BY DEF FillsInv, SizeConserved, TradedBy
<1> QED
  BY <1>1, <1>2, <1>3, Invariance, PTL DEF Spec

-----------------------------------------------------------------------------
(* The book as the code keeps it implements the abstract price-time book    *)
(* (PriceTimeBook): every step of the slices, the loop and the prune is a   *)
(* step of the abstract book or leaves it as it is.                         *)

\* What the refinement mapping gives for the abstract book's resting orders.
Live == {e \in Resting("buy") \cup Resting("sell") : remaining[e] > 0}

LEMMA LiveFacts ==
    ASSUME IInv
    PROVE  /\ Live \subseteq used
           /\ \A side \in Side : {e \in Resting(side) : remaining[e] > 0}
                                 = {e \in Live : order[e].side = side}
           /\ pc # "match" => Live = Resting("buy") \cup Resting("sell")
  BY RestingFacts DEF Live, Side, IInv, BookInv

\* The abstract book has its own copy of BookDefs; the copies agree.
LEMMA SameDefinitions ==
    /\ Promise!OrderRecord = OrderRecord
    /\ \A side, x, y : Promise!Before(side, x, y) <=> Before(side, x, y)
    /\ \A x, y : Promise!Smaller(x, y) = Smaller(x, y)
    /\ \A f, x, value : Promise!With(f, x, value) = With(f, x, value)
    /\ \A t : Promise!Makers(t) =
              {m \in Live : /\ order[m].side = Opposite(order[t].side)
                            /\ PricesCross(order[t].side, order[t].price,
                                           order[m].price)}
  BY DEF Promise!OrderRecord, OrderRecord, Promise!Side, Side, Promise!Before,
         Before, Promise!Smaller, Smaller, Promise!With, With, Promise!Makers,
         Promise!Opposite, Opposite, Promise!PricesCross, PricesCross, Live

LEMMA InitRefines == Init => Promise!Init
  BY DEF Init, Promise!Init, Resting, ToSet, Side

LEMMA RestoreRefines ==
    ASSUME IInv, NEW e \in Entry, NEW o \in OrderRecord, Restore(e, o)
    PROVE  Promise!Restore(e, o)
<1>1. /\ pc = "restore" /\ pc' = "restore" /\ o.size > 0
      /\ book' = [book EXCEPT ![o.side] = Append(@, e)]
      /\ Allocate(e, o)
      /\ UNCHANGED <<taker, trades>>
  BY DEF Restore, Added
<1>2. /\ used' = used \cup {e} /\ e \notin used
      /\ order'[e] = o /\ remaining'[e] = o.size
      /\ \A x \in used : order'[x] = order[x] /\ remaining'[x] = remaining[x]
  BY <1>1, AllocateType DEF IInv
<1>3. /\ o.side \in Side
      /\ \A side \in Side : Resting(side) \subseteq used /\ e \notin Resting(side)
  BY <1>2, RestingFacts DEF OrderRecord, IInv
<1>4. /\ book'[o.side] = Append(book[o.side], e)
      /\ \A side \in Side : side # o.side => book'[side] = book[side]
  BY <1>1, <1>3 DEF TypeOK, IInv
<1>5. book[o.side] \in Seq(used \cup {e})
  BY <1>3, RestingFacts, SeqMonotonic DEF IInv
<1>6. Resting(o.side)' = Resting(o.side) \cup {e}
  BY <1>4, <1>5, AppendFacts DEF Resting
<1>7. \A side \in Side : side # o.side => Resting(side)' = Resting(side)
  BY <1>4 DEF Resting
<1>8. Live' = Live \cup {e}
  BY <1>1, <1>2, <1>3, <1>6, <1>7 DEF Live, Side
<1> QED
  BY <1>1, <1>8, SameDefinitions
  DEF Promise!Restore, Promise!Allocate, Allocate, Live

LEMMA BeginMatchRefines ==
    ASSUME IInv, NEW e \in Entry, NEW o \in OrderRecord, BeginMatch(e, o)
    PROVE  Promise!Submit(e, o)
<1> DEFINE maker == Opposite(o.side)
<1>1. /\ pc = "idle" /\ pc' = "match" /\ taker' = e /\ o.size > 0 /\ o.price > 0
      /\ Allocate(e, o)
      /\ UNCHANGED trades
  BY DEF BeginMatch
<1>2. /\ e \notin used
      /\ \A x \in used : remaining'[x] = remaining[x]
  BY <1>1, AllocateType DEF IInv
<1>3. PICK s \in Arrangements(book[maker]) : book' = [book EXCEPT ![maker] = s]
  BY DEF BeginMatch
<1>4. maker \in Side
  BY SideFacts DEF OrderRecord
<1>5. book[maker] \in Seq(used) /\ \A side \in Side : Resting(side) \subseteq used
  BY <1>4, RestingFacts DEF IInv
<1>6. \A side \in Side : Resting(side)' = Resting(side)
  BY <1>3, <1>4, <1>5, ArrangementFacts DEF Resting, TypeOK, IInv
<1>7. Live' = Live
  BY <1>2, <1>5, <1>6 DEF Live, Side
<1>8. /\ {taker} \ {NoEntry} = {} /\ ({taker} \ {NoEntry})' = {e}
  BY <1>1, NoEntryAssumption DEF TypeOK, IInv
<1> QED
  BY <1>1, <1>7, <1>8, SameDefinitions
  DEF Promise!Submit, Promise!Allocate, Allocate, Live

LEMMA IterateRefines ==
    ASSUME IInv, Iterate
    PROVE  \E t, m \in Entry : Promise!Trade(t, m)
<1> USE DEF IInv
<1> DEFINE s == book[MakerSide]
<1>1. /\ pc = "match" /\ LoopGoesOn
      /\ UNCHANGED <<order, used, book, pc, taker>>
  BY DEF Iterate
<1>2. /\ taker \in used /\ taker \in Entry /\ taker # NoEntry
      /\ order[taker].side \in Side /\ remaining[taker] \in Int
  BY <1>1, NoEntryAssumption DEF TypeOK, OrderRecord
<1>3. MakerSide \in Side /\ MakerSide # order[taker].side
  BY <1>2, SideFacts DEF MakerSide
<1>4. s \in Seq(used) /\ DOMAIN s = 1..Len(s) /\ Len(s) \in Nat
  BY <1>3, RestingFacts, SeqFacts
<1>5. index \in DOMAIN s /\ index \in Nat /\ remaining[taker] > 0
  BY <1>1, <1>4 DEF LoopGoesOn, TypeOK
<1>6. PICK m \in used : m = s[index]
  BY <1>4, <1>5, SeqFacts
<1>7. m \in Resting(MakerSide) /\ m \in Entry /\ remaining[m] \in Int
  BY <1>3, <1>5, <1>6, RestingFacts DEF Resting, ToSet, TypeOK
<1>8. remaining[m] > 0
  BY <1>1, <1>5, <1>6 DEF LoopInv
<1>9. \A side \in Side : taker \notin Resting(side)
  BY <1>1 DEF LoopInv
<1>10. m # taker
  BY <1>3, <1>7, <1>9
<1> DEFINE size == Smaller(remaining[taker], remaining[m])
           fill == [maker |-> m, taker |-> taker, price |-> order[m].price,
                    size |-> size, makerRemaining |-> remaining[m] - size,
                    takerRemaining |-> remaining[taker] - size]
<1>11. size > 0 /\ size \in Int
  BY <1>2, <1>5, <1>7, <1>8 DEF Smaller
<1>12. /\ remaining' = [remaining EXCEPT ![taker] = @ - size, ![m] = @ - size]
       /\ trades' = Append(trades, fill)
  BY <1>6, <1>11 DEF Iterate
<1>13. \A x \in used : x # taker /\ x # m => remaining'[x] = remaining[x]
  BY <1>12 DEF TypeOK
<1>14. remaining'[m] >= 0 /\ remaining'[m] \in Int
  BY <1>2, <1>7, <1>8, <1>10, <1>12 DEF TypeOK, Smaller
<1> HIDE DEF size
<1>15. Live' = Live \ {x \in {m} : remaining'[x] = 0}
  <2>1. \A side \in Side : Resting(side)' = Resting(side)
                           /\ Resting(side) \subseteq used
    BY <1>1, RestingFacts DEF Resting
  <2>2. m \in Live
    BY <1>3, <1>7, <1>8 DEF Live, Side
  <2>3. taker \notin Live /\ taker \notin Live'
    BY <1>9, <2>1 DEF Live, Side
  <2>4. m \in Live' <=> remaining'[m] # 0
    BY <1>3, <1>7, <1>14, <2>1 DEF Live, Side
  <2>5. ASSUME NEW x, x # m, x # taker
        PROVE  x \in Live' <=> x \in Live
    BY <1>13, <2>1, <2>5 DEF Live, Side
  <2> QED
    BY <2>2, <2>3, <2>4, <2>5
<1>16. m \in Promise!Makers(taker)
  <2>1. order[m].side = MakerSide
    BY <1>3, <1>7 DEF BookInv
  <2>2. m \in Live
    BY <1>3, <1>7, <1>8 DEF Live, Side
  <2>3. PricesCross(order[taker].side, order[taker].price, order[m].price)
    BY <1>1, <1>6 DEF LoopGoesOn
  <2> QED
    BY <2>1, <2>2, <2>3, SameDefinitions DEF MakerSide
<1>17. ASSUME NEW n \in Promise!Makers(taker)
       PROVE  ~ Before(order[m].side, order[n], order[m])
  <2>1. n \in Live /\ order[n].side = MakerSide
    BY SameDefinitions DEF MakerSide
  <2>2. n \in Resting(MakerSide) /\ remaining[n] > 0
    BY <1>3, <2>1, LiveFacts
  <2>3. PICK j \in DOMAIN s : s[j] = n
    BY <2>2 DEF Resting, ToSet
  <2>4. ~ (j < index)
    BY <1>1, <1>5, <2>2, <2>3 DEF LoopInv
  <2>5. order[m].side = MakerSide
    BY <1>3, <1>7 DEF BookInv
  <2>6. CASE j = index
    <3>1. order[m].price \in Int /\ order[m].time \in Int
      BY <1>3, <1>7, RestingFacts, DataAssumption DEF OrderRecord
    <3> QED
      BY <1>6, <2>3, <2>6, <3>1 DEF Before
  <2>7. CASE index < j
    BY <1>1, <1>5, <1>6, <2>3, <2>5, <2>7 DEF LoopInv, Sorted
  <2> QED
    BY <1>4, <1>5, <2>3, <2>4, <2>6, <2>7
<1>18. m \in Promise!Best(taker)
  BY <1>16, <1>17, SameDefinitions DEF Promise!Best
<1>19. {taker} \ {NoEntry} = {taker} /\ UNCHANGED (pc # "restore")
  BY <1>1, <1>2
<1>20. Promise!Trade(taker, m)
  BY <1>1, <1>5, <1>12, <1>15, <1>18, <1>19, SameDefinitions
  DEF Promise!Trade, Live, size
<1> QED
  BY <1>2, <1>7, <1>20

LEMMA EndMatchRefines ==
    ASSUME IInv, EndMatch
    PROVE  \E t \in Entry : Promise!Settle(t)
<1> USE DEF IInv
<1>1. /\ pc = "match" /\ ~ LoopGoesOn /\ pc' = "idle" /\ taker' = NoEntry
      /\ UNCHANGED <<order, remaining, used, trades>>
  BY DEF EndMatch
<1>2. /\ taker \in used /\ taker \in Entry /\ taker # NoEntry
      /\ remaining[taker] \in Int /\ remaining[taker] >= 0
      /\ order[taker].side \in Side
      /\ MakerSide \in Side /\ MakerSide # order[taker].side
  BY <1>1, NoEntryAssumption, SideFacts
  DEF TypeOK, OrderRecord, MakerSide, BookInv
<1>3. PICK t \in used, own \in Side, maker \in Side :
          t = taker /\ own = order[taker].side /\ maker = MakerSide
  BY <1>2
<1>4. own # maker /\ \A side \in Side : side = maker \/ side = own
  BY <1>2, <1>3 DEF Side
<1>5. PICK kept \in Pruned(book[maker]) :
          book' = [book EXCEPT
                      ![maker] = kept,
                      ![own] = IF remaining[t] > 0 THEN Append(@, t) ELSE @]
  BY <1>3 DEF EndMatch
<1>6. /\ book'[maker] = kept
      /\ book'[own] = IF remaining[t] > 0 THEN Append(book[own], t) ELSE book[own]
  BY <1>4, <1>5 DEF TypeOK
<1>7. Resting(maker)' = {x \in Resting(maker) : remaining[x] > 0}
  BY <1>6, RestingFacts, PrunedFacts DEF Resting
<1>8. Resting(own)' = IF remaining[t] > 0 THEN Resting(own) \cup {t} ELSE Resting(own)
  <2>1. book[own] \in Seq(used)
    BY RestingFacts
  <2>2. CASE remaining[t] > 0
    <3>1. book'[own] = Append(book[own], t)
      BY <1>6, <2>2
    <3>2. ToSet(book'[own]) = ToSet(book[own]) \cup {t}
      BY <2>1, <3>1, AppendFacts
    <3> QED
      BY <2>2, <3>2 DEF Resting
  <2>3. CASE ~ (remaining[t] > 0)
    BY <1>6, <2>3 DEF Resting
  <2> QED
    BY <2>2, <2>3
<1>9. Live' = IF remaining[t] > 0 THEN Live \cup {t} ELSE Live
  <2>1. Live = {x \in Resting(maker) \cup Resting(own) : remaining[x] > 0}
    BY <1>4 DEF Live, Side
  <2>2. Live' = {x \in Resting(maker)' \cup Resting(own)' : remaining[x] > 0}
    BY <1>1, <1>4 DEF Live, Side
  <2> QED
    BY <1>7, <1>8, <2>1, <2>2
<1>10. remaining[t] = 0 \/ Promise!Makers(t) = {}
  <2>1. SUFFICES ASSUME remaining[t] > 0, NEW x \in Promise!Makers(t) PROVE FALSE
    BY <1>2, <1>3
  <2>2. /\ x \in Live /\ order[x].side = maker
        /\ PricesCross(order[t].side, order[t].price, order[x].price)
    BY <1>3, SameDefinitions DEF MakerSide
  <2>3. x \in Resting(maker) /\ remaining[x] > 0
    BY <2>2, LiveFacts
  <2> QED
    BY <1>1, <1>3, <2>1, <2>2, <2>3, NothingLeftToMatch
<1>11. /\ {taker} \ {NoEntry} = {t} /\ ({taker} \ {NoEntry})' = {}
       /\ t \in Entry
  BY <1>1, <1>2, <1>3
<1>12. Promise!Settle(t)
  BY <1>1, <1>9, <1>10, <1>11 DEF Promise!Settle, Live
<1> QED
  BY <1>11, <1>12

LEMMA CancelRefines ==
    ASSUME IInv, NEW id \in Id, Cancel(id)
    PROVE  \E e \in Entry : Promise!Cancel(e)
<1> USE DEF IInv
<1>1. /\ pc = "idle"
      /\ UNCHANGED <<order, remaining, used, pc, taker, trades>>
  BY DEF Cancel
<1>2. PICK side \in Side : \E i \in DOMAIN book[side] :
          book' = [book EXCEPT ![side] = RemoveAt(@, i)]
  BY DEF Cancel
<1>3. PICK i \in DOMAIN book[side] : book' = [book EXCEPT ![side] = RemoveAt(@, i)]
  BY <1>2
<1>4. /\ book'[side] = RemoveAt(book[side], i)
      /\ \A other \in Side : other # side => book'[other] = book[other]
  BY <1>3 DEF TypeOK
<1>5. book[side] \in Seq(used) /\ IsInjective(book[side])
  BY RestingFacts DEF BookInv
<1>6. PICK e \in used : e = book[side][i]
  BY <1>5, SeqFacts
<1>7. e \in Entry /\ e \in Resting(side) /\ order[e].side = side
  BY <1>6 DEF Resting, ToSet, TypeOK, BookInv
<1>8. /\ Resting(side)' = Resting(side) \ {e}
      /\ \A other \in Side : other # side => Resting(other)' = Resting(other)
  BY <1>4, <1>5, <1>6, RemoveAtFacts DEF Resting
<1>9. \A other \in Side : other # side => e \notin Resting(other)
  BY <1>7 DEF BookInv
<1>10. Live' = Live \ {e} /\ e \in Live
  <2>1. e \in Live
    BY <1>1, <1>7, LiveFacts DEF Side
  <2>2. Live' = {x \in Resting("buy")' \cup Resting("sell")' : remaining[x] > 0}
    BY <1>1 DEF Live
  <2> QED
    BY <1>8, <1>9, <2>1, <2>2 DEF Live, Side
<1>11. {taker} \ {NoEntry} = {}
  BY <1>1 DEF TypeOK
<1>12. Promise!Cancel(e)
  BY <1>1, <1>10, <1>11 DEF Promise!Cancel, Live
<1> QED
  BY <1>7, <1>12

LEMMA StepRefines == IInv /\ [Next]_vars => [Promise!Next]_(Promise!vars)
<1> SUFFICES ASSUME IInv, [Next]_vars PROVE [Promise!Next]_(Promise!vars)
  OBVIOUS
<1>1. CASE StartConsumers
  <2>1. Live' = Live
    BY <1>1 DEF StartConsumers, Live, Resting
  <2> QED
    BY <1>1, <2>1 DEF StartConsumers, Live, Promise!Next, Promise!Open
<1>2. ASSUME NEW e \in Entry, NEW o \in OrderRecord, Restore(e, o)
      PROVE  Promise!Next
  BY <1>2, RestoreRefines, SameDefinitions DEF Promise!Next
<1>3. ASSUME NEW e \in Entry, NEW o \in OrderRecord, BeginMatch(e, o)
      PROVE  Promise!Next
  BY <1>3, BeginMatchRefines, SameDefinitions DEF Promise!Next
<1>4. CASE Iterate
  BY <1>4, IterateRefines DEF Promise!Next
<1>5. CASE EndMatch
  BY <1>5, EndMatchRefines DEF Promise!Next
<1>6. ASSUME NEW id \in Id, Cancel(id)
      PROVE  Promise!Next
  BY <1>6, CancelRefines DEF Promise!Next
<1>7. CASE UNCHANGED vars
  <2>1. Live' = Live
    BY <1>7 DEF vars, Live, Resting
  <2> QED
    BY <1>7, <2>1 DEF vars, Live, Promise!vars
<1> QED
  BY <1>1, <1>2, <1>3, <1>4, <1>5, <1>6, <1>7 DEF Next

\* The book of book.go is a price-time book: it behaves as PriceTimeBook does,
\* with the resting orders being those on the slices with something left.
THEOREM BookImplementsPromise == Spec => ImplementsPromise
  BY InitRefines, StepRefines, Invariance, PTL DEF Spec, ImplementsPromise, Promise!Spec
=============================================================================
