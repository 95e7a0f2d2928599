--------------------------- MODULE BookRaceProofs ---------------------------
(***************************************************************************)
(* Proofs about BookRace.tla, for any objects at rest and arriving, any     *)
(* cancellations, and every interleaving of the two goroutines.             *)
(***************************************************************************)
EXTENDS BookRace, DataTheorems

-----------------------------------------------------------------------------
(* The inductive invariant.                                                 *)

\* A taker never meets itself, so that no remainder becomes negative.
RaceTypes == TypeOK /\ remaining \in [Entry -> Nat]

CallsAreSound ==
    /\ match.pc \in {"idle", "loop", "pruned", "add", "added"} /\ match.index >= 1
    /\ match.pc # "idle" => /\ match.object \in Entry
                            /\ match.side = Object[match.object].side
    /\ cancel.pc \in {"idle", "again", "found", "shifted"} /\ cancel.index >= 1
    /\ cancel.pc # "idle" => cancel.object \in ToCancel

\* The arrays that the slices of a side are in: the field, and the header a
\* goroutine walks or is about to store.
Uses(side, a) ==
    \/ a = header[side].at
    \/ match.pc = "loop" /\ side = MakerSide /\ a = match.walked.at
    \/ match.pc = "pruned" /\ side = MakerSide /\ a = match.next.at
    \/ match.pc = "added" /\ side = match.side /\ a = match.next.at
    \/ cancel.pc = "shifted" /\ side = cancel.side /\ a = cancel.next.at

\* However the calls interleave, the sides share no array, and an array holds
\* orders of its side only.
SidesAreApart ==
    /\ \A a \in Address : ~ (Uses("buy", a) /\ Uses("sell", a))
    /\ \A side \in Side, a \in Address : Uses(side, a) =>
        \A k \in DOMAIN heap[a] : heap[a][k] # NoEntry => Object[heap[a][k]].side = side

\* The field of a side once the store under way is done.
Slice(side) ==
    IF \/ match.pc = "pruned" /\ side = MakerSide
       \/ match.pc = "added" /\ side = match.side THEN match.next
    ELSE IF cancel.pc = "shifted" /\ side = cancel.side THEN cancel.next
    ELSE header[side]

\* The words that have been stored.
StoresAreSound ==
    /\ \A w \in Words \ match.words :
        /\ match.pc = "pruned" => header[MakerSide][w] = match.next[w]
        /\ match.pc = "added" => header[match.side][w] = match.next[w]
    /\ \A w \in Words \ cancel.words :
        cancel.pc = "shifted" => header[cancel.side][w] = cancel.next[w]

Entered == ToSet(AtRest["buy"]) \cup ToSet(AtRest["sell"])
               \cup ToSet(SubSeq(Arrivals, 1, arrived))

\* The orders a call holds while they are not on the book.
InHand == {e \in Entry : \/ match.pc \in {"loop", "pruned", "add"} /\ e = match.object
                         \/ cancel.pc = "shifted" /\ e = cancel.object}

ToRest == Entered \ (gone \cup InHand)

\* The slice s is what it should be: each order once, and no other, that has
\* something left, but for those the loop has just filled.
IsWhole(side, s) ==
    /\ IsInjective(s) /\ ToSet(s) \subseteq ToRest
    /\ \A e \in ToRest : Object[e].side = side /\ remaining[e] > 0 => e \in ToSet(s)
    /\ (match.pc = "loop" /\ side = MakerSide) \/ \A e \in ToSet(s) : remaining[e] > 0

SliceIsWhole(side) == Intact(Slice(side)) /\ IsWhole(side, Elements(Slice(side)))

LocalsAreSound ==
    /\ gone \subseteq Entered
    /\ match.pc # "idle" => match.object \in Entered \ gone
    /\ match.pc = "loop" => match.walked = header[MakerSide]
    /\ match.pc \in {"add", "added"} => remaining[match.object] > 0
    /\ cancel.pc \in {"found", "shifted"} => cancel.object \in Entered \ gone
    /\ cancel.pc = "found" => /\ cancel.index <= header[cancel.side].len
                              /\ Element(header[cancel.side], cancel.index) = cancel.object

\* Of calls that do not overlap, one finds what the other has left.
BookIsWhole ==
    /\ ~ crashed /\ (match.pc = "idle" \/ cancel.pc = "idle")
    /\ \A side \in Side : SliceIsWhole(side)
    /\ StoresAreSound /\ LocalsAreSound

WholeWithoutOverlap == ~ overlapped => BookIsWhole

\* The fills of an order and what is left of it make up its size, and what is
\* left is not negative: the fills are no more than the size.
FillsFit == \A e \in Entry : filled[e] + remaining[e] = Object[e].size

IInv ==
    /\ RaceTypes /\ FillsFit
    /\ CallsAreSound /\ SidesAreApart /\ WholeWithoutOverlap

-----------------------------------------------------------------------------
(* Headers and arrays.                                                      *)

Slot == Entry \cup {NoEntry}

LEMMA SideFacts ==
    /\ \A side \in Side : Opposite(side) \in Side /\ Opposite(side) # side
    /\ \A a, b \in Side : a # b => b = Opposite(a)
  BY DEF Side, Opposite

LEMMA HeaderFacts ==
    ASSUME RaceTypes
    PROVE  /\ \A side \in Side : header[side] \in Header
           /\ match.walked \in Header /\ match.next \in Header
           /\ cancel.walked \in Header /\ cancel.next \in Header
           /\ match.side \in Side /\ cancel.side \in Side /\ MakerSide \in Side
           /\ \A h \in Header : h.at \in Address /\ h.len \in Nat
                                /\ heap[h.at] \in Seq(Slot)
<1>1. match.side \in Side /\ cancel.side \in Side
  BY DEF RaceTypes, TypeOK, GoroutineState
<1>2. MakerSide \in Side
  BY <1>1, SideFacts DEF MakerSide
<1>3. /\ \A side \in Side : header[side] \in Header
      /\ match.walked \in Header /\ match.next \in Header
      /\ cancel.walked \in Header /\ cancel.next \in Header
  BY DEF RaceTypes, TypeOK, GoroutineState
<1>4. \A h \in Header : h.at \in Address /\ h.len \in Nat
  BY DEF Header
<1>5. \A a \in Address : heap[a] \in Seq(Slot)
  BY DEF RaceTypes, TypeOK, Slot
<1> QED
  BY <1>1, <1>2, <1>3, <1>4, <1>5

LEMMA FreshFacts ==
    ASSUME RaceTypes
    PROVE  /\ Fresh \in Address
           /\ Fresh # header["buy"].at /\ Fresh # header["sell"].at
           /\ Fresh # match.walked.at /\ Fresh # cancel.next.at
<1>1. /\ header["buy"].at \in Address /\ header["sell"].at \in Address
      /\ match.walked.at \in Address /\ cancel.next.at \in Address
  BY HeaderFacts DEF Side
<1>2. \E a \in Address :
          a \notin {header["buy"].at, header["sell"].at, match.walked.at, cancel.next.at}
  BY <1>1, MemoryAssumption
<1> QED
  BY <1>2 DEF Fresh

LEMMA ElementsFacts ==
    ASSUME RaceTypes, NEW h \in Header
    PROVE  /\ Elements(h) \in Seq(Slot)
           /\ Len(Elements(h)) = h.len
           /\ \A k \in 1..h.len :
                Elements(h)[k] = IF k <= Len(heap[h.at]) THEN heap[h.at][k] ELSE NoEntry
<1>1. h.len \in Nat /\ heap[h.at] \in Seq(Slot)
  BY HeaderFacts
<1>2. \A k \in 1..h.len : Element(h, k) \in Slot
  BY <1>1 DEF Element, Slot
<1> QED
  BY <1>1, <1>2 DEF Elements, Element

\* What an intact header gives access to are objects, all within the array.
LEMMA IntactFacts ==
    ASSUME RaceTypes, NEW h \in Header, Intact(h)
    PROVE  /\ h.len <= Len(heap[h.at])
           /\ Elements(h) \in Seq(Entry)
           /\ Len(Elements(h)) = h.len
           /\ \A k \in 1..h.len : Elements(h)[k] = heap[h.at][k] /\ heap[h.at][k] \in Entry
<1>1. h.len \in Nat /\ heap[h.at] \in Seq(Slot) /\ Len(heap[h.at]) \in Nat
  BY HeaderFacts
<1>2. \A k \in 1..h.len : k <= Len(heap[h.at]) /\ heap[h.at][k] # NoEntry
  BY <1>1 DEF Intact, Element
<1>3. h.len <= Len(heap[h.at])
  BY <1>1, <1>2
<1>4. \A k \in 1..h.len : Elements(h)[k] = heap[h.at][k] /\ heap[h.at][k] \in Entry
  BY <1>1, <1>2, ElementsFacts DEF Slot
<1>5. Elements(h) \in Seq(Entry)
  <2>1. Elements(h) \in Seq(Slot) /\ Len(Elements(h)) = h.len
    BY ElementsFacts
  <2> HIDE DEF Elements
  <2> QED
    BY <1>1, <1>4, <2>1
<1> QED
  BY <1>3, <1>4, <1>5, ElementsFacts

LEMMA IntactIf ==
    ASSUME RaceTypes, NEW h \in Header, h.len <= Len(heap[h.at]),
           \A k \in 1..h.len : heap[h.at][k] # NoEntry
    PROVE  Intact(h)
  BY HeaderFacts DEF Intact, Element

LEMMA PaddedFacts ==
    ASSUME NEW s \in Seq(Slot), NEW capacity \in Nat
    PROVE  /\ Padded(s, capacity) \in Seq(Slot)
           /\ Len(Padded(s, capacity)) >= Len(s)
           /\ \A k \in 1..Len(s) : Padded(s, capacity)[k] = s[k]
           /\ \A k \in DOMAIN Padded(s, capacity) :
                Padded(s, capacity)[k] = NoEntry \/ k \in 1..Len(s)
<1> DEFINE n == capacity - Len(s)
           m == IF n >= 0 THEN n ELSE 0
           rest == [k \in 1..n |-> NoEntry]
           t == Padded(s, capacity)
<1>1. n \in Int /\ m \in Nat /\ Len(s) \in Nat
  OBVIOUS
<1>2. 1..n = 1..m
  BY <1>1
<1> HIDE DEF n, m
<1>3. rest \in Seq(Slot) /\ Len(rest) = m /\ \A k \in 1..m : rest[k] = NoEntry
  <2>1. rest = [k \in 1..m |-> NoEntry]
    BY <1>2
  <2> HIDE DEF rest
  <2>2. rest \in [1..m -> Slot]
    BY <2>1 DEF Slot
  <2> QED
    BY <1>1, <2>1, <2>2
<1>4. t = s \o rest
  BY DEF Padded, n
<1> HIDE DEF rest, t
<1>5. /\ t \in Seq(Slot) /\ Len(t) = Len(s) + m
      /\ \A k \in 1..(Len(s) + m) : t[k] = IF k <= Len(s) THEN s[k] ELSE rest[k - Len(s)]
  BY <1>3, <1>4, ConcatProperties
<1>6. Len(t) >= Len(s) /\ DOMAIN t = 1..(Len(s) + m) /\ 1..Len(s) \subseteq DOMAIN t
  BY <1>1, <1>5
<1>7. \A k \in 1..Len(s) : t[k] = s[k]
  BY <1>1, <1>5, <1>6
<1>8. \A k \in DOMAIN t : k \in 1..Len(s) \/ t[k] = NoEntry
  <2> SUFFICES ASSUME NEW k \in DOMAIN t, k \notin 1..Len(s) PROVE t[k] = NoEntry
    OBVIOUS
  <2>1. k \in 1..(Len(s) + m) /\ ~ (k <= Len(s)) /\ k - Len(s) \in 1..m
    BY <1>1, <1>6
  <2> QED
    BY <1>3, <1>5, <2>1
<1> QED
  BY <1>5, <1>6, <1>7, <1>8 DEF t

LEMMA PrunedFacts ==
    ASSUME NEW S, NEW s \in Seq(S), NEW t \in Pruned(s)
    PROVE  /\ t \in Seq(S)
           /\ ToSet(t) = {x \in ToSet(s) : remaining[x] > 0}
           /\ IsInjective(s) => IsInjective(t)
<1> DEFINE live == {i \in DOMAIN s : remaining[s[i]] > 0}
           n == Cardinality(live)
<1>1. PICK f \in Surjection(1..n, live) :
          /\ \A i, j \in DOMAIN f : i < j => f[i] < f[j]
          /\ t = [i \in DOMAIN f |-> s[f[i]]]
  BY DEF Pruned
<1>2. /\ DOMAIN s = 1..Len(s) /\ Len(s) \in Nat
      /\ \A i \in DOMAIN s : s[i] \in S
  BY SeqFacts
<1>3. n \in Nat
  <2>1. IsFiniteSet(DOMAIN s)
    BY <1>2, FS_Interval
  <2>2. IsFiniteSet(live)
    BY <2>1, FS_Subset
  <2> QED
    BY <2>2, FS_CardinalityType
<1> HIDE DEF n
<1>4. /\ f \in [1..n -> live]
      /\ \A j \in live : \E i \in 1..n : f[i] = j
  BY <1>1 DEF Surjection
<1>5. t \in Seq(S) /\ DOMAIN t = 1..n
  BY <1>1, <1>2, <1>3, <1>4
<1>6. ToSet(t) = {x \in ToSet(s) : remaining[x] > 0}
  BY <1>1, <1>4, <1>5 DEF ToSet
<1>7. \A i, j \in 1..n : f[i] = f[j] => i = j
  <2>1. DOMAIN f = 1..n /\ \A i \in 1..n : f[i] \in Int
    BY <1>2, <1>4
  <2>2. \A i, j \in 1..n : i < j => f[i] < f[j]
    BY <1>1, <2>1
  <2> HIDE DEF live
  <2> QED
    BY <1>3, <2>1, <2>2
<1>8. IsInjective(s) => IsInjective(t)
  BY <1>1, <1>4, <1>5, <1>7 DEF IsInjective
<1> QED
  BY <1>5, <1>6, <1>8

LEMMA ArrangementFacts ==
    ASSUME NEW S, NEW s \in Seq(S), NEW side, NEW t \in SortedArrangements(side, s)
    PROVE  /\ t \in Seq(S)
           /\ Len(t) = Len(s)
           /\ ToSet(t) = ToSet(s)
           /\ IsInjective(s) => IsInjective(t)
<1>1. PICK p \in Bijection(DOMAIN s, DOMAIN s) : t = [i \in DOMAIN s |-> s[p[i]]]
  BY DEF SortedArrangements
<1>2. /\ p \in [DOMAIN s -> DOMAIN s]
      /\ \A a, b \in DOMAIN s : p[a] = p[b] => a = b
      /\ \A j \in DOMAIN s : \E i \in DOMAIN s : p[i] = j
  BY <1>1 DEF Bijection, Injection, Surjection, IsInjective
<1>3. /\ DOMAIN s = 1..Len(s) /\ Len(s) \in Nat
      /\ \A i \in DOMAIN s : s[i] \in S
  BY SeqFacts
<1>4. t \in Seq(S) /\ Len(t) = Len(s) /\ DOMAIN t = DOMAIN s
  BY <1>1, <1>2, <1>3
<1>5. ToSet(t) = ToSet(s)
  BY <1>1, <1>2, <1>4 DEF ToSet
<1>6. IsInjective(s) => IsInjective(t)
  BY <1>1, <1>2, <1>4 DEF IsInjective
<1> QED
  BY <1>4, <1>5, <1>6

LEMMA FrontReplaced ==
    ASSUME NEW a \in Seq(Slot), NEW s \in Seq(Slot), NEW n \in Nat,
           n = Len(s), n <= Len(a)
    PROVE  \E t \in Seq(Slot) :
               /\ t = s \o SubSeq(a, n + 1, Len(a)) /\ Len(t) = Len(a)
               /\ \A k \in 1..Len(a) : t[k] = IF k <= n THEN s[k] ELSE a[k]
<1> DEFINE b == SubSeq(a, n + 1, Len(a))
           t == s \o b
<1>1. n \in Nat /\ Len(a) \in Nat /\ DOMAIN a = 1..Len(a) /\ \A k \in 1..Len(a) : a[k] \in Slot
  BY SeqFacts
<1>2. n <= Len(a) /\ Len(s) = n
  OBVIOUS
<1>3. b \in Seq(Slot) /\ Len(b) = Len(a) - n /\ \A k \in 1..(Len(a) - n) : b[k] = a[n + k]
  <2>1. /\ b \in Seq(Slot)
        /\ Len(b) = IF n + 1 <= Len(a) THEN Len(a) - (n + 1) + 1 ELSE 0
        /\ \A k \in 1..(Len(a) - (n + 1) + 1) : b[k] = a[(n + 1) + k - 1]
    BY <1>1, SubSeqProperties, n + 1 \in Int, \A k \in (n + 1)..Len(a) : a[k] \in Slot
  <2>2. Len(a) - (n + 1) + 1 = Len(a) - n /\ \A k \in 1..(Len(a) - n) : (n + 1) + k - 1 = n + k
    BY <1>1
  <2> HIDE DEF b
  <2>3. b \in Seq(Slot) /\ Len(b) = Len(a) - n
    <3>1. PICK c \in Nat : c = Len(a) /\ n <= c
      BY <1>1, <1>2
    <3>2. n \in Nat
      BY <1>1
    <3>3. (IF n + 1 <= c THEN c - (n + 1) + 1 ELSE 0) = c - n
      BY ONLY <3>1, <3>2
    <3> QED
      BY <2>1, <3>1, <3>3
  <2>4. \A k \in 1..(Len(a) - n) : b[k] = a[(n + 1) + k - 1]
    BY <2>1, <2>2
  <2>5. \A k \in 1..(Len(a) - n) : b[k] = a[n + k]
    BY <2>2, <2>4
  <2> QED
    BY <2>3, <2>5
<1> HIDE DEF b
<1>4. /\ t \in Seq(Slot) /\ Len(t) = n + (Len(a) - n)
      /\ \A k \in 1..(n + (Len(a) - n)) : t[k] = IF k <= n THEN s[k] ELSE b[k - n]
  BY <1>2, <1>3, ConcatProperties
<1> HIDE DEF t
<1>5. n + (Len(a) - n) = Len(a)
  BY <1>1
<1>6. ASSUME NEW k \in 1..Len(a)
      PROVE  t[k] = IF k <= n THEN s[k] ELSE a[k]
  <2>1. CASE k <= n
    BY <1>4, <1>5, <2>1
  <2>2. CASE ~ (k <= n)
    <3>1. k - n \in 1..(Len(a) - n) /\ n + (k - n) = k
      BY <1>1, <2>2
    <3> QED
      BY <1>3, <1>4, <1>5, <2>2, <3>1
  <2> QED
    BY <2>1, <2>2
<1>7. t \in Seq(Slot) /\ Len(t) = Len(a)
  BY <1>4, <1>5
<1> QED
  BY <1>6, <1>7 DEF t, b

-----------------------------------------------------------------------------
(* Type correctness: the sides' arrays are never the same, so that the      *)
(* taker and a maker are two objects.                                       *)

TypeInv == RaceTypes /\ CallsAreSound /\ SidesAreApart

LEMMA OneSide ==
    ASSUME SidesAreApart, NEW a \in Address, NEW s \in Side, NEW r \in Side,
           Uses(s, a), Uses(r, a)
    PROVE  s = r
  BY DEF Side, SidesAreApart

LEMMA OnItsSide ==
    ASSUME SidesAreApart, NEW side \in Side, NEW a \in Address, Uses(side, a),
           NEW k \in DOMAIN heap[a], heap[a][k] # NoEntry
    PROVE  Object[heap[a][k]].side = side
  BY DEF SidesAreApart

\* A step that writes no array.
LEMMA ApartKept ==
    ASSUME SidesAreApart, heap' = heap,
           \A side \in Side, a \in Address : Uses(side, a)' => Uses(side, a)
    PROVE  SidesAreApart'
<1>1. \A a \in Address : ~ (Uses("buy", a)' /\ Uses("sell", a)')
  BY DEF SidesAreApart, Side
<1>2. \A side \in Side, a \in Address : Uses(side, a)' =>
        \A k \in DOMAIN heap[a] : heap[a][k] # NoEntry => Object[heap[a][k]].side = side
  BY DEF SidesAreApart
<1> QED
  BY <1>1, <1>2 DEF SidesAreApart

\* A step that writes one array with orders of a side, which is new or of that
\* side's before.
LEMMA ApartWritten ==
    ASSUME RaceTypes, SidesAreApart, NEW s \in Side, NEW new \in Address, NEW array,
           heap' = [heap EXCEPT ![new] = array],
           \A k \in DOMAIN array : array[k] # NoEntry => Object[array[k]].side = s,
           \A r \in Side : Uses(r, new) => r = s,
           \A side \in Side, a \in Address :
                Uses(side, a)' => Uses(side, a) \/ (side = s /\ a = new)
    PROVE  SidesAreApart'
<1>0. heap'[new] = array /\ \A a \in Address : a # new => heap'[a] = heap[a]
  BY DEF RaceTypes, TypeOK
<1>1. \A a \in Address : ~ (Uses("buy", a)' /\ Uses("sell", a)')
  <2> SUFFICES ASSUME NEW a \in Address, Uses("buy", a)', Uses("sell", a)' PROVE FALSE
    OBVIOUS
  <2>1. "buy" \in Side /\ "sell" \in Side /\ "buy" # "sell"
    BY DEF Side
  <2>2. CASE a = new
    <3>1. \A r \in Side : Uses(r, a)' => r = s
      BY <2>2
    <3> QED
      BY <2>1, <3>1
  <2>3. CASE a # new
    BY <2>1, <2>3, OneSide
  <2> QED
    BY <2>2, <2>3
<1>2. ASSUME NEW side \in Side, NEW a \in Address, Uses(side, a)',
             NEW k \in DOMAIN heap'[a], heap'[a][k] # NoEntry
      PROVE  Object[heap'[a][k]].side = side
  <2>1. CASE a = new
    BY <1>0, <1>2, <2>1
  <2>2. CASE a # new
    BY <1>0, <1>2, <2>2, OnItsSide
  <2> QED
    BY <2>1, <2>2
<1> QED
  BY <1>1, <1>2 DEF SidesAreApart

LEMMA PanicKeepsTypes ==
    ASSUME TypeInv, Panic, overlapped' \in BOOLEAN
    PROVE  TypeInv'
<1>1. /\ crashed' = TRUE /\ heap' = heap /\ header' = header /\ remaining' = remaining
      /\ match' = match /\ cancel' = cancel /\ arrived' = arrived /\ pending' = pending
      /\ gone' = gone /\ filled' = filled
  BY DEF Panic
<1>2. RaceTypes'
  BY <1>1 DEF TypeInv, RaceTypes, TypeOK
<1>3. CallsAreSound'
  BY <1>1 DEF TypeInv, CallsAreSound
<1>4. \A side \in Side, a \in Address : Uses(side, a)' => Uses(side, a)
  BY <1>1 DEF Uses, MakerSide
<1> QED
  BY <1>1, <1>2, <1>3, <1>4, ApartKept DEF TypeInv

LEMMA NatIsInt ==
    ASSUME NEW r \in [Entry -> Nat]
    PROVE  r \in [Entry -> Int]
  OBVIOUS

LEMMA IdleFacts ==
    /\ Idle \in GoroutineState
    /\ Idle.pc = "idle" /\ Idle.index = 1 /\ Idle.side = "buy" /\ Idle.words = {}
    /\ Nowhere \in Header
<1>1. Nowhere \in Header
  BY RaceAssumption DEF Nowhere, Header
<1> QED
  BY <1>1 DEF Idle, GoroutineState, Side, Words

LEMMA ArrivalFacts ==
    ASSUME RaceTypes
    PROVE  /\ arrived \in Nat /\ Len(Arrivals) \in Nat /\ arrived <= Len(Arrivals)
           /\ Arrivals \in Seq(Entry)
<1>1. Arrivals \in Seq(Entry)
  BY RaceAssumption
<1>2. Len(Arrivals) \in Nat
  BY <1>1, SeqFacts
<1> QED
  BY <1>1, <1>2 DEF RaceTypes, TypeOK

\* What BeginMatch does, unless it panics: s is the sorted slice, and t the array
\* it is in.
Begins(in, side, h, s, t) ==
    /\ arrived < Len(Arrivals) /\ in = Arrivals[arrived + 1]
    /\ side = Opposite(Object[in].side) /\ Object[in].side \in Side
    /\ h = header[side] /\ Intact(h)
    /\ s \in SortedArrangements(side, Elements(h)) /\ Len(s) = h.len
    /\ ToSet(s) = ToSet(Elements(h))
    /\ heap' = [heap EXCEPT ![h.at] = t] /\ Len(t) = Len(heap[h.at])
    /\ \A k \in 1..Len(t) : t[k] = IF k <= h.len THEN s[k] ELSE heap[h.at][k]
    /\ match' = [Idle EXCEPT !.pc = "loop", !.object = in,
                             !.side = Object[in].side, !.walked = h]

LEMMA BeginMatchFacts ==
    ASSUME TypeInv, BeginMatch, ~ Panic
    PROVE  /\ \E in \in Entry, side \in Side, h \in Header, s \in Seq(Entry), t \in Seq(Slot) :
                Begins(in, side, h, s, t)
           /\ arrived' = arrived + 1
           /\ header' = header /\ remaining' = remaining /\ cancel' = cancel
           /\ pending' = pending /\ gone' = gone /\ filled' = filled /\ crashed' = FALSE
<1> USE DEF TypeInv
<1>1. PICK in \in Entry : in = Arrivals[arrived + 1] /\ arrived < Len(Arrivals)
  <2>1. arrived < Len(Arrivals) /\ arrived \in Nat /\ Len(Arrivals) \in Nat
    BY ArrivalFacts DEF BeginMatch
  <2>2. arrived + 1 \in 1..Len(Arrivals)
    BY <2>1
  <2> QED
    BY <2>1, <2>2, RaceAssumption, SeqFacts
<1>2. PICK side \in Side, h \in Header :
        side = Opposite(Object[in].side) /\ h = header[side] /\ Object[in].side \in Side
  <2>1. Object[in].side \in Side
    BY RaceAssumption DEF OrderRecord
  <2> QED
    BY <2>1, SideFacts, HeaderFacts
<1>3. PICK s \in SortedArrangements(side, Elements(h)) :
        heap' = [heap EXCEPT ![h.at] = s \o SubSeq(@, h.len + 1, Len(@))]
  BY <1>1, <1>2 DEF BeginMatch
<1>4. /\ Intact(h) /\ arrived' = arrived + 1
      /\ match' = [Idle EXCEPT !.pc = "loop", !.object = in,
                               !.side = Object[in].side, !.walked = h]
      /\ header' = header /\ remaining' = remaining /\ cancel' = cancel
      /\ pending' = pending /\ gone' = gone /\ filled' = filled /\ crashed' = FALSE
  BY <1>1, <1>2 DEF BeginMatch, Alive
<1>5. PICK a \in Seq(Slot) : a = heap[h.at] /\ h.at \in Address
  BY HeaderFacts
<1>6. PICK e \in Seq(Entry) : e = Elements(h) /\ Len(e) = h.len /\ h.len <= Len(a)
  BY <1>4, <1>5, IntactFacts
<1>7. s \in Seq(Entry) /\ Len(s) = h.len /\ ToSet(s) = ToSet(e)
  BY <1>3, <1>6, ArrangementFacts
<1>8. s \in Seq(Slot)
  BY <1>7, SeqMonotonic, Entry \subseteq Slot DEF Slot
<1>9. PICK t \in Seq(Slot) :
        /\ t = s \o SubSeq(a, h.len + 1, Len(a)) /\ Len(t) = Len(a)
        /\ \A k \in 1..Len(a) : t[k] = IF k <= h.len THEN s[k] ELSE a[k]
  BY <1>6, <1>7, <1>8, FrontReplaced, h.len \in Nat, HeaderFacts
<1>10. heap' = [heap EXCEPT ![h.at] = t]
  BY <1>3, <1>5, <1>9
<1>11. Begins(in, side, h, s, t)
  BY <1>1, <1>2, <1>3, <1>4, <1>5, <1>6, <1>7, <1>9, <1>10 DEF Begins
<1> QED
  BY <1>4, <1>7, <1>11

LEMMA BeginMatchKeepsTypes ==
    ASSUME TypeInv, BeginMatch
    PROVE  TypeInv'
<1> USE DEF TypeInv
<1>0. overlapped' \in BOOLEAN
  BY DEF BeginMatch, StepBeside
<1>1. CASE Panic
  BY <1>0, <1>1, PanicKeepsTypes
<1>2. CASE ~ Panic
  <2>1. PICK in \in Entry, side \in Side, h \in Header, s \in Seq(Entry), t \in Seq(Slot) :
            Begins(in, side, h, s, t)
    BY <1>2, BeginMatchFacts
  <2>2. /\ arrived' = arrived + 1 /\ header' = header /\ remaining' = remaining
        /\ cancel' = cancel /\ pending' = pending /\ gone' = gone /\ filled' = filled
        /\ crashed' = FALSE
    BY <1>2, BeginMatchFacts
  <2>3. PICK old \in Seq(Slot), n \in Nat :
            old = heap[h.at] /\ n = h.len /\ h.at \in Address /\ Len(old) \in Nat
            /\ DOMAIN old = 1..Len(old)
    BY HeaderFacts
  <2>4. /\ h = header[side] /\ Intact(h) /\ arrived < Len(Arrivals)
        /\ ToSet(s) = ToSet(Elements(h)) /\ Len(s) = n
        /\ heap' = [heap EXCEPT ![h.at] = t]
    BY <2>1, <2>3 DEF Begins
  <2>5. /\ DOMAIN s = 1..n /\ DOMAIN t = 1..Len(old)
        /\ \A k \in 1..Len(old) : t[k] = IF k <= n THEN s[k] ELSE old[k]
    <3>1. Len(t) = Len(old) /\ Len(s) = n
      BY <2>1, <2>3 DEF Begins
    <3>2. \A k \in 1..Len(t) : t[k] = IF k <= n THEN s[k] ELSE old[k]
      BY <2>1, <2>3 DEF Begins
    <3> QED
      BY <3>1, <3>2, SeqFacts
  <2>6. /\ match'.pc = "loop" /\ match'.object = in /\ match'.side = Object[in].side
        /\ match'.walked = h /\ match'.index = 1 /\ match' \in GoroutineState
    BY <2>1, IdleFacts DEF Begins, GoroutineState, Idle
  <2>7. Uses(side, h.at) /\ side = Opposite(Object[in].side)
    BY <2>1 DEF Uses, Begins
  <2>8. ASSUME NEW k \in DOMAIN t
        PROVE  \E j \in DOMAIN old : t[k] = old[j]
    <3>1. CASE k <= n
      <4>1. k \in DOMAIN s /\ t[k] = s[k]
        BY <2>3, <2>5, <3>1
      <4>2. t[k] \in ToSet(Elements(h))
        BY <2>4, <4>1 DEF ToSet
      <4>3. PICK j \in 1..n : t[k] = Elements(h)[j]
        BY <2>3, <4>2 DEF ToSet, Elements
      <4>4. t[k] = old[j] /\ n <= Len(old)
        BY <2>3, <2>4, <4>3, IntactFacts
      <4> QED
        BY <2>3, <4>4
    <3>2. CASE ~ (k <= n)
      BY <2>3, <2>5, <3>2
    <3> QED
      BY <3>1, <3>2
  <2>9. RaceTypes'
    <3>1. arrived' \in 0..Len(Arrivals)
      BY <2>2, <2>4, ArrivalFacts
    <3>2. heap' \in [Address -> Seq(Entry \cup {NoEntry})]
      BY <2>4 DEF RaceTypes, TypeOK, Slot
    <3> QED
      BY <1>0, <2>2, <2>6, <3>1, <3>2 DEF RaceTypes, TypeOK
  <2>10. CallsAreSound'
    BY <2>2, <2>6 DEF CallsAreSound
  <2>11. \A r \in Side, b \in Address : Uses(r, b)' => Uses(r, b)
    BY <2>2, <2>4, <2>6, <2>7 DEF Uses, MakerSide
  <2>12. \A k \in DOMAIN t : t[k] # NoEntry => Object[t[k]].side = side
    BY <2>3, <2>7, <2>8, OnItsSide
  <2>13. \A r \in Side : Uses(r, h.at) => r = side
    BY <2>3, <2>7, OneSide
  <2> QED
    BY <2>3, <2>4, <2>9, <2>10, <2>11, <2>12, <2>13, ApartWritten
<1> QED
  BY <1>1, <1>2

\* The maker is an object of the other side, so it is not the taker.
LEMMA MakerFacts ==
    ASSUME TypeInv, match.pc = "loop", match.index <= match.walked.len,
           NEW m, m = Element(match.walked, match.index), m # NoEntry
    PROVE  /\ m \in Entry /\ Object[m].side = MakerSide
           /\ match.object \in Entry /\ m # match.object
<1> USE DEF TypeInv
<1>1. match.walked \in Header /\ MakerSide \in Side /\ match.side \in Side
  BY HeaderFacts
<1>2. PICK a \in Seq(Slot) : a = heap[match.walked.at] /\ match.walked.at \in Address
  BY <1>1, HeaderFacts
<1>3. match.index \in DOMAIN a /\ m = a[match.index]
  <2>1. match.index \in Nat /\ match.index >= 1 /\ match.walked.len \in Nat
    BY <1>1 DEF CallsAreSound, RaceTypes, TypeOK, GoroutineState, Header
  <2>2. match.index <= Len(a) /\ m = a[match.index]
    BY <1>2 DEF Element
  <2> QED
    BY <1>2, <2>1, <2>2
<1>4. Uses(MakerSide, match.walked.at)
  BY DEF Uses
<1>5. Object[m].side = MakerSide
  BY <1>1, <1>2, <1>3, <1>4, OnItsSide
<1>6. m \in Entry
  BY <1>2, <1>3 DEF Slot
<1>7. match.object \in Entry /\ MakerSide # Object[match.object].side
  BY <1>1, SideFacts DEF CallsAreSound, MakerSide
<1> QED
  BY <1>5, <1>6, <1>7

LEMMA IterateKeepsTypes ==
    ASSUME TypeInv, Iterate
    PROVE  TypeInv'
<1> USE DEF TypeInv
<1>0. overlapped' \in BOOLEAN
  BY DEF Iterate, StepBeside
<1>1. CASE Panic
  BY <1>0, <1>1, PanicKeepsTypes
<1>2. CASE ~ Panic
  <2>1. PICK m, t : m = Element(match.walked, match.index) /\ t = match.object
    OBVIOUS
  <2>2. match.pc = "loop" /\ match.index <= match.walked.len /\ m # NoEntry
    BY <1>2, <2>1 DEF Iterate, LoopGoesOn
  <2>3. m \in Entry /\ t \in Entry /\ m # t
    BY <2>1, <2>2, MakerFacts
  <2>4. PICK size \in Nat : /\ size = Smaller(remaining[t], remaining[m])
                            /\ size <= remaining[t] /\ size <= remaining[m]
    <3>1. remaining[t] \in Nat /\ remaining[m] \in Nat
      BY <2>3 DEF RaceTypes, TypeOK
    <3> QED
      BY <3>1 DEF Smaller
  <2>5. /\ remaining' = [remaining EXCEPT ![t] = @ - size, ![m] = @ - size]
        /\ filled' = [filled EXCEPT ![t] = @ + size, ![m] = @ + size]
        /\ match' = [match EXCEPT !.index = @ + 1]
        /\ heap' = heap /\ header' = header /\ cancel' = cancel /\ arrived' = arrived
        /\ pending' = pending /\ gone' = gone /\ crashed' = FALSE
    BY <1>2, <2>1, <2>2, <2>4 DEF Iterate, Alive
  <2>6. remaining' \in [Entry -> Nat] /\ filled' \in [Entry -> Nat]
    <3>1. remaining[t] - size \in Nat /\ remaining[m] - size \in Nat
      BY <2>3, <2>4 DEF RaceTypes, TypeOK
    <3>2. filled[t] + size \in Nat /\ filled[m] + size \in Nat
      BY <2>3, <2>4 DEF RaceTypes, TypeOK
    <3> QED
      BY <2>3, <2>5, <3>1, <3>2 DEF RaceTypes, TypeOK
  <2>7. match' \in GoroutineState /\ match'.index >= 1
    <3>1. match.index + 1 \in Nat /\ match.index + 1 >= 1
      BY DEF RaceTypes, TypeOK, GoroutineState, CallsAreSound
    <3> QED
      BY <2>5, <3>1 DEF RaceTypes, TypeOK, GoroutineState
  <2>8. RaceTypes'
    BY <1>0, <2>5, <2>6, <2>7, NatIsInt DEF RaceTypes, TypeOK
  <2>9. /\ match'.pc = match.pc /\ match'.object = match.object /\ match'.side = match.side
        /\ match'.walked = match.walked /\ match'.next = match.next
    BY <2>5 DEF RaceTypes, TypeOK, GoroutineState
  <2>10. CallsAreSound'
    BY <2>5, <2>7, <2>9 DEF CallsAreSound
  <2>11. \A r \in Side, b \in Address : Uses(r, b)' => Uses(r, b)
    BY <2>5, <2>9 DEF Uses, MakerSide
  <2> QED
    BY <2>5, <2>8, <2>10, <2>11, ApartKept
<1> QED
  BY <1>1, <1>2

\* The fields after one word of a header has been stored.
OneWordStored(new, side, h, w) ==
    /\ new \in [Side -> Header]
    /\ new[side].at \in {header[side].at, h.at}
    /\ \A r \in Side \ {side} : new[r] = header[r]
    /\ new[side][w] = h[w]
    /\ \A v \in Words \ {w} : new[side][v] = header[side][v]

LEMMA StoredFacts ==
    ASSUME RaceTypes, NEW side \in Side, NEW h \in Header, NEW w \in Words
    PROVE  OneWordStored([header EXCEPT ![side][w] = h[w]], side, h, w)
<1> SUFFICES ASSUME NEW new, new = [header EXCEPT ![side][w] = h[w]]
             PROVE  OneWordStored(new, side, h, w)
  OBVIOUS
<1> DEFINE old == header[side]
<1>1. old \in Header /\ header \in [Side -> Header]
  BY DEF RaceTypes, TypeOK
<1>2. old = [at |-> old.at, len |-> old.len] /\ old.at \in Address /\ old.len \in Nat
  BY <1>1 DEF Header
<1>3. h.at \in Address /\ h.len \in Nat
  BY DEF Header
<1>4. new[side] = [old EXCEPT ![w] = h[w]] /\ \A r \in Side \ {side} : new[r] = header[r]
  BY <1>1
<1>5. DOMAIN new = Side /\ \A r \in Side \ {side} : new[r] \in Header
  BY <1>1, <1>4
<1> HIDE DEF old
<1>6. CASE w = "at"
  <2>1. new[side] = [at |-> h.at, len |-> old.len]
    <3>1. h[w] = h.at
      BY <1>6
    <3>2. PICK x, y, z : x = old.at /\ y = old.len /\ z = h.at
      OBVIOUS
    <3>3. [[at |-> x, len |-> y] EXCEPT !["at"] = z] = [at |-> z, len |-> y]
      OBVIOUS
    <3> QED
      BY <1>2, <1>4, <1>6, <3>1, <3>2, <3>3
  <2>2. new[side] \in Header /\ new[side].at = h.at
    BY <1>2, <1>3, <2>1 DEF Header
  <2>3. new[side][w] = h[w] /\ \A v \in Words \ {w} : new[side][v] = old[v]
    BY <1>2, <1>6, <2>1 DEF Words
  <2>4. new \in [Side -> Header]
    BY <1>1, <1>5, <2>2
  <2> QED
    BY <1>4, <2>2, <2>3, <2>4 DEF old, OneWordStored
<1>7. CASE w = "len"
  <2>1. new[side] = [at |-> old.at, len |-> h.len]
    <3>1. h[w] = h.len
      BY <1>7
    <3>2. PICK x, y, z : x = old.at /\ y = old.len /\ z = h.len
      OBVIOUS
    <3>3. [[at |-> x, len |-> y] EXCEPT !["len"] = z] = [at |-> x, len |-> z]
      OBVIOUS
    <3> QED
      BY <1>2, <1>4, <1>7, <3>1, <3>2, <3>3
  <2>2. new[side] \in Header /\ new[side].at = old.at
    BY <1>2, <1>3, <2>1 DEF Header
  <2>3. new[side][w] = h[w] /\ \A v \in Words \ {w} : new[side][v] = old[v]
    BY <1>2, <1>7, <2>1 DEF Words
  <2>4. new \in [Side -> Header]
    BY <1>1, <1>5, <2>2
  <2> QED
    BY <1>4, <2>2, <2>3, <2>4 DEF old, OneWordStored
<1> QED
  BY <1>6, <1>7 DEF Words

LEMMA PruneKeepsTypes ==
    ASSUME TypeInv, Prune
    PROVE  TypeInv'
<1> USE DEF TypeInv
<1>0. overlapped' \in BOOLEAN /\ match.pc = "loop"
  BY DEF Prune, StepBeside
<1>1. CASE Panic
  BY <1>0, <1>1, PanicKeepsTypes
<1>2. CASE ~ Panic
  <2>1. PICK side \in Side, h \in Header, new \in Address :
            side = MakerSide /\ h = header[side] /\ new = Fresh
    BY HeaderFacts, FreshFacts
  <2>2. PICK kept \in Pruned(Elements(h)) :
            /\ heap' = [heap EXCEPT ![new] = Padded(kept, h.len)]
            /\ match' = [match EXCEPT !.pc = "pruned", !.words = Words,
                                !.next = [at |-> new, len |-> Len(kept)],
                                !.walked = [at |-> new, len |-> 0]]
    BY <1>2, <2>1 DEF Prune
  <2>3. /\ Intact(h) /\ header' = header /\ remaining' = remaining /\ cancel' = cancel
        /\ arrived' = arrived /\ pending' = pending /\ gone' = gone /\ filled' = filled
        /\ crashed' = FALSE
    BY <1>2, <2>1 DEF Prune, Alive
  <2>4. PICK e \in Seq(Entry) :
            e = Elements(h) /\ Len(e) = h.len /\ h.len \in Nat
            /\ \A k \in 1..h.len : e[k] = heap[h.at][k]
    BY <2>3, IntactFacts, HeaderFacts
  <2>5. kept \in Seq(Entry) /\ ToSet(kept) \subseteq ToSet(e)
    BY <2>2, <2>4, PrunedFacts
  <2>6. kept \in Seq(Slot) /\ Len(kept) \in Nat
    BY <2>5, SeqMonotonic, Entry \subseteq Slot DEF Slot
  <2>7. PICK t \in Seq(Slot) :
            /\ t = Padded(kept, h.len)
            /\ \A k \in DOMAIN t : t[k] = NoEntry \/ (k \in 1..Len(kept) /\ t[k] = kept[k])
    BY <2>4, <2>6, PaddedFacts
  <2>8. Uses(side, h.at) /\ h.at \in Address /\ h.len <= Len(heap[h.at])
    BY <2>1, <2>3, HeaderFacts, IntactFacts DEF Uses
  <2>9. ASSUME NEW k \in DOMAIN t, t[k] # NoEntry
        PROVE  Object[t[k]].side = side
    <3>1. t[k] \in ToSet(e)
      BY <2>5, <2>7, <2>9 DEF ToSet
    <3>2. PICK j \in 1..h.len : t[k] = heap[h.at][j]
      BY <2>4, <3>1 DEF ToSet
    <3>3. j \in DOMAIN heap[h.at]
      BY <2>1, <2>4, <2>8, HeaderFacts
    <3> QED
      BY <2>8, <2>9, <3>2, <3>3, OnItsSide
  <2>10. /\ match' \in GoroutineState /\ match'.pc = "pruned"
         /\ match'.object = match.object /\ match'.side = match.side
         /\ match'.index = match.index /\ match'.next.at = new
    <3>1. [at |-> new, len |-> Len(kept)] \in Header /\ [at |-> new, len |-> 0] \in Header
      BY <2>6 DEF Header
    <3> QED
      BY <2>2, <3>1 DEF RaceTypes, TypeOK, GoroutineState
  <2>11. RaceTypes'
    <3>1. heap' \in [Address -> Seq(Entry \cup {NoEntry})]
      BY <2>2, <2>7 DEF RaceTypes, TypeOK, Slot
    <3> QED
      BY <1>0, <2>3, <2>10, <3>1 DEF RaceTypes, TypeOK
  <2>12. CallsAreSound'
    BY <1>0, <2>3, <2>10 DEF CallsAreSound
  <2>13. \A r \in Side, b \in Address :
            Uses(r, b)' => Uses(r, b) \/ (r = side /\ b = new)
    BY <1>0, <2>1, <2>3, <2>10 DEF Uses, MakerSide
  <2>14. \A r \in Side : ~ Uses(r, new)
    BY <1>0, <2>1, FreshFacts DEF Uses, Side
  <2>15. heap' = [heap EXCEPT ![new] = t]
    BY <2>2, <2>7
  <2> QED
    BY <2>9, <2>11, <2>12, <2>13, <2>14, <2>15, ApartWritten
<1> QED
  BY <1>1, <1>2

LEMMA StorePrunedKeepsTypes ==
    ASSUME TypeInv, StorePruned
    PROVE  TypeInv'
<1> USE DEF TypeInv
<1>1. /\ overlapped' \in BOOLEAN /\ crashed' = FALSE /\ match.pc = "pruned"
      /\ heap' = heap /\ remaining' = remaining /\ cancel' = cancel /\ arrived' = arrived
      /\ pending' = pending /\ gone' = gone /\ filled' = filled
  BY DEF StorePruned, StepBeside, Alive
<1>2. PICK side \in Side, h \in Header : side = MakerSide /\ h = match.next
  BY HeaderFacts
<1>3. PICK w \in Words :
        /\ header' = [header EXCEPT ![side][w] = h[w]]
        /\ \/ match' = [match EXCEPT !.pc = "add", !.words = {}]
           \/ match' = Idle
           \/ match' = [match EXCEPT !.words = @ \ {w}]
  BY <1>2 DEF StorePruned, Stored, RaceTypes, TypeOK, GoroutineState
<1>4. /\ header' \in [Side -> Header] /\ header'[side].at \in {header[side].at, h.at}
      /\ \A r \in Side \ {side} : header'[r] = header[r]
  <2>1. OneWordStored(header', side, h, w)
    BY <1>3, StoredFacts
  <2> QED
    BY <2>1 DEF OneWordStored
<1>5. /\ match' \in GoroutineState /\ match'.index >= 1
      /\ \/ match'.pc = "idle"
         \/ /\ match'.pc \in {"pruned", "add"} /\ match'.side = match.side
            /\ match'.object = match.object /\ match'.next = match.next
  <2>1. match \in GoroutineState /\ match.index >= 1
    BY DEF RaceTypes, TypeOK, CallsAreSound
  <2>2. CASE match' = Idle
    BY <2>2, IdleFacts
  <2>3. CASE match' = [match EXCEPT !.words = @ \ {w}]
    BY <1>1, <2>1, <2>3 DEF GoroutineState
  <2>4. CASE match' = [match EXCEPT !.pc = "add", !.words = {}]
    BY <1>1, <2>1, <2>4 DEF GoroutineState
  <2> QED
    BY <1>3, <2>2, <2>3, <2>4
<1>6. RaceTypes'
  BY <1>1, <1>4, <1>5 DEF RaceTypes, TypeOK
<1>7. CallsAreSound'
  BY <1>1, <1>5 DEF CallsAreSound
<1>8. \A r \in Side, b \in Address : Uses(r, b)' => Uses(r, b)
  BY <1>1, <1>2, <1>4, <1>5 DEF Uses, MakerSide
<1> QED
  BY <1>1, <1>6, <1>7, <1>8, ApartKept

LEMMA StoreAppendedKeepsTypes ==
    ASSUME TypeInv, StoreAppended
    PROVE  TypeInv'
<1> USE DEF TypeInv
<1>1. /\ overlapped' \in BOOLEAN /\ crashed' = FALSE /\ match.pc = "added"
      /\ heap' = heap /\ remaining' = remaining /\ cancel' = cancel /\ arrived' = arrived
      /\ pending' = pending /\ gone' = gone /\ filled' = filled
  BY DEF StoreAppended, StepBeside, Alive
<1>2. PICK side \in Side, h \in Header : side = match.side /\ h = match.next
  BY HeaderFacts
<1>3. PICK w \in Words :
        /\ header' = [header EXCEPT ![side][w] = h[w]]
        /\ \/ match' = Idle
           \/ match' = [match EXCEPT !.words = @ \ {w}]
  BY <1>2 DEF StoreAppended, Stored, RaceTypes, TypeOK, GoroutineState
<1>4. /\ header' \in [Side -> Header] /\ header'[side].at \in {header[side].at, h.at}
      /\ \A r \in Side \ {side} : header'[r] = header[r]
  <2>1. OneWordStored(header', side, h, w)
    BY <1>3, StoredFacts
  <2> QED
    BY <2>1 DEF OneWordStored
<1>5. /\ match' \in GoroutineState /\ match'.index >= 1
      /\ \/ match'.pc = "idle"
         \/ /\ match'.pc = "added" /\ match'.side = match.side
            /\ match'.object = match.object /\ match'.next = match.next
  <2>1. match \in GoroutineState /\ match.index >= 1
    BY DEF RaceTypes, TypeOK, CallsAreSound
  <2>2. CASE match' = Idle
    BY <2>2, IdleFacts
  <2>3. CASE match' = [match EXCEPT !.words = @ \ {w}]
    BY <1>1, <2>1, <2>3 DEF GoroutineState
  <2> QED
    BY <1>3, <2>2, <2>3
<1>6. RaceTypes'
  BY <1>1, <1>4, <1>5 DEF RaceTypes, TypeOK
<1>7. CallsAreSound'
  BY <1>1, <1>5 DEF CallsAreSound
<1>8. \A r \in Side, b \in Address : Uses(r, b)' => Uses(r, b)
  BY <1>1, <1>2, <1>4, <1>5 DEF Uses, MakerSide
<1> QED
  BY <1>1, <1>6, <1>7, <1>8, ApartKept

\* The array that AppendRest leaves: what the slice had and the object.
LEMMA AppendedArray ==
    ASSUME RaceTypes, NEW h \in Header, NEW e \in Entry
    PROVE  \E t \in Seq(Slot) :
              /\ t = IF h.len < Len(heap[h.at]) THEN [heap[h.at] EXCEPT ![h.len + 1] = e]
                     ELSE Padded(Append(Elements(h), e), IF h.len = 0 THEN 1 ELSE 2 * h.len)
              /\ h.len + 1 <= Len(t) /\ t[h.len + 1] = e
              /\ \A k \in 1..h.len : t[k] = Elements(h)[k]
              /\ \A k \in DOMAIN t :
                    t[k] = NoEntry \/ t[k] = e \/ \E j \in DOMAIN heap[h.at] : t[k] = heap[h.at][j]
<1>1. PICK a \in Seq(Slot), n \in Nat : a = heap[h.at] /\ n = h.len
  BY HeaderFacts
<1>2. PICK s \in Seq(Slot) :
        /\ s = Elements(h) /\ Len(s) = n
        /\ \A k \in 1..n : s[k] = IF k <= Len(a) THEN a[k] ELSE NoEntry
  BY <1>1, ElementsFacts
<1>3. e \in Slot
  BY DEF Slot
<1>4. Len(a) \in Nat /\ DOMAIN a = 1..Len(a)
  BY <1>1
<1>5. CASE n < Len(a)
  <2> DEFINE t == [a EXCEPT ![n + 1] = e]
  <2>1. n < Len(a) /\ n + 1 \in 1..Len(a)
    BY <1>1, <1>4, <1>5
  <2>2. t \in Seq(Slot) /\ Len(t) = Len(a) /\ DOMAIN t = DOMAIN a
        /\ t[n + 1] = e /\ \A k \in 1..Len(a) : k # n + 1 => t[k] = a[k]
    BY <1>3, <1>4, <2>1
  <2> HIDE DEF t
  <2>3. \A k \in 1..n : t[k] = s[k]
    BY <1>2, <1>4, <2>1, <2>2
  <2>4. \A k \in DOMAIN t :
            t[k] = NoEntry \/ t[k] = e \/ \E j \in DOMAIN a : t[k] = a[j]
    BY <1>4, <2>2
  <2>5. n + 1 <= Len(t)
    BY <2>1, <2>2
  <2>6. t = IF h.len < Len(heap[h.at]) THEN [heap[h.at] EXCEPT ![h.len + 1] = e]
            ELSE Padded(Append(Elements(h), e), IF h.len = 0 THEN 1 ELSE 2 * h.len)
    BY <1>1, <1>5 DEF t
  <2>7. t \in Seq(Slot) /\ t[n + 1] = e
    BY <2>2
  <2>8. /\ h.len + 1 <= Len(t) /\ t[h.len + 1] = e
        /\ \A k \in 1..h.len : t[k] = Elements(h)[k]
        /\ \A k \in DOMAIN t :
              t[k] = NoEntry \/ t[k] = e \/ \E j \in DOMAIN heap[h.at] : t[k] = heap[h.at][j]
    BY <1>1, <1>2, <2>3, <2>4, <2>5, <2>7
  <2> QED
    BY <2>6, <2>7, <2>8, Zenon
<1>6. CASE ~ (n < Len(a))
  <2>1. PICK g \in Seq(Slot) :
            /\ g = Append(Elements(h), e) /\ Len(g) = n + 1 /\ g[n + 1] = e
            /\ \A k \in 1..n : g[k] = s[k]
    <3>1. /\ Append(s, e) \in Seq(Slot) /\ Len(Append(s, e)) = Len(s) + 1
          /\ Append(s, e)[Len(s) + 1] = e
          /\ \A k \in 1..Len(s) : Append(s, e)[k] = s[k]
      BY <1>3
    <3> QED
      BY <1>2, <3>1
  <2>2. PICK capacity \in Nat : capacity = IF h.len = 0 THEN 1 ELSE 2 * h.len
    BY <1>1
  <2>3. PICK t \in Seq(Slot) :
            /\ t = Padded(g, capacity) /\ Len(t) >= n + 1
            /\ \A k \in 1..(n + 1) : t[k] = g[k]
            /\ \A k \in DOMAIN t : t[k] = NoEntry \/ k \in 1..(n + 1)
    <3>1. PICK t \in Seq(Slot) :
            /\ t = Padded(g, capacity) /\ Len(t) >= Len(g)
            /\ \A k \in 1..Len(g) : t[k] = g[k]
            /\ \A k \in DOMAIN t : t[k] = NoEntry \/ k \in 1..Len(g)
      BY PaddedFacts
    <3> QED
      BY <2>1, <3>1
  <2>4. t[n + 1] = e /\ \A k \in 1..n : t[k] = s[k]
    BY <2>1, <2>3
  <2>5. ASSUME NEW k \in DOMAIN t
        PROVE  t[k] = NoEntry \/ t[k] = e \/ \E j \in DOMAIN a : t[k] = a[j]
    <3>1. t[k] = NoEntry \/ k = n + 1 \/ k \in 1..n
      BY <2>3
    <3>2. CASE k \in 1..n
      BY <1>2, <1>4, <2>4, <3>2
    <3> QED
      BY <2>4, <3>1, <3>2
  <2>6. t = Padded(Append(Elements(h), e), IF h.len = 0 THEN 1 ELSE 2 * h.len)
    BY <2>1, <2>2, <2>3
  <2> QED
    BY <1>1, <1>2, <1>6, <2>3, <2>4, <2>5, <2>6
<1> QED
  BY <1>5, <1>6

\* What AppendRest does, with the array it writes to: the slice's own or a new.
AppendsTo(h, at, t, e) ==
    /\ h = header[match.side] /\ e = match.object
    /\ at \in {h.at, Fresh} /\ heap' = [heap EXCEPT ![at] = t]
    /\ match' = [match EXCEPT !.pc = "added", !.words = Words,
                    !.next = [at |-> at, len |-> h.len + 1],
                    !.walked = [at |-> at, len |-> 0]]
    /\ h.len + 1 <= Len(t) /\ t[h.len + 1] = e
    /\ \A k \in 1..h.len : t[k] = Elements(h)[k]
    /\ \A k \in DOMAIN t : \/ t[k] = NoEntry \/ t[k] = e
                           \/ \E j \in DOMAIN heap[h.at] : t[k] = heap[h.at][j]

LEMMA AppendRestFacts ==
    ASSUME TypeInv, AppendRest
    PROVE  \E h \in Header, at \in Address, t \in Seq(Slot), e \in Entry :
                AppendsTo(h, at, t, e)
<1> USE DEF TypeInv
<1>1. PICK h \in Header, e \in Entry, new \in Address :
        h = header[match.side] /\ e = match.object /\ new = Fresh
  BY HeaderFacts, FreshFacts DEF AppendRest, CallsAreSound
<1> DEFINE room == h.len < Len(heap[h.at])
<1>3. PICK t \in Seq(Slot) :
        /\ t = IF room THEN [heap[h.at] EXCEPT ![h.len + 1] = e]
               ELSE Padded(Append(Elements(h), e), IF h.len = 0 THEN 1 ELSE 2 * h.len)
        /\ h.len + 1 <= Len(t) /\ t[h.len + 1] = e
        /\ \A k \in 1..h.len : t[k] = Elements(h)[k]
        /\ \A k \in DOMAIN t :
              t[k] = NoEntry \/ t[k] = e \/ \E j \in DOMAIN heap[h.at] : t[k] = heap[h.at][j]
  BY AppendedArray
<1>4. PICK at \in Address : at = IF room THEN h.at ELSE new
  BY <1>1, HeaderFacts
<1>5. /\ heap' = [heap EXCEPT ![at] =
                     IF room THEN [heap[h.at] EXCEPT ![h.len + 1] = e]
                     ELSE Padded(Append(Elements(h), e), IF h.len = 0 THEN 1 ELSE 2 * h.len)]
      /\ match' = [match EXCEPT !.pc = "added", !.words = Words,
                       !.next = [at |-> at, len |-> h.len + 1],
                       !.walked = [at |-> at, len |-> 0]]
  <2>1. CASE room
    BY <1>1, <1>4, <2>1 DEF AppendRest
  <2>2. CASE ~ room
    BY <1>1, <1>4, <2>2 DEF AppendRest
  <2> QED
    BY <2>1, <2>2
<1>6. heap' = [heap EXCEPT ![at] = t]
  BY <1>3, <1>5
<1>7. at \in {h.at, Fresh}
  BY <1>1, <1>4
<1> HIDE DEF room
<1>8. AppendsTo(h, at, t, e)
  BY <1>1, <1>3, <1>5, <1>6, <1>7 DEF AppendsTo
<1> QED
  BY <1>8

LEMMA AppendRestKeepsTypes ==
    ASSUME TypeInv, AppendRest
    PROVE  TypeInv'
<1> USE DEF TypeInv
<1>1. /\ overlapped' \in BOOLEAN /\ crashed' = FALSE /\ match.pc = "add"
      /\ header' = header /\ remaining' = remaining /\ cancel' = cancel /\ arrived' = arrived
      /\ pending' = pending /\ gone' = gone /\ filled' = filled
  BY DEF AppendRest, StepBeside, Alive
<1>2. PICK h \in Header, at \in Address, t \in Seq(Slot), e \in Entry :
        AppendsTo(h, at, t, e)
  BY AppendRestFacts
<1> USE DEF AppendsTo
<1>3. PICK side \in Side : side = match.side /\ Object[e].side = side
  BY <1>1, <1>2, HeaderFacts DEF CallsAreSound
<1>4. Uses(side, h.at) /\ h.at \in Address
  BY <1>2, <1>3, HeaderFacts DEF Uses
<1>5. /\ match' \in GoroutineState /\ match'.pc = "added"
      /\ match'.object = match.object /\ match'.side = match.side
      /\ match'.index = match.index /\ match'.next.at = at
  <2>1. [at |-> at, len |-> h.len + 1] \in Header /\ [at |-> at, len |-> 0] \in Header
    BY HeaderFacts DEF Header
  <2> QED
    BY <1>2, <2>1 DEF RaceTypes, TypeOK, GoroutineState
<1>6. RaceTypes'
  <2>1. heap' \in [Address -> Seq(Entry \cup {NoEntry})]
    BY <1>2 DEF RaceTypes, TypeOK, Slot
  <2> QED
    BY <1>1, <1>5, <2>1 DEF RaceTypes, TypeOK
<1>7. CallsAreSound'
  BY <1>1, <1>5 DEF CallsAreSound
<1>8. \A r \in Side, b \in Address : Uses(r, b)' => Uses(r, b) \/ (r = side /\ b = at)
  BY <1>1, <1>3, <1>5 DEF Uses, MakerSide
<1>9. \A r \in Side : Uses(r, at) => r = side
  <2>1. CASE at = h.at
    BY <1>3, <1>4, <2>1, OneSide
  <2>2. CASE at = Fresh
    BY <1>1, <2>2, FreshFacts DEF Uses, Side
  <2> QED
    BY <1>2, <2>1, <2>2
<1>10. \A k \in DOMAIN t : t[k] # NoEntry => Object[t[k]].side = side
  BY <1>2, <1>3, <1>4, OnItsSide
<1> QED
  BY <1>2, <1>6, <1>7, <1>8, <1>9, <1>10, ApartWritten

LEMMA FirstPosition ==
    ASSUME NEW n \in Nat, NEW T \in SUBSET (1..n), T # {}
    PROVE  Min(T) \in T /\ Min(T) \in 1..n
<1>1. T \in SUBSET Nat
  OBVIOUS
<1>2. PICK k \in T : \A j \in T : k <= j
  BY <1>1, Smallest
<1>3. Min(T) \in T
  BY <1>2, Zenon DEF Min
<1> QED
  BY <1>3

\* A look panics, finds nothing, or notes where it found the object.
Finds(e, side, k) ==
    /\ k \in 1..header[side].len /\ Element(header[side], k) = e
    /\ cancel' = [Idle EXCEPT !.pc = "found", !.object = e, !.side = side, !.index = k]

AsksAgain(e) == cancel' = [Idle EXCEPT !.pc = "again", !.object = e]

FindsSome(e) == \E side \in Side, k \in Nat : Finds(e, side, k)

LookEffect(e) ==
    /\ pending' \subseteq pending
    /\ cancel' = Idle \/ AsksAgain(e) \/ FindsSome(e)

LooksOnly ==
    /\ heap' = heap /\ header' = header /\ remaining' = remaining /\ match' = match
    /\ arrived' = arrived /\ gone' = gone /\ filled' = filled /\ crashed' = FALSE

LEMMA LookFacts ==
    ASSUME TypeInv, NEW e, NEW otherwise, Look(e, otherwise), ~ Panic
    PROVE  /\ pending' \subseteq pending
           /\ cancel' = otherwise \/ FindsSome(e)
           /\ LooksOnly
<1> USE DEF TypeInv
<1> DEFINE sideOf == IF Positions("buy", e) # {} THEN "buy" ELSE "sell"
<1>1. /\ pending' = pending \ {e}
      /\ cancel' = IF Positions(sideOf, e) = {} THEN otherwise
                   ELSE [Idle EXCEPT !.pc = "found", !.object = e,
                                     !.side = sideOf, !.index = Min(Positions(sideOf, e))]
      /\ UNCHANGED <<heap, header, remaining, match, arrived, gone, filled>>
      /\ Alive
  BY DEF Look
<1>2. PICK side \in Side : side = sideOf
  BY DEF Side
<1> HIDE DEF sideOf
<1>3. LooksOnly /\ pending' \subseteq pending
  BY <1>1 DEF LooksOnly, Alive
<1>4. CASE Positions(side, e) = {}
  BY <1>1, <1>2, <1>3, <1>4
<1>5. CASE Positions(side, e) # {}
  <2>1. header[side].len \in Nat /\ Positions(side, e) \in SUBSET (1..header[side].len)
    BY HeaderFacts DEF Positions
  <2>2. PICK k \in Nat : k = Min(Positions(side, e)) /\ k \in Positions(side, e)
    BY <1>5, <2>1, FirstPosition
  <2>3. k \in 1..header[side].len /\ Element(header[side], k) = e
    BY <2>2 DEF Positions
  <2>4. cancel' = [Idle EXCEPT !.pc = "found", !.object = e, !.side = side, !.index = k]
    BY <1>1, <1>2, <1>5, <2>2
  <2>5. Finds(e, side, k)
    BY <2>3, <2>4 DEF Finds
  <2>6. FindsSome(e)
    BY <2>5 DEF FindsSome
  <2> QED
    BY <1>3, <2>6
<1> QED
  BY <1>4, <1>5

LEMMA ScanFacts ==
    ASSUME TypeInv, Scan \/ ScanAgain, ~ Panic
    PROVE  (\E e \in ToCancel : LookEffect(e)) /\ LooksOnly
<1> USE DEF TypeInv
<1>1. CASE Scan
  <2>1. PICK e \in pending : Look(e, [Idle EXCEPT !.pc = "again", !.object = e])
    BY <1>1 DEF Scan
  <2>2. /\ pending' \subseteq pending /\ LooksOnly
        /\ cancel' = [Idle EXCEPT !.pc = "again", !.object = e] \/ FindsSome(e)
    BY <2>1, LookFacts
  <2>3. LookEffect(e)
    BY <2>2 DEF LookEffect, AsksAgain
  <2>4. e \in ToCancel
    BY DEF RaceTypes, TypeOK
  <2> QED
    BY <2>2, <2>3, <2>4
<1>2. CASE ScanAgain
  <2>1. PICK e : e = cancel.object
    OBVIOUS
  <2>2. Look(e, Idle) /\ e \in ToCancel
    BY <1>2, <2>1 DEF ScanAgain, CallsAreSound
  <2>3. /\ pending' \subseteq pending /\ LooksOnly
        /\ cancel' = Idle \/ FindsSome(e)
    BY <2>2, LookFacts
  <2> QED
    BY <2>2, <2>3 DEF LookEffect
<1> QED
  BY <1>1, <1>2

LEMMA ScanKeepsTypes ==
    ASSUME TypeInv, Scan \/ ScanAgain
    PROVE  TypeInv'
<1> USE DEF TypeInv
<1>0. overlapped' \in BOOLEAN
  BY DEF Scan, ScanAgain, StepBeside
<1>1. CASE Panic
  BY <1>0, <1>1, PanicKeepsTypes
<1>2. CASE ~ Panic
  <2>1. /\ heap' = heap /\ header' = header /\ remaining' = remaining /\ match' = match
        /\ arrived' = arrived /\ gone' = gone /\ filled' = filled /\ crashed' = FALSE
    BY <1>2, ScanFacts DEF LooksOnly
  <2>2. PICK e \in ToCancel : LookEffect(e)
    BY <1>2, ScanFacts
  <2>3. e \in Entry /\ pending' \subseteq ToCancel
    BY <2>2, RaceAssumption DEF RaceTypes, TypeOK, LookEffect
  <2>4. /\ cancel' \in GoroutineState /\ cancel'.index >= 1
        /\ \/ cancel'.pc = "idle"
           \/ cancel'.pc \in {"again", "found"} /\ cancel'.object = e
    <3>1. CASE cancel' = Idle
      BY <3>1, IdleFacts
    <3>2. ASSUME NEW side \in Side, NEW k \in Nat, Finds(e, side, k)
          PROVE  <2>4!:
      <4>1. k >= 1
        BY <3>2, HeaderFacts DEF Finds
      <4> QED
        BY <2>3, <3>2, <4>1, IdleFacts DEF Finds, GoroutineState
    <3>3. CASE AsksAgain(e)
      <4>1. "again" \in {"idle", "loop", "pruned", "add", "added", "again", "found", "shifted"}
        OBVIOUS
      <4>2. cancel' \in GoroutineState
        BY <2>3, <3>3, <4>1, IdleFacts DEF AsksAgain, GoroutineState
      <4>3. cancel'.pc = "again" /\ cancel'.object = e /\ cancel'.index = 1
        BY <3>3 DEF AsksAgain, Idle
      <4> QED
        BY <4>2, <4>3
    <3> QED
      BY <2>2, <3>1, <3>2, <3>3 DEF LookEffect, FindsSome
  <2>5. RaceTypes'
    BY <1>0, <2>1, <2>3, <2>4 DEF RaceTypes, TypeOK
  <2>6. CallsAreSound'
    BY <2>1, <2>3, <2>4 DEF CallsAreSound
  <2>7. \A r \in Side, b \in Address : Uses(r, b)' => Uses(r, b)
    BY <2>1, <2>4 DEF Uses, MakerSide
  <2> QED
    BY <2>1, <2>5, <2>6, <2>7, ApartKept
<1> QED
  BY <1>1, <1>2

\* The array after the shift, and the header that Cancel is about to store.
Shifts(h, i, t) ==
    /\ h = header[cancel.side] /\ i = cancel.index
    /\ 1 <= i /\ i <= h.len /\ h.len <= Len(heap[h.at])
    /\ heap' = [heap EXCEPT ![h.at] = t]
    /\ Len(t) = Len(heap[h.at])
    /\ \A k \in 1..Len(t) : t[k] = IF k \in i..(h.len - 1) THEN heap[h.at][k + 1]
                                   ELSE heap[h.at][k]
    /\ cancel' = [cancel EXCEPT !.pc = "shifted", !.words = Words,
                      !.next = [at |-> h.at, len |-> h.len - 1]]

LEMMA ShiftFacts ==
    ASSUME TypeInv, Shift, ~ Panic
    PROVE  /\ \E h \in Header, i \in Nat, t \in Seq(Slot) : Shifts(h, i, t)
           /\ header' = header /\ remaining' = remaining /\ match' = match
           /\ arrived' = arrived /\ pending' = pending /\ gone' = gone
           /\ filled' = filled /\ crashed' = FALSE
<1> USE DEF TypeInv
<1>1. PICK h \in Header, i \in Nat :
        h = header[cancel.side] /\ i = cancel.index /\ 1 <= i
  <2>1. cancel.index \in Nat /\ 1 <= cancel.index
    BY DEF RaceTypes, TypeOK, GoroutineState, CallsAreSound
  <2> QED
    BY <2>1, HeaderFacts
<1>2. PICK a \in Seq(Slot), n \in Nat : a = heap[h.at] /\ h.at \in Address /\ n = h.len
  BY HeaderFacts
<1> DEFINE t == [k \in DOMAIN a |-> IF k \in i..(n - 1) THEN a[k + 1] ELSE a[k]]
<1>3. /\ i <= n /\ n <= Len(a) /\ heap' = [heap EXCEPT ![h.at] = t]
      /\ cancel' = [cancel EXCEPT !.pc = "shifted", !.words = Words,
                        !.next = [at |-> h.at, len |-> n - 1]]
      /\ UNCHANGED <<header, remaining, match, arrived, pending, gone, filled>>
      /\ Alive
  BY <1>1, <1>2 DEF Shift
<1>4. t \in Seq(Slot) /\ Len(t) = Len(a)
      /\ \A k \in 1..Len(t) : t[k] = IF k \in i..(n - 1) THEN a[k + 1] ELSE a[k]
  <2>1. Len(a) \in Nat /\ DOMAIN a = 1..Len(a) /\ \A k \in 1..Len(a) : a[k] \in Slot
    BY SeqFacts
  <2>2. \A k \in 1..Len(a) : k \in i..(n - 1) => k + 1 \in 1..Len(a)
    BY <1>3, <2>1
  <2>3. \A k \in 1..Len(a) : t[k] \in Slot
    BY <2>1, <2>2
  <2>4. t \in [1..Len(a) -> Slot]
    BY <2>1, <2>3
  <2>5. t \in Seq(Slot) /\ Len(t) = Len(a)
    <3> HIDE DEF t
    <3> QED
      BY <2>1, <2>4
  <2> QED
    BY <2>1, <2>5
<1> HIDE DEF t
<1>5. Shifts(h, i, t)
  BY <1>1, <1>2, <1>3, <1>4 DEF Shifts
<1> QED
  BY <1>3, <1>4, <1>5 DEF Alive

LEMMA ShiftKeepsTypes ==
    ASSUME TypeInv, Shift
    PROVE  TypeInv'
<1> USE DEF TypeInv
<1>0. overlapped' \in BOOLEAN /\ cancel.pc = "found"
  BY DEF Shift, StepBeside
<1>1. CASE Panic
  BY <1>0, <1>1, PanicKeepsTypes
<1>2. CASE ~ Panic
  <2>1. /\ header' = header /\ remaining' = remaining /\ match' = match
        /\ arrived' = arrived /\ pending' = pending /\ gone' = gone
        /\ filled' = filled /\ crashed' = FALSE
    BY <1>2, ShiftFacts
  <2>2. PICK h \in Header, i \in Nat, t \in Seq(Slot) : Shifts(h, i, t)
    BY <1>2, ShiftFacts
  <2> USE DEF Shifts
  <2>3. PICK side \in Side, n \in Nat, old \in Seq(Slot) :
            side = cancel.side /\ n = h.len /\ old = heap[h.at] /\ h.at \in Address
    BY HeaderFacts
  <2>4. Uses(side, h.at)
    BY <2>2, <2>3 DEF Uses
  <2>5. /\ cancel' \in GoroutineState /\ cancel'.pc = "shifted"
        /\ cancel'.object = cancel.object /\ cancel'.side = cancel.side
        /\ cancel'.index = cancel.index /\ cancel'.next.at = h.at
    <3>1. n - 1 \in Nat
      BY <2>2, <2>3
    <3>2. [at |-> h.at, len |-> n - 1] \in Header
      BY <2>3, <3>1 DEF Header
    <3> QED
      BY <2>2, <2>3, <3>2 DEF RaceTypes, TypeOK, GoroutineState
  <2>6. RaceTypes'
    <3>1. heap' \in [Address -> Seq(Entry \cup {NoEntry})]
      BY <2>2 DEF RaceTypes, TypeOK, Slot
    <3> QED
      BY <1>0, <2>1, <2>5, <3>1 DEF RaceTypes, TypeOK
  <2>7. CallsAreSound'
    BY <1>0, <2>1, <2>5 DEF CallsAreSound
  <2>8. \A r \in Side, b \in Address : Uses(r, b)' => Uses(r, b) \/ (r = side /\ b = h.at)
    BY <1>0, <2>1, <2>3, <2>5 DEF Uses, MakerSide
  <2>9. \A r \in Side : Uses(r, h.at) => r = side
    BY <2>3, <2>4, OneSide
  <2>10. ASSUME NEW k \in DOMAIN t, t[k] # NoEntry
         PROVE  Object[t[k]].side = side
    <3>1. Len(old) \in Nat /\ DOMAIN old = 1..Len(old) /\ DOMAIN t = 1..Len(old) /\ n <= Len(old)
      BY <2>2, <2>3
    <3>2. PICK j \in DOMAIN old : t[k] = old[j]
      <4>1. CASE k \in i..(n - 1)
        <5>1. k + 1 \in DOMAIN old
          BY <3>1, <4>1
        <5> QED
          BY <2>2, <2>3, <3>1, <4>1, <5>1
      <4>2. CASE k \notin i..(n - 1)
        BY <2>2, <2>3, <3>1, <4>2
      <4> QED
        BY <4>1, <4>2
    <3> QED
      BY <2>3, <2>4, <2>10, <3>2, OnItsSide
  <2>11. heap' = [heap EXCEPT ![h.at] = t]
    BY <2>2
  <2> QED
    BY <2>3, <2>6, <2>7, <2>8, <2>9, <2>10, <2>11, ApartWritten
<1> QED
  BY <1>1, <1>2

LEMMA StoreShiftedKeepsTypes ==
    ASSUME TypeInv, StoreShifted
    PROVE  TypeInv'
<1> USE DEF TypeInv
<1>1. /\ overlapped' \in BOOLEAN /\ crashed' = FALSE /\ cancel.pc = "shifted"
      /\ heap' = heap /\ remaining' = remaining /\ match' = match /\ arrived' = arrived
      /\ pending' = pending /\ filled' = filled
  BY DEF StoreShifted, StepBeside, Alive
<1>2. PICK side \in Side, h \in Header : side = cancel.side /\ h = cancel.next
  BY HeaderFacts
<1>3. PICK w \in Words :
        /\ header' = [header EXCEPT ![side][w] = h[w]]
        /\ \/ cancel' = Idle /\ gone' = gone \cup {cancel.object}
           \/ cancel' = [cancel EXCEPT !.words = @ \ {w}] /\ gone' = gone
  BY <1>2 DEF StoreShifted, Stored, RaceTypes, TypeOK, GoroutineState
<1>4. /\ header' \in [Side -> Header] /\ header'[side].at \in {header[side].at, h.at}
      /\ \A r \in Side \ {side} : header'[r] = header[r]
  <2>1. OneWordStored(header', side, h, w)
    BY <1>3, StoredFacts
  <2> QED
    BY <2>1 DEF OneWordStored
<1>5. /\ cancel' \in GoroutineState /\ cancel'.index >= 1
      /\ \/ cancel'.pc = "idle"
         \/ /\ cancel'.pc = "shifted" /\ cancel'.side = cancel.side
            /\ cancel'.object = cancel.object /\ cancel'.next = cancel.next
  <2>1. cancel \in GoroutineState /\ cancel.index >= 1
    BY DEF RaceTypes, TypeOK, CallsAreSound
  <2>2. CASE cancel' = Idle
    BY <2>2, IdleFacts
  <2>3. CASE cancel' = [cancel EXCEPT !.words = @ \ {w}]
    BY <1>1, <2>1, <2>3 DEF GoroutineState
  <2> QED
    BY <1>3, <2>2, <2>3
<1>6. cancel.object \in ToCancel /\ gone' \subseteq ToCancel
  BY <1>1, <1>3 DEF RaceTypes, TypeOK, CallsAreSound
<1>7. RaceTypes'
  BY <1>1, <1>4, <1>5, <1>6 DEF RaceTypes, TypeOK
<1>8. CallsAreSound'
  BY <1>1, <1>5, <1>6 DEF CallsAreSound
<1>9. \A r \in Side, b \in Address : Uses(r, b)' => Uses(r, b)
  BY <1>1, <1>2, <1>4, <1>5 DEF Uses, MakerSide
<1> QED
  BY <1>1, <1>7, <1>8, <1>9, ApartKept

LEMMA RestFacts ==
    /\ \A side \in Side : AtRest[side] \in Seq(Entry)
    /\ \A e \in Entry : Object[e].side \in Side /\ Object[e].size \in Nat \ {0}
<1>1. \A side \in Side : AtRest[side] \in Seq(Entry)
  BY RaceAssumption
<1>2. \A e \in Entry : Object[e].side \in Side /\ Object[e].size \in Int
  BY RaceAssumption, DataAssumption DEF OrderRecord
<1>3. \A e \in Entry : Object[e].size > 0
  BY ObjectsAssumption
<1> QED
  BY <1>1, <1>2, <1>3

LEMMA InitFacts ==
    ASSUME Init
    PROVE  /\ heap \in [Address -> Seq(Slot)] /\ header \in [Side -> Header]
           /\ \A side \in Side : /\ header[side].len = Len(AtRest[side])
                                 /\ heap[header[side].at] = AtRest[side]
                                 /\ \A r \in Side : header[r].at = header[side].at => r = side
           /\ match = Idle /\ cancel = Idle
<1>1. 1 \in Address /\ 2 \in Address
  BY RaceAssumption
<1>2. AtRest["buy"] \in Seq(Slot) /\ AtRest["sell"] \in Seq(Slot) /\ <<>> \in Seq(Slot)
  BY RestFacts, SeqMonotonic, Entry \subseteq Slot DEF Slot, Side
<1>3. heap \in [Address -> Seq(Slot)]
  BY <1>2 DEF Init
<1>4. heap[1] = AtRest["buy"] /\ heap[2] = AtRest["sell"]
  BY <1>1 DEF Init
<1>5. /\ header["buy"] = [at |-> 1, len |-> Len(AtRest["buy"])]
      /\ header["sell"] = [at |-> 2, len |-> Len(AtRest["sell"])]
      /\ DOMAIN header = Side /\ header = [side \in Side |-> header[side]]
  BY DEF Init, Side
<1>6. Len(AtRest["buy"]) \in Nat /\ Len(AtRest["sell"]) \in Nat
  BY <1>2
<1>7. header["buy"] \in Header /\ header["sell"] \in Header
  BY <1>1, <1>5, <1>6 DEF Header
<1>8. header \in [Side -> Header]
  BY <1>5, <1>7 DEF Side
<1> QED
  BY <1>3, <1>4, <1>5, <1>8 DEF Init, Side

LEMMA InitTypes == Init => TypeInv
<1> SUFFICES ASSUME Init PROVE TypeInv
  OBVIOUS
<1>1. RaceTypes
  <2>1. remaining \in [Entry -> Nat] /\ filled \in [Entry -> Nat]
    BY RestFacts DEF Init
  <2>2. arrived \in 0..Len(Arrivals)
    <3>1. Len(Arrivals) \in Nat
      BY RaceAssumption
    <3> QED
      BY <3>1 DEF Init
  <2>3. match \in GoroutineState /\ cancel \in GoroutineState
    BY IdleFacts DEF Init
  <2> QED
    BY <2>1, <2>2, <2>3, NatIsInt, InitFacts DEF Init, RaceTypes, TypeOK, Slot
<1>2. CallsAreSound
  BY InitFacts, IdleFacts DEF CallsAreSound
<1>3. \A side \in Side, a \in Address : Uses(side, a) <=> a = header[side].at
  BY InitFacts, IdleFacts DEF Uses
<1>4. \A a \in Address : ~ (Uses("buy", a) /\ Uses("sell", a))
  BY <1>3, InitFacts DEF Side
<1>5. ASSUME NEW side \in Side, NEW a \in Address, Uses(side, a), NEW k \in DOMAIN heap[a]
      PROVE  Object[heap[a][k]].side = side
  <2>1. heap[a] = AtRest[side]
    BY <1>3, <1>5, InitFacts
  <2>2. heap[a][k] \in ToSet(AtRest[side])
    BY <1>5, <2>1 DEF ToSet
  <2> QED
    BY <2>2, ObjectsAssumption
<1> QED
  BY <1>1, <1>2, <1>4, <1>5 DEF TypeInv, SidesAreApart

LEMMA StepTypes == TypeInv /\ [Next]_vars => TypeInv'
<1> SUFFICES ASSUME TypeInv, [Next]_vars PROVE TypeInv'
  OBVIOUS
<1>1. CASE UNCHANGED vars
  <2>1. RaceTypes' /\ CallsAreSound'
    BY <1>1 DEF vars, TypeInv, RaceTypes, TypeOK, CallsAreSound
  <2>2. \A r \in Side, b \in Address : Uses(r, b)' => Uses(r, b)
    BY <1>1 DEF vars, Uses, MakerSide
  <2> QED
    BY <1>1, <2>1, <2>2, ApartKept DEF vars, TypeInv
<1> QED
  BY <1>1, BeginMatchKeepsTypes, IterateKeepsTypes, PruneKeepsTypes, StorePrunedKeepsTypes,
     AppendRestKeepsTypes, StoreAppendedKeepsTypes, ScanKeepsTypes, ShiftKeepsTypes,
     StoreShiftedKeepsTypes DEF Next

LEMMA TypeInvariance == Spec => []TypeInv
  BY InitTypes, StepTypes, PTL DEF Spec

\* However the two goroutines interleave, headers, arrays and locals stay what
\* their types say, and only orders whose cancellation was asked for are
\* reported cancelled (book.go:64-176).
THEOREM TypeCorrect == Spec => []TypeOK
<1>1. TypeInv => TypeOK
  BY DEF TypeInv, RaceTypes
<1> QED
  BY <1>1, TypeInvariance, PTL

LEMMA IterateKeepsFills ==
    ASSUME TypeInv, FillsFit, Iterate
    PROVE  FillsFit'
<1> USE DEF TypeInv
<1>1. CASE Panic
  BY <1>1 DEF Panic, FillsFit
<1>2. CASE ~ Panic
  <2>1. PICK m, t : m = Element(match.walked, match.index) /\ t = match.object
    OBVIOUS
  <2>2. match.pc = "loop" /\ match.index <= match.walked.len /\ m # NoEntry
    BY <1>2, <2>1 DEF Iterate, LoopGoesOn
  <2>3. m \in Entry /\ t \in Entry /\ m # t
    BY <2>1, <2>2, MakerFacts
  <2>4. PICK size \in Nat : size = Smaller(remaining[t], remaining[m])
    <3>1. remaining[t] \in Nat /\ remaining[m] \in Nat
      BY <2>3 DEF RaceTypes, TypeOK
    <3> QED
      BY <3>1 DEF Smaller
  <2>5. /\ remaining' = [remaining EXCEPT ![t] = @ - size, ![m] = @ - size]
        /\ filled' = [filled EXCEPT ![t] = @ + size, ![m] = @ + size]
    BY <1>2, <2>1, <2>2, <2>4 DEF Iterate, Alive
  <2>6. ASSUME NEW e \in Entry
        PROVE  filled'[e] + remaining'[e] = filled[e] + remaining[e]
    <3>1. filled[e] \in Nat /\ remaining[e] \in Nat
      BY DEF RaceTypes, TypeOK
    <3>2. CASE e \in {t, m}
      <4>1. filled'[e] = filled[e] + size /\ remaining'[e] = remaining[e] - size
        BY <2>3, <2>5, <3>2 DEF RaceTypes, TypeOK
      <4> QED
        BY <2>4, <3>1, <4>1
    <3>3. CASE e \notin {t, m}
      BY <2>3, <2>5, <3>3 DEF RaceTypes, TypeOK
    <3> QED
      BY <3>2, <3>3
  <2> QED
    BY <2>6 DEF FillsFit
<1> QED
  BY <1>1, <1>2

LEMMA StepFills == TypeInv /\ FillsFit /\ [Next]_vars => FillsFit'
<1> SUFFICES ASSUME TypeInv, FillsFit, [Next]_vars PROVE FillsFit'
  OBVIOUS
<1>1. CASE Iterate
  BY <1>1, IterateKeepsFills
<1>2. CASE UNCHANGED <<remaining, filled>>
  BY <1>2 DEF FillsFit
<1>3. CASE BeginMatch
  BY <1>2, <1>3 DEF BeginMatch, Panic
<1>4. CASE Prune
  BY <1>2, <1>4 DEF Prune, Panic
<1>5. CASE Scan \/ ScanAgain
  BY <1>2, <1>5 DEF Scan, ScanAgain, Look, Panic
<1>6. CASE Shift
  BY <1>2, <1>6 DEF Shift, Panic
<1>7. CASE StorePruned \/ AppendRest \/ StoreAppended \/ StoreShifted
  BY <1>2, <1>7 DEF StorePruned, AppendRest, StoreAppended, StoreShifted
<1>8. CASE UNCHANGED vars
  BY <1>2, <1>8 DEF vars
<1> QED
  BY <1>1, <1>3, <1>4, <1>5, <1>6, <1>7, <1>8 DEF Next

\* Whatever the two goroutines do to the slices, no order trades more than its
\* size (book.go:84-89, 121-126).  That rests on what they cannot do: the sides
\* never come to share an array, so that no taker is its own maker.
THEOREM FillsFitTheSize == Spec => []NeverOverfilled
<1>1. Init => FillsFit
  <2> SUFFICES ASSUME Init, NEW e \in Entry
               PROVE  filled[e] + remaining[e] = Object[e].size
    BY DEF FillsFit
  <2>1. filled[e] = 0 /\ remaining[e] = Object[e].size /\ Object[e].size \in Nat
    BY RestFacts DEF Init
  <2> QED
    BY <2>1
<1>2. TypeInv /\ FillsFit => NeverOverfilled
  <2> SUFFICES ASSUME TypeInv, FillsFit, NEW e \in Entry
               PROVE  filled[e] <= Object[e].size
    BY DEF NeverOverfilled
  <2>1. filled[e] \in Nat /\ remaining[e] \in Nat
    BY DEF TypeInv, RaceTypes, TypeOK
  <2>2. filled[e] + remaining[e] = Object[e].size
    BY DEF FillsFit
  <2> QED
    BY <2>1, <2>2
<1> QED
  BY <1>1, <1>2, StepFills, TypeInvariance, PTL DEF Spec

-----------------------------------------------------------------------------
(* Calls that do not overlap: one finds the book as the other left it.      *)

LEMMA MatchAlone ==
    ASSUME TypeInv, WholeWithoutOverlap, StepBeside(cancel), ~ overlapped'
    PROVE  BookIsWhole /\ cancel.pc = "idle"
  BY DEF WholeWithoutOverlap, StepBeside

LEMMA CancelAlone ==
    ASSUME TypeInv, WholeWithoutOverlap, StepBeside(match), ~ overlapped'
    PROVE  BookIsWhole /\ match.pc = "idle"
  BY DEF WholeWithoutOverlap, StepBeside

LEMMA SliceFacts ==
    ASSUME TypeInv, NEW side \in Side
    PROVE  /\ Slice(side) \in Header /\ Slice(side).at \in Address
           /\ Uses(side, Slice(side).at)
           /\ Intact(Slice(side)) =>
                \A e \in ToSet(Elements(Slice(side))) : e \in Entry /\ Object[e].side = side
<1> USE DEF TypeInv
<1>1. PICK h \in Header : h = Slice(side)
  BY HeaderFacts DEF Slice
<1>2. h.at \in Address /\ Uses(side, h.at)
  BY <1>1, HeaderFacts DEF Slice, Uses
<1>3. ASSUME Intact(h), NEW e \in ToSet(Elements(h))
      PROVE  e \in Entry /\ Object[e].side = side
  <2>1. /\ h.len <= Len(heap[h.at]) /\ Elements(h) \in Seq(Entry) /\ Len(Elements(h)) = h.len
        /\ \A k \in 1..h.len : Elements(h)[k] = heap[h.at][k] /\ heap[h.at][k] \in Entry
    BY <1>3, IntactFacts
  <2>2. PICK k \in 1..h.len : e = heap[h.at][k]
    BY <1>3, <2>1 DEF ToSet
  <2>3. e \in Entry /\ e # NoEntry
    BY <2>1, <2>2, RaceAssumption
  <2>4. k \in DOMAIN heap[h.at]
    BY <2>1, <2>2, HeaderFacts
  <2> QED
    BY <1>2, <2>2, <2>3, <2>4, OnItsSide
<1> QED
  BY <1>1, <1>2, <1>3

EnteredSoFar ==
    /\ Entered = ToSet(AtRest["buy"]) \cup ToSet(AtRest["sell"])
                    \cup {Arrivals[i] : i \in 1..arrived}
    /\ Entered \subseteq Entry

LEMMA EnteredFacts == RaceTypes => EnteredSoFar
<1> SUFFICES ASSUME RaceTypes PROVE EnteredSoFar
  OBVIOUS
<1>1. /\ arrived \in Nat /\ Len(Arrivals) \in Nat /\ arrived <= Len(Arrivals)
      /\ Arrivals \in Seq(Entry)
  BY ArrivalFacts
<1> DEFINE t == SubSeq(Arrivals, 1, arrived)
<1>2. t \in Seq(Entry) /\ DOMAIN t = 1..arrived /\ \A i \in 1..arrived : t[i] = Arrivals[i]
  BY <1>1, SubSeqProperties
<1> HIDE DEF t
<1>3. ToSet(t) = {Arrivals[i] : i \in 1..arrived} /\ ToSet(t) \subseteq Entry
  <2>1. ToSet(t) \subseteq Entry
    BY <1>2, SeqFacts
  <2>2. ToSet(t) = {t[i] : i \in 1..arrived}
    BY <1>2 DEF ToSet
  <2> QED
    BY <1>2, <2>1, <2>2
<1>4. ToSet(AtRest["buy"]) \subseteq Entry /\ ToSet(AtRest["sell"]) \subseteq Entry
  BY RestFacts, SeqFacts DEF Side
<1> QED
  BY <1>3, <1>4 DEF EnteredSoFar, Entered, t

\* The next arrival has not been on the book.
LEMMA ArrivalIsNew ==
    ASSUME RaceTypes, arrived < Len(Arrivals), arrived' = arrived + 1, RaceTypes'
    PROVE  /\ Arrivals[arrived + 1] \notin Entered
           /\ Entered' = Entered \cup {Arrivals[arrived + 1]}
<1>1. /\ arrived \in Nat /\ Len(Arrivals) \in Nat /\ Arrivals \in Seq(Entry)
      /\ DOMAIN Arrivals = 1..Len(Arrivals)
  BY ArrivalFacts, SeqFacts
<1>2. PICK n \in 1..Len(Arrivals) : n = arrived + 1
  BY <1>1
<1>3. 1..n = (1..arrived) \cup {n} /\ n \notin 1..arrived /\ 1..n \subseteq 1..Len(Arrivals)
  BY <1>1, <1>2
<1>4. Arrivals[n] \notin {Arrivals[i] : i \in 1..arrived}
  BY <1>1, <1>3, ObjectsAssumption DEF IsInjective
<1>5. Arrivals[n] \notin ToSet(AtRest["buy"]) /\ Arrivals[n] \notin ToSet(AtRest["sell"])
  <2>1. Arrivals[n] \in ToSet(Arrivals)
    BY <1>1 DEF ToSet
  <2> QED
    BY <2>1, ObjectsAssumption DEF Side
<1>6. Entered' = ToSet(AtRest["buy"]) \cup ToSet(AtRest["sell"]) \cup {Arrivals[i] : i \in 1..n}
  <2>1. EnteredSoFar'
    BY EnteredFacts, PTL
  <2> QED
    BY <1>2, <2>1 DEF EnteredSoFar
<1>7. Entered = ToSet(AtRest["buy"]) \cup ToSet(AtRest["sell"])
                    \cup {Arrivals[i] : i \in 1..arrived}
  BY EnteredFacts DEF EnteredSoFar
<1>8. {Arrivals[i] : i \in 1..n} = {Arrivals[i] : i \in 1..arrived} \cup {Arrivals[n]}
  BY <1>3
<1> QED
  BY <1>2, <1>4, <1>5, <1>6, <1>7, <1>8

\* The orders in hand, by where the calls stand.
LEMMA HandFacts ==
    CallsAreSound =>
        InHand = (IF match.pc \in {"loop", "pruned", "add"} THEN {match.object} ELSE {})
                    \cup (IF cancel.pc = "shifted" THEN {cancel.object} ELSE {})
  BY RaceAssumption DEF CallsAreSound, InHand

\* A header whose array has not changed gives access to the same elements.
LEMMA SameElements ==
    ASSUME NEW h \in Header, heap'[h.at] = heap[h.at]
    PROVE  Elements(h)' = Elements(h) /\ (Intact(h) => Intact(h)')
  BY DEF Elements, Intact, Element

LEMMA SliceIsWholeIf ==
    ASSUME NEW side \in Side, NEW h \in Header, Slice(side)' = h, Intact(h)',
           NEW s, Elements(h)' = s, IsWhole(side, s)'
    PROVE  SliceIsWhole(side)'
  BY DEF SliceIsWhole, Intact, Elements, Element

\* The slice of a side whose array and field a step leaves alone.
LEMMA SliceUntouched ==
    ASSUME TypeInv, NEW side \in Side, SliceIsWhole(side),
           Slice(side)' = Slice(side), heap'[Slice(side).at] = heap[Slice(side).at],
           remaining' = remaining,
           \A e \in ToRest : e \in ToRest' \/ Object[e].side # side,
           \A e \in ToRest' : e \in ToRest \/ Object[e].side # side \/ ~ (remaining[e] > 0),
           match.pc = "loop" /\ side = MakerSide => match'.pc = "loop" /\ side = MakerSide'
    PROVE  SliceIsWhole(side)'
<1>1. PICK h \in Header : h = Slice(side)
  BY SliceFacts
<1>5. PICK s : s = Elements(h)
  OBVIOUS
<1>2. Intact(h) /\ IsWhole(side, s)
  BY <1>1, <1>5 DEF SliceIsWhole
<1>3. Elements(h)' = s /\ Intact(h)'
  BY <1>1, <1>5, <1>2, SameElements
<1>6. \A e \in ToSet(s) : Object[e].side = side
  BY <1>1, <1>2, <1>5, SliceFacts
<1>4. IsWhole(side, s)'
  <2>1. ToSet(s) \subseteq ToRest'
    BY <1>2, <1>6 DEF IsWhole
  <2>2. \A e \in ToRest' : Object[e].side = side /\ remaining[e] > 0 => e \in ToSet(s)
    BY <1>2 DEF IsWhole
  <2>3. IsInjective(s)
    BY <1>2 DEF IsWhole
  <2>4. (match'.pc = "loop" /\ side = MakerSide') \/ \A e \in ToSet(s) : remaining[e] > 0
    BY <1>2 DEF IsWhole
  <2> QED
    BY <2>1, <2>2, <2>3, <2>4 DEF IsWhole
<1> QED
  BY <1>1, <1>3, <1>4, SliceIsWholeIf

LEMMA StaysWhole ==
    ASSUME crashed' = FALSE, match'.pc = "idle" \/ cancel'.pc = "idle",
           \A side \in Side : SliceIsWhole(side)', StoresAreSound', LocalsAreSound'
    PROVE  WholeWithoutOverlap'
  BY DEF WholeWithoutOverlap, BookIsWhole

LEMMA BeginMatchKeepsWhole ==
    ASSUME TypeInv, TypeInv', WholeWithoutOverlap, BeginMatch
    PROVE  WholeWithoutOverlap'
<1> USE DEF TypeInv
<1> SUFFICES ASSUME ~ overlapped' PROVE WholeWithoutOverlap'
  BY DEF WholeWithoutOverlap
<1>1. BookIsWhole /\ cancel.pc = "idle" /\ match.pc = "idle"
  BY MatchAlone DEF BeginMatch
<1>2. \A r \in Side : Slice(r) = header[r] /\ SliceIsWhole(r)
  BY <1>1 DEF Slice, BookIsWhole
<1>3. ~ Panic
  <2>1. PICK side \in Side : side = Opposite(Object[Arrivals[arrived + 1]].side)
    <3>1. arrived + 1 \in DOMAIN Arrivals
      <4>1. arrived < Len(Arrivals)
        BY DEF BeginMatch
      <4>2. arrived + 1 \in 1..Len(Arrivals)
        BY <4>1, ArrivalFacts
      <4> QED
        BY <4>2, ArrivalFacts, SeqFacts
    <3>2. Object[Arrivals[arrived + 1]].side \in Side
      BY <3>1, ArrivalFacts, SeqFacts, RestFacts
    <3> QED
      BY <3>2, SideFacts
  <2>2. Intact(header[side])
    BY <1>2, <2>1 DEF SliceIsWhole
  <2> QED
    BY <2>1, <2>2 DEF BeginMatch, Alive, Panic
<1>4. PICK in \in Entry, side \in Side, h \in Header, s \in Seq(Entry), t \in Seq(Slot) :
          Begins(in, side, h, s, t)
  BY <1>3, BeginMatchFacts
<1>5. /\ arrived' = arrived + 1 /\ header' = header /\ remaining' = remaining
      /\ cancel' = cancel /\ pending' = pending /\ gone' = gone /\ crashed' = FALSE
  BY <1>3, BeginMatchFacts
<1>6. /\ arrived < Len(Arrivals) /\ in = Arrivals[arrived + 1]
      /\ h = header[side] /\ Intact(h) /\ heap' = [heap EXCEPT ![h.at] = t]
      /\ s \in SortedArrangements(side, Elements(h))
      /\ Len(s) = h.len /\ h.len <= Len(t)
      /\ \A k \in 1..h.len : t[k] = s[k]
  <2>1. /\ arrived < Len(Arrivals) /\ in = Arrivals[arrived + 1]
        /\ h = header[side] /\ Intact(h) /\ heap' = [heap EXCEPT ![h.at] = t]
        /\ s \in SortedArrangements(side, Elements(h))
        /\ Len(s) = h.len /\ Len(t) = Len(heap[h.at])
    BY <1>4 DEF Begins
  <2>2. PICK n \in Nat : n = h.len /\ n <= Len(t)
    BY <2>1, IntactFacts, HeaderFacts
  <2>3. \A k \in 1..Len(t) : k <= n => t[k] = s[k]
    BY <1>4, <2>2 DEF Begins
  <2>4. Len(t) \in Nat
    OBVIOUS
  <2>5. \A k \in 1..n : t[k] = s[k]
    BY <2>2, <2>3, <2>4
  <2> QED
    BY <2>1, <2>2, <2>5
<1>7. /\ match'.pc = "loop" /\ match'.object = in /\ match'.walked = h
      /\ MakerSide' = side
  BY <1>4, IdleFacts DEF Begins, Idle, MakerSide
<1>8. in \notin Entered /\ Entered' = Entered \cup {in}
  BY <1>5, <1>6, ArrivalIsNew
<1>9. InHand = {} /\ InHand' = {in} /\ gone \subseteq Entered
  <2>1. InHand = {}
    BY <1>1, HandFacts
  <2>2. InHand' = {in}
    BY <1>1, <1>5, <1>7 DEF InHand
  <2> QED
    BY <1>1, <2>1, <2>2 DEF BookIsWhole, LocalsAreSound
<1>10. ToRest' = ToRest
  BY <1>5, <1>8, <1>9 DEF ToRest
<1>11. SliceIsWhole(side)'
  <2>1. IsWhole(side, Elements(h))
    BY <1>2, <1>6 DEF SliceIsWhole
  <2>2. Elements(h) \in Seq(Entry)
    BY <1>6, IntactFacts
  <2>3. ToSet(s) = ToSet(Elements(h)) /\ IsInjective(s)
    BY <1>6, <2>1, <2>2, ArrangementFacts DEF IsWhole
  <2>4. IsWhole(side, s)'
    BY <1>5, <1>7, <1>10, <2>1, <2>3 DEF IsWhole
  <2>5. Elements(h)' = s /\ Intact(h)'
    <3>1. heap'[h.at] = t
      BY <1>6, HeaderFacts DEF RaceTypes, TypeOK
    <3>2. ASSUME NEW k \in 1..h.len
          PROVE  Element(h, k)' = s[k] /\ s[k] # NoEntry
      <4>1. k \in DOMAIN s /\ k <= Len(t)
        BY <1>6, HeaderFacts, SeqFacts
      <4>2. Element(h, k)' = t[k]
        BY <3>1, <4>1 DEF Element
      <4>3. t[k] = s[k] /\ s[k] \in Entry
        BY <1>6, <4>1
      <4> QED
        BY <4>2, <4>3, RaceAssumption
    <3>3. s = [k \in 1..h.len |-> s[k]]
      BY <1>6, SeqFacts
    <3> QED
      BY <3>2, <3>3 DEF Elements, Intact
  <2>6. Slice(side)' = h
    BY <1>1, <1>5, <1>6, <1>7 DEF Slice
  <2> QED
    BY <2>4, <2>5, <2>6, SliceIsWholeIf
<1>12. ASSUME NEW r \in Side, r # side
       PROVE  SliceIsWhole(r)'
  <2>1. Slice(r)' = Slice(r)
    BY <1>1, <1>2, <1>5, <1>7 DEF Slice
  <2>2. Slice(r).at # h.at
    <3>1. Uses(r, Slice(r).at) /\ Slice(r).at \in Address
      BY SliceFacts
    <3>2. Uses(side, h.at)
      BY <1>6 DEF Uses
    <3> QED
      BY <1>12, <3>1, <3>2, OneSide
  <2>3. heap'[Slice(r).at] = heap[Slice(r).at]
    BY <1>6, <2>2, SliceFacts DEF RaceTypes, TypeOK
  <2> QED
    BY <1>1, <1>2, <1>5, <1>10, <2>1, <2>3, SliceUntouched
<1>13. StoresAreSound' /\ LocalsAreSound'
  <2>1. StoresAreSound'
    BY <1>1, <1>5, <1>7 DEF StoresAreSound
  <2>2. in \in Entered' \ gone' /\ gone' \subseteq Entered' /\ match'.walked = header'[MakerSide']
    BY <1>5, <1>6, <1>7, <1>8, <1>9
  <2> QED
    BY <1>1, <1>5, <1>7, <2>1, <2>2 DEF LocalsAreSound
<1> QED
  BY <1>1, <1>5, <1>11, <1>12, <1>13, StaysWhole

LEMMA IterateKeepsWhole ==
    ASSUME TypeInv, TypeInv', WholeWithoutOverlap, Iterate
    PROVE  WholeWithoutOverlap'
<1> USE DEF TypeInv
<1> SUFFICES ASSUME ~ overlapped' PROVE WholeWithoutOverlap'
  BY DEF WholeWithoutOverlap
<1>1. BookIsWhole /\ cancel.pc = "idle" /\ match.pc = "loop"
  BY MatchAlone DEF Iterate
<1>2. \A r \in Side : Slice(r) = header[r] /\ SliceIsWhole(r)
  BY <1>1 DEF Slice, BookIsWhole
<1>3. PICK m, t : m = Element(match.walked, match.index) /\ t = match.object
  OBVIOUS
<1>4. m # NoEntry /\ match.index <= match.walked.len
  <2>1. match.index <= match.walked.len /\ match.index \in 1..match.walked.len
    <3>1. match.index <= match.walked.len
      BY DEF Iterate, LoopGoesOn
    <3>2. match.index \in Nat /\ match.index >= 1 /\ match.walked.len \in Nat
      BY HeaderFacts DEF RaceTypes, TypeOK, GoroutineState, CallsAreSound
    <3> QED
      BY <3>1, <3>2
  <2>2. match.walked = header[MakerSide]
    BY <1>1 DEF BookIsWhole, LocalsAreSound
  <2>3. Intact(match.walked)
    BY <1>2, <2>2, HeaderFacts DEF SliceIsWhole
  <2> QED
    BY <1>3, <2>1, <2>3 DEF Intact
<1>5. m \in Entry /\ Object[m].side = MakerSide /\ t \in Entry /\ m # t
  BY <1>1, <1>3, <1>4, MakerFacts
<1>6. PICK size \in Nat : size = Smaller(remaining[t], remaining[m])
  <2>1. remaining[t] \in Nat /\ remaining[m] \in Nat
    BY <1>5 DEF RaceTypes, TypeOK
  <2> QED
    BY <2>1 DEF Smaller
<1>7. /\ remaining' = [remaining EXCEPT ![t] = @ - size, ![m] = @ - size]
      /\ match' = [match EXCEPT !.index = @ + 1]
      /\ heap' = heap /\ header' = header /\ cancel' = cancel /\ arrived' = arrived
      /\ pending' = pending /\ gone' = gone /\ crashed' = FALSE
  BY <1>3, <1>4, <1>6 DEF Iterate, Alive
<1>8. /\ match'.pc = match.pc /\ match'.object = match.object /\ match'.side = match.side
      /\ match'.walked = match.walked /\ MakerSide' = MakerSide
  BY <1>7 DEF RaceTypes, TypeOK, GoroutineState, MakerSide
<1>9. InHand = {t} /\ ToRest' = ToRest
  <2>1. Entered' = Entered
    BY <1>7 DEF Entered
  <2>2. InHand' = InHand
    BY <1>7, <1>8 DEF InHand
  <2> QED
    BY <1>1, <1>3, <1>7, <2>1, <2>2, HandFacts DEF ToRest
<1>10. \A e \in Entry : remaining'[e] > 0 => remaining[e] > 0
  <2> SUFFICES ASSUME NEW e \in Entry, remaining'[e] > 0 PROVE remaining[e] > 0
    OBVIOUS
  <2>1. remaining[e] \in Nat
    BY DEF RaceTypes, TypeOK
  <2>2. remaining'[e] = remaining[e] \/ remaining'[e] = remaining[e] - size
    BY <1>5, <1>7 DEF RaceTypes, TypeOK
  <2> QED
    BY <1>6, <2>1, <2>2
<1>11. ASSUME NEW r \in Side
       PROVE  SliceIsWhole(r)'
  <2>1. PICK h \in Header : h = header[r]
    BY HeaderFacts
  <2>2. PICK s : s = Elements(h)
    OBVIOUS
  <2>3. IsWhole(r, s) /\ Intact(h)
    BY <1>2, <2>1, <2>2 DEF SliceIsWhole
  <2>4. \A e \in ToSet(s) : e \in Entry /\ Object[e].side = r
    BY <1>2, <2>1, <2>2, <2>3, SliceFacts
  <2>5. ToSet(s) \subseteq ToRest' /\ IsInjective(s)
    BY <1>9, <2>3 DEF IsWhole
  <2>6. \A e \in ToRest' : Object[e].side = r /\ remaining'[e] > 0 => e \in ToSet(s)
    <3>1. ToRest \subseteq Entry
      BY EnteredFacts DEF EnteredSoFar, ToRest
    <3> QED
      BY <1>9, <1>10, <2>3, <3>1 DEF IsWhole
  <2>7. (match'.pc = "loop" /\ r = MakerSide') \/ \A e \in ToSet(s) : remaining'[e] > 0
    <3>1. CASE r = MakerSide
      BY <1>1, <1>8, <3>1
    <3>2. CASE r # MakerSide
      <4>1. \A e \in ToSet(s) : remaining[e] > 0
        BY <2>3, <3>2 DEF IsWhole
      <4>2. \A e \in ToSet(s) : e # t /\ e # m
        BY <1>5, <1>9, <2>3, <2>4, <3>2 DEF IsWhole, ToRest
      <4>3. \A e \in ToSet(s) : remaining'[e] = remaining[e]
        BY <1>7, <2>4, <4>2 DEF RaceTypes, TypeOK
      <4> QED
        BY <4>1, <4>3
    <3> QED
      BY <3>1, <3>2
  <2>8. IsWhole(r, s)'
    BY <2>5, <2>6, <2>7 DEF IsWhole
  <2>9. Elements(h)' = s /\ Intact(h)'
    BY <1>7, <2>2, <2>3, SameElements
  <2>10. Slice(r)' = h
    BY <1>1, <1>7, <1>8, <2>1 DEF Slice
  <2> QED
    BY <2>8, <2>9, <2>10, SliceIsWholeIf
<1>12. StoresAreSound'
  BY <1>1, <1>7, <1>8 DEF StoresAreSound
<1>13. LocalsAreSound'
  <2>1. Entered' = Entered
    BY <1>7 DEF Entered
  <2> QED
    BY <1>1, <1>7, <1>8, <2>1 DEF BookIsWhole, LocalsAreSound
<1> QED
  BY <1>1, <1>7, <1>11, <1>12, <1>13, StaysWhole

LEMMA PruneKeepsWhole ==
    ASSUME TypeInv, TypeInv', WholeWithoutOverlap, Prune
    PROVE  WholeWithoutOverlap'
<1> USE DEF TypeInv
<1> SUFFICES ASSUME ~ overlapped' PROVE WholeWithoutOverlap'
  BY DEF WholeWithoutOverlap
<1>1. BookIsWhole /\ cancel.pc = "idle" /\ match.pc = "loop"
  BY MatchAlone DEF Prune
<1>2. \A r \in Side : Slice(r) = header[r] /\ SliceIsWhole(r)
  BY <1>1 DEF Slice, BookIsWhole
<1>3. PICK side \in Side, h \in Header, new \in Address :
          side = MakerSide /\ h = header[side] /\ new = Fresh
  BY HeaderFacts, FreshFacts
<1>4. Intact(h) /\ IsWhole(side, Elements(h))
  BY <1>2, <1>3 DEF SliceIsWhole
<1>5. PICK kept \in Pruned(Elements(h)) :
          /\ heap' = [heap EXCEPT ![new] = Padded(kept, h.len)]
          /\ match' = [match EXCEPT !.pc = "pruned", !.words = Words,
                              !.next = [at |-> new, len |-> Len(kept)],
                              !.walked = [at |-> new, len |-> 0]]
  BY <1>3, <1>4 DEF Prune
<1>6. /\ header' = header /\ remaining' = remaining /\ cancel' = cancel
      /\ arrived' = arrived /\ pending' = pending /\ gone' = gone /\ crashed' = FALSE
  BY <1>3, <1>4 DEF Prune, Alive
<1>7. PICK next \in Header : next = [at |-> new, len |-> Len(kept)]
                             /\ next.at = new /\ next.len = Len(kept)
  <2>1. Len(kept) \in Nat
    BY <1>4, IntactFacts, PrunedFacts
  <2>2. PICK n \in Nat : n = Len(kept)
    BY <2>1
  <2>3. [at |-> new, len |-> n] \in Header
    BY DEF Header
  <2>4. [at |-> new, len |-> n].at = new /\ [at |-> new, len |-> n].len = n
    OBVIOUS
  <2> QED
    BY <2>2, <2>3, <2>4, Zenon
<1>8. /\ match'.pc = "pruned" /\ match'.object = match.object /\ match'.side = match.side
      /\ match'.words = Words /\ match'.next = next /\ MakerSide' = MakerSide
  BY <1>5, <1>7 DEF RaceTypes, TypeOK, GoroutineState, MakerSide
<1>9. Entered' = Entered /\ ToRest' = ToRest
  <2>1. Entered' = Entered
    BY <1>6 DEF Entered
  <2>2. InHand' = InHand
    BY <1>1, <1>6, <1>8 DEF InHand
  <2> QED
    BY <1>6, <2>1, <2>2 DEF ToRest
<1>10. SliceIsWhole(side)'
  <2>1. PICK e \in Seq(Entry), n \in Nat : e = Elements(h) /\ n = h.len
    BY <1>4, IntactFacts, HeaderFacts
  <2>2. /\ kept \in Seq(Entry) /\ ToSet(kept) = {x \in ToSet(e) : remaining[x] > 0}
        /\ IsInjective(e) => IsInjective(kept)
    BY <1>5, <2>1, PrunedFacts
  <2>3. IsWhole(side, kept)'
    BY <1>4, <1>6, <1>9, <2>1, <2>2 DEF IsWhole
  <2>4. kept \in Seq(Slot)
    BY <2>2, SeqMonotonic, Entry \subseteq Slot DEF Slot
  <2>5. PICK t \in Seq(Slot) :
            /\ t = Padded(kept, n) /\ Len(t) >= Len(kept)
            /\ \A k \in 1..Len(kept) : t[k] = kept[k]
    BY <2>4, PaddedFacts
  <2>6. heap'[next.at] = t
    BY <1>5, <1>7, <2>1, <2>5 DEF RaceTypes, TypeOK
  <2>7. ASSUME NEW k \in 1..next.len
        PROVE  Element(next, k)' = kept[k] /\ kept[k] # NoEntry
    <3>1. k \in 1..Len(kept) /\ k \in DOMAIN kept /\ k <= Len(t)
      BY <1>7, <2>2, <2>5
    <3> QED
      BY <2>2, <2>5, <2>6, <3>1, RaceAssumption DEF Element
  <2>8. Elements(next)' = kept /\ Intact(next)'
    <3>1. kept = [k \in 1..next.len |-> kept[k]]
      BY <1>7, <2>2
    <3> QED
      BY <2>7, <3>1 DEF Elements, Intact
  <2>9. Slice(side)' = next
    BY <1>3, <1>8 DEF Slice
  <2> QED
    BY <2>3, <2>8, <2>9, SliceIsWholeIf
<1>11. ASSUME NEW r \in Side, r # side
       PROVE  SliceIsWhole(r)'
  <2>1. Slice(r)' = Slice(r)
    BY <1>1, <1>2, <1>3, <1>6, <1>8, <1>11 DEF Slice
  <2>2. Slice(r).at # new
    BY <1>2, <1>3, FreshFacts DEF Side
  <2>3. heap'[Slice(r).at] = heap[Slice(r).at]
    BY <1>5, <2>2, SliceFacts DEF RaceTypes, TypeOK
  <2> QED
    BY <1>2, <1>3, <1>6, <1>9, <1>11, <2>1, <2>3, SliceUntouched
<1>12. StoresAreSound'
  BY <1>1, <1>6, <1>8 DEF StoresAreSound
<1>13. LocalsAreSound'
  BY <1>1, <1>6, <1>8, <1>9 DEF BookIsWhole, LocalsAreSound
<1> QED
  BY <1>1, <1>6, <1>10, <1>11, <1>12, <1>13, StaysWhole

\* The store of a header is over when its last word is there.
LEMMA LastWordStored ==
    ASSUME RaceTypes, NEW side \in Side, NEW h \in Header, NEW new, NEW w \in Words,
           OneWordStored(new, side, h, w), \A v \in Words \ {w} : header[side][v] = h[v]
    PROVE  new[side] = h
<1>1. new[side]["at"] = h["at"] /\ new[side]["len"] = h["len"]
  BY DEF OneWordStored, Words
<1>2. new[side] \in Header
  BY DEF OneWordStored
<1> QED
  BY <1>1, <1>2 DEF Header

LEMMA StorePrunedKeepsWhole ==
    ASSUME TypeInv, TypeInv', WholeWithoutOverlap, StorePruned
    PROVE  WholeWithoutOverlap'
<1> USE DEF TypeInv
<1> SUFFICES ASSUME ~ overlapped' PROVE WholeWithoutOverlap'
  BY DEF WholeWithoutOverlap
<1>1. BookIsWhole /\ cancel.pc = "idle" /\ match.pc = "pruned"
  BY MatchAlone DEF StorePruned
<1>2. /\ crashed' = FALSE /\ heap' = heap /\ remaining' = remaining /\ cancel' = cancel
      /\ arrived' = arrived /\ pending' = pending /\ gone' = gone
  BY DEF StorePruned, Alive
<1>3. PICK side \in Side, h \in Header, o \in Entry :
          side = MakerSide /\ h = match.next /\ o = match.object
  BY <1>1, HeaderFacts DEF CallsAreSound
<1>4. PICK w \in match.words :
        /\ header' = [header EXCEPT ![side][w] = h[w]]
        /\ match' = IF match.words = {w}
                    THEN IF remaining[o] > 0
                         THEN [match EXCEPT !.pc = "add", !.words = {}]
                         ELSE Idle
                    ELSE [match EXCEPT !.words = @ \ {w}]
  BY <1>3 DEF StorePruned, Stored
<1>5. w \in Words /\ match.words \subseteq Words
  BY DEF RaceTypes, TypeOK, GoroutineState
<1>6. OneWordStored(header', side, h, w)
  BY <1>4, <1>5, StoredFacts
<1>7. /\ \A v \in Words \ match.words : header[side][v] = h[v]
      /\ o \in Entered \ gone /\ gone \subseteq Entered
      /\ \A r \in Side : SliceIsWhole(r)
  BY <1>1, <1>3 DEF BookIsWhole, StoresAreSound, LocalsAreSound
<1>8. InHand = {o} /\ Entered' = Entered
  BY <1>1, <1>2, <1>3, HandFacts DEF Entered
<1>9. Slice(side) = h /\ \A r \in Side : r # side => Slice(r) = header[r]
  BY <1>1, <1>3 DEF Slice
<1>10. \A r \in Side : r # side => header'[r] = header[r]
  BY <1>6 DEF OneWordStored
<1>11. CASE match.words # {w}
  <2>1. /\ match'.pc = "pruned" /\ match'.object = o /\ match'.next = h
        /\ match'.words = match.words \ {w} /\ MakerSide' = side
    BY <1>1, <1>3, <1>4, <1>11 DEF RaceTypes, TypeOK, GoroutineState, MakerSide
  <2>2. ToRest' = ToRest
    <3>1. InHand' = {o}
      BY <1>1, <1>2, <2>1 DEF InHand
    <3> QED
      BY <1>2, <1>8, <3>1 DEF ToRest
  <2>3. \A r \in Side : Slice(r)' = Slice(r)
    BY <1>1, <1>2, <1>9, <1>10, <2>1 DEF Slice
  <2>4. \A r \in Side : SliceIsWhole(r)'
    BY <1>1, <1>2, <1>7, <2>2, <2>3, SliceUntouched
  <2>5. \A v \in Words \ match'.words : header'[side][v] = h[v]
    BY <1>5, <1>6, <1>7, <2>1 DEF OneWordStored
  <2>6. StoresAreSound'
    BY <1>1, <1>2, <2>1, <2>5 DEF StoresAreSound
  <2>7. LocalsAreSound'
    BY <1>1, <1>2, <1>7, <1>8, <2>1 DEF LocalsAreSound
  <2> QED
    BY <1>1, <1>2, <2>4, <2>6, <2>7, StaysWhole
<1>12. CASE match.words = {w}
  <2>1. header'[side] = h
    BY <1>5, <1>6, <1>7, <1>12, LastWordStored
  <2>2. /\ \/ match'.pc = "add" /\ match'.object = o /\ remaining[o] > 0
           \/ match'.pc = "idle" /\ ~ (remaining[o] > 0)
    BY <1>3, <1>4, <1>12, IdleFacts DEF RaceTypes, TypeOK, GoroutineState
  <2>3. \A r \in Side : Slice(r)' = Slice(r)
    BY <1>1, <1>2, <1>9, <1>10, <2>1, <2>2 DEF Slice
  <2>4. ToRest \subseteq ToRest' /\ \A e \in ToRest' : e \in ToRest \/ ~ (remaining[e] > 0)
    <3>1. CASE match'.pc = "add"
      <4>1. InHand' = {o}
        BY <1>1, <1>2, <2>2, <3>1 DEF InHand
      <4> QED
        BY <1>2, <1>8, <4>1 DEF ToRest
    <3>2. CASE match'.pc = "idle"
      <4>1. InHand' = {}
        BY <1>1, <1>2, <3>2 DEF InHand
      <4>2. ToRest' = Entered \ gone /\ ToRest = Entered \ (gone \cup {o})
        BY <1>2, <1>8, <4>1 DEF ToRest
      <4> QED
        BY <2>2, <3>2, <4>2
    <3> QED
      BY <2>2, <3>1, <3>2
  <2>5. \A r \in Side : SliceIsWhole(r)'
    BY <1>1, <1>2, <1>7, <2>3, <2>4, SliceUntouched
  <2>6. StoresAreSound'
    BY <1>1, <1>2, <2>2 DEF StoresAreSound
  <2>7. LocalsAreSound'
    BY <1>1, <1>2, <1>7, <1>8, <2>2 DEF LocalsAreSound
  <2> QED
    BY <1>1, <1>2, <2>5, <2>6, <2>7, StaysWhole
<1> QED
  BY <1>11, <1>12

LEMMA StoreAppendedKeepsWhole ==
    ASSUME TypeInv, TypeInv', WholeWithoutOverlap, StoreAppended
    PROVE  WholeWithoutOverlap'
<1> USE DEF TypeInv
<1> SUFFICES ASSUME ~ overlapped' PROVE WholeWithoutOverlap'
  BY DEF WholeWithoutOverlap
<1>1. BookIsWhole /\ cancel.pc = "idle" /\ match.pc = "added"
  BY MatchAlone DEF StoreAppended
<1>2. /\ crashed' = FALSE /\ heap' = heap /\ remaining' = remaining /\ cancel' = cancel
      /\ arrived' = arrived /\ pending' = pending /\ gone' = gone
  BY DEF StoreAppended, Alive
<1>3. PICK side \in Side, h \in Header, o \in Entry :
          side = match.side /\ h = match.next /\ o = match.object
  BY <1>1, HeaderFacts DEF CallsAreSound
<1>4. PICK w \in match.words :
        /\ header' = [header EXCEPT ![side][w] = h[w]]
        /\ match' = IF match.words = {w} THEN Idle
                    ELSE [match EXCEPT !.words = @ \ {w}]
  BY <1>3 DEF StoreAppended, Stored
<1>5. w \in Words /\ match.words \subseteq Words
  BY DEF RaceTypes, TypeOK, GoroutineState
<1>6. OneWordStored(header', side, h, w)
  BY <1>4, <1>5, StoredFacts
<1>7. /\ \A v \in Words \ match.words : header[side][v] = h[v]
      /\ o \in Entered \ gone /\ gone \subseteq Entered /\ remaining[o] > 0
      /\ \A r \in Side : SliceIsWhole(r)
  BY <1>1, <1>3 DEF BookIsWhole, StoresAreSound, LocalsAreSound
<1>8. InHand = {} /\ Entered' = Entered
  BY <1>1, <1>2, HandFacts DEF Entered
<1>9. Slice(side) = h /\ \A r \in Side : r # side => Slice(r) = header[r]
  BY <1>1, <1>3 DEF Slice
<1>10. \A r \in Side : r # side => header'[r] = header[r]
  BY <1>6 DEF OneWordStored
<1>11. \/ /\ match.words # {w} /\ match'.pc = "added" /\ match'.object = o
          /\ match'.next = h /\ match'.side = side /\ match'.words = match.words \ {w}
       \/ match.words = {w} /\ match'.pc = "idle"
  <2>1. CASE match.words = {w}
    BY <1>4, <2>1, IdleFacts
  <2>2. CASE match.words # {w}
    BY <1>1, <1>3, <1>4, <2>2 DEF RaceTypes, TypeOK, GoroutineState
  <2> QED
    BY <2>1, <2>2
<1>12. ToRest' = ToRest
  <2>1. InHand' = {}
    BY <1>1, <1>2, <1>11 DEF InHand
  <2> QED
    BY <1>2, <1>8, <2>1 DEF ToRest
<1>13. \A r \in Side : Slice(r)' = Slice(r)
  <2>1. CASE match'.pc = "added"
    BY <1>1, <1>2, <1>9, <1>10, <1>11, <2>1 DEF Slice
  <2>2. CASE match'.pc = "idle"
    <3>1. header'[side] = h
      BY <1>5, <1>6, <1>7, <1>11, <2>2, LastWordStored
    <3> QED
      BY <1>1, <1>2, <1>9, <1>10, <2>2, <3>1 DEF Slice
  <2> QED
    BY <1>11, <2>1, <2>2
<1>14. \A r \in Side : SliceIsWhole(r)'
  BY <1>1, <1>2, <1>7, <1>12, <1>13, SliceUntouched
<1>15. StoresAreSound'
  <2>1. match'.pc = "added" =>
            \A v \in Words \ match'.words : header'[match'.side][v] = match'.next[v]
    BY <1>5, <1>6, <1>7, <1>11 DEF OneWordStored
  <2> QED
    BY <1>1, <1>2, <1>11, <2>1 DEF StoresAreSound
<1>16. LocalsAreSound'
  BY <1>1, <1>2, <1>7, <1>8, <1>11 DEF LocalsAreSound
<1> QED
  BY <1>1, <1>2, <1>14, <1>15, <1>16, StaysWhole

LEMMA AppendRestKeepsWhole ==
    ASSUME TypeInv, TypeInv', WholeWithoutOverlap, AppendRest
    PROVE  WholeWithoutOverlap'
<1> USE DEF TypeInv
<1> SUFFICES ASSUME ~ overlapped' PROVE WholeWithoutOverlap'
  BY DEF WholeWithoutOverlap
<1>1. BookIsWhole /\ cancel.pc = "idle" /\ match.pc = "add"
  BY MatchAlone DEF AppendRest
<1>2. /\ crashed' = FALSE /\ header' = header /\ remaining' = remaining /\ cancel' = cancel
      /\ arrived' = arrived /\ pending' = pending /\ gone' = gone
  BY DEF AppendRest, Alive
<1>3. PICK h \in Header, at \in Address, t \in Seq(Slot), o \in Entry :
          AppendsTo(h, at, t, o)
  BY AppendRestFacts
<1>4. PICK side \in Side : side = match.side /\ Object[o].side = side
  BY <1>1, <1>3, HeaderFacts DEF AppendsTo, CallsAreSound
<1>5. /\ h = header[side] /\ o = match.object /\ at \in {h.at, Fresh}
      /\ heap' = [heap EXCEPT ![at] = t]
      /\ h.len + 1 <= Len(t) /\ t[h.len + 1] = o
      /\ \A k \in 1..h.len : t[k] = Elements(h)[k]
  BY <1>3, <1>4 DEF AppendsTo
<1>6. PICK next \in Header : next.at = at /\ next.len = h.len + 1 /\ match'.next = next
  <2>1. match'.next = [at |-> at, len |-> h.len + 1]
    BY <1>3 DEF AppendsTo, RaceTypes, TypeOK, GoroutineState
  <2>2. match'.next \in Header
    BY HeaderFacts DEF RaceTypes, TypeOK, GoroutineState
  <2> QED
    BY <2>1, <2>2
<1>7. /\ match'.pc = "added" /\ match'.object = o /\ match'.side = side
      /\ match'.words = Words
  BY <1>3, <1>4 DEF AppendsTo, RaceTypes, TypeOK, GoroutineState
<1>8. \A r \in Side : Slice(r) = header[r] /\ SliceIsWhole(r)
  BY <1>1 DEF Slice, BookIsWhole
<1>9. o \in Entered \ gone /\ remaining[o] > 0 /\ gone \subseteq Entered
  BY <1>1, <1>5 DEF BookIsWhole, LocalsAreSound
<1>10. InHand = {o} /\ Entered' = Entered
  BY <1>1, <1>2, <1>5, HandFacts DEF Entered
<1>11. ToRest' = ToRest \cup {o} /\ o \notin ToRest
  <2>1. InHand' = {}
    BY <1>1, <1>2, <1>7 DEF InHand
  <2> QED
    BY <1>2, <1>9, <1>10, <2>1 DEF ToRest
<1>12. SliceIsWhole(side)'
  <2>1. Intact(h) /\ IsWhole(side, Elements(h))
    BY <1>5, <1>8 DEF SliceIsWhole
  <2>2. PICK s \in Seq(Entry), n \in Nat : s = Elements(h) /\ n = h.len /\ Len(s) = n
    BY <2>1, IntactFacts, HeaderFacts
  <2>3. PICK g \in Seq(Entry) :
            /\ g = Append(s, o) /\ ToSet(g) = ToSet(s) \cup {o}
            /\ IsInjective(s) /\ o \notin ToSet(s) => IsInjective(g)
    BY AppendFacts
  <2>4. Len(g) = n + 1 /\ g[n + 1] = o /\ (\A k \in 1..n : g[k] = s[k]) /\ DOMAIN g = 1..(n + 1)
    BY <2>2, <2>3
  <2>5. IsWhole(side, g)'
    <3>1. IsInjective(s) /\ ToSet(s) \subseteq ToRest
          /\ \A e \in ToRest : Object[e].side = side /\ remaining[e] > 0 => e \in ToSet(s)
      BY <2>1, <2>2 DEF IsWhole
    <3>2. \A e \in ToSet(s) : remaining[e] > 0
      BY <1>1, <2>1, <2>2 DEF IsWhole
    <3>3. IsInjective(g) /\ ToSet(g) \subseteq ToRest'
      BY <1>11, <2>3, <3>1
    <3>4. \A e \in ToRest' : Object[e].side = side /\ remaining'[e] > 0 => e \in ToSet(g)
      BY <1>2, <1>11, <2>3, <3>1
    <3>5. \A e \in ToSet(g) : remaining'[e] > 0
      BY <1>2, <1>9, <2>3, <3>2
    <3> QED
      BY <3>3, <3>4, <3>5 DEF IsWhole
  <2>6. heap'[next.at] = t
    BY <1>5, <1>6 DEF RaceTypes, TypeOK
  <2>7. ASSUME NEW k \in 1..(n + 1)
        PROVE  Element(next, k)' = g[k] /\ g[k] # NoEntry
    <3>1. k <= Len(t) /\ t[k] = g[k]
      <4>1. CASE k = n + 1
        BY <1>5, <2>2, <2>4, <4>1
      <4>2. CASE k # n + 1
        <5>1. k \in 1..n
          BY <4>2
        <5>2. n + 1 <= Len(t) /\ Len(t) \in Nat
          BY <1>5, <2>2
        <5> QED
          BY <1>5, <2>2, <2>4, <5>1, <5>2
      <4> QED
        BY <4>1, <4>2
    <3>2. g[k] \in Entry
      BY <2>4
    <3> QED
      BY <2>6, <3>1, <3>2, RaceAssumption DEF Element
  <2>8. Elements(next)' = g /\ Intact(next)'
    <3>1. g = [k \in 1..(n + 1) |-> g[k]]
      BY <2>4
    <3>2. next.len = n + 1
      BY <1>6, <2>2
    <3> QED
      BY <2>7, <3>1, <3>2 DEF Elements, Intact
  <2>9. Slice(side)' = next
    BY <1>6, <1>7 DEF Slice
  <2> QED
    BY <2>5, <2>8, <2>9, SliceIsWholeIf
<1>13. ASSUME NEW r \in Side, r # side
       PROVE  SliceIsWhole(r)'
  <2>1. Slice(r)' = Slice(r)
    BY <1>1, <1>2, <1>7, <1>8, <1>13 DEF Slice
  <2>2. Slice(r).at # at
    <3>1. CASE at = h.at
      <4>1. Uses(side, h.at) /\ Uses(r, header[r].at) /\ header[r].at \in Address
        BY <1>5, HeaderFacts DEF Uses
      <4> QED
        BY <1>8, <1>13, <3>1, <4>1, OneSide
    <3>2. CASE at = Fresh
      BY <1>8, <3>2, FreshFacts DEF Side
    <3> QED
      BY <1>5, <3>1, <3>2
  <2>3. heap'[Slice(r).at] = heap[Slice(r).at]
    BY <1>5, <2>2, SliceFacts DEF RaceTypes, TypeOK
  <2> QED
    BY <1>1, <1>2, <1>4, <1>8, <1>11, <1>13, <2>1, <2>3, SliceUntouched
<1>14. StoresAreSound'
  BY <1>1, <1>2, <1>7 DEF StoresAreSound
<1>15. LocalsAreSound'
  BY <1>1, <1>2, <1>7, <1>9, <1>10 DEF LocalsAreSound
<1> QED
  BY <1>1, <1>2, <1>12, <1>13, <1>14, <1>15, StaysWhole

LEMMA ScanKeepsWhole ==
    ASSUME TypeInv, TypeInv', WholeWithoutOverlap, Scan \/ ScanAgain
    PROVE  WholeWithoutOverlap'
<1> USE DEF TypeInv
<1> SUFFICES ASSUME ~ overlapped' PROVE WholeWithoutOverlap'
  BY DEF WholeWithoutOverlap
<1>1. BookIsWhole /\ cancel.pc \in {"idle", "again"} /\ match.pc = "idle"
  BY CancelAlone DEF Scan, ScanAgain
<1>2. \A r \in Side : Slice(r) = header[r] /\ SliceIsWhole(r)
  BY <1>1 DEF Slice, BookIsWhole
<1>3. ~ Panic
  <2>1. Intact(header["buy"]) /\ Intact(header["sell"])
    BY <1>2 DEF SliceIsWhole, Side
  <2>2. \A side \in Side : \A e : ~ ReadsNil(side, e)
    BY <2>1 DEF ReadsNil, Intact, Side
  <2>3. \A e, otherwise : Look(e, otherwise) => crashed' = FALSE
    BY <2>2 DEF Look, Alive, Side
  <2> QED
    BY <2>3 DEF Scan, ScanAgain, Panic
<1>4. /\ heap' = heap /\ header' = header /\ remaining' = remaining /\ match' = match
      /\ arrived' = arrived /\ gone' = gone /\ crashed' = FALSE
  BY <1>3, ScanFacts DEF LooksOnly
<1>5. PICK e \in ToCancel : LookEffect(e)
  BY <1>3, ScanFacts
<1>6. \/ cancel'.pc \in {"idle", "again"}
      \/ /\ cancel'.pc = "found" /\ cancel'.object \in ToRest
         /\ cancel'.index <= header[cancel'.side].len
         /\ Element(header[cancel'.side], cancel'.index) = cancel'.object
  <2>1. CASE cancel' = Idle \/ AsksAgain(e)
    BY <2>1, IdleFacts DEF AsksAgain, Idle
  <2>2. ASSUME NEW side \in Side, NEW k \in Nat, Finds(e, side, k)
        PROVE  /\ cancel'.pc = "found" /\ cancel'.object \in ToRest
               /\ cancel'.index <= header[cancel'.side].len
               /\ Element(header[cancel'.side], cancel'.index) = cancel'.object
    <3>1. cancel'.pc = "found" /\ cancel'.object = e /\ cancel'.side = side /\ cancel'.index = k
      BY <2>2, IdleFacts DEF Finds, Idle
    <3>2. k \in 1..header[side].len /\ Element(header[side], k) = e
      BY <2>2 DEF Finds
    <3>3. e \in ToSet(Elements(header[side]))
      BY <3>2 DEF Elements, ToSet
    <3>4. e \in ToRest
      BY <1>2, <3>3 DEF SliceIsWhole, IsWhole
    <3>5. k <= header[side].len
      BY <3>2, HeaderFacts
    <3> QED
      BY <3>1, <3>2, <3>4, <3>5
  <2> QED
    BY <1>5, <2>1, <2>2 DEF LookEffect, FindsSome
<1>7. Entered' = Entered /\ ToRest' = ToRest
  <2>1. Entered' = Entered
    BY <1>4 DEF Entered
  <2>2. InHand' = InHand
    BY <1>1, <1>4, <1>6 DEF InHand
  <2> QED
    BY <1>4, <2>1, <2>2 DEF ToRest
<1>8. \A r \in Side : Slice(r)' = Slice(r)
  BY <1>1, <1>2, <1>4, <1>6 DEF Slice
<1>9. \A r \in Side : SliceIsWhole(r)'
  BY <1>1, <1>2, <1>4, <1>7, <1>8, SliceUntouched
<1>10. StoresAreSound'
  BY <1>1, <1>4, <1>6 DEF StoresAreSound
<1>11. LocalsAreSound'
  <2>1. gone \subseteq Entered /\ ToRest \subseteq Entered \ gone
    BY <1>1 DEF BookIsWhole, LocalsAreSound, ToRest
  <2>2. cancel'.pc = "found" => (Element(header[cancel.side], cancel.index) = cancel.object)'
    BY <1>4, <1>6 DEF Element
  <2> QED
    BY <1>1, <1>4, <1>6, <1>7, <2>1, <2>2 DEF LocalsAreSound
<1> QED
  BY <1>1, <1>4, <1>9, <1>10, <1>11, StaysWhole

LEMMA ShiftKeepsWhole ==
    ASSUME TypeInv, TypeInv', WholeWithoutOverlap, Shift
    PROVE  WholeWithoutOverlap'
<1> USE DEF TypeInv
<1> SUFFICES ASSUME ~ overlapped' PROVE WholeWithoutOverlap'
  BY DEF WholeWithoutOverlap
<1>1. BookIsWhole /\ match.pc = "idle" /\ cancel.pc = "found"
  BY CancelAlone DEF Shift
<1>2. \A r \in Side : Slice(r) = header[r] /\ SliceIsWhole(r)
  BY <1>1 DEF Slice, BookIsWhole
<1>3. ~ Panic
  <2>1. cancel.index <= header[cancel.side].len
    BY <1>1 DEF BookIsWhole, LocalsAreSound
  <2>2. header[cancel.side] \in Header /\ Intact(header[cancel.side])
    BY <1>2, HeaderFacts DEF SliceIsWhole
  <2>3. header[cancel.side].len <= Len(heap[header[cancel.side].at])
    BY <2>2, IntactFacts
  <2> QED
    BY <2>1, <2>3 DEF Shift, Alive, Panic
<1>4. /\ header' = header /\ remaining' = remaining /\ match' = match
      /\ arrived' = arrived /\ pending' = pending /\ gone' = gone /\ crashed' = FALSE
  BY <1>3, ShiftFacts
<1>5. PICK h \in Header, i \in Nat, t \in Seq(Slot) : Shifts(h, i, t)
  BY <1>3, ShiftFacts
<1>6. PICK side \in Side, o \in Entry, n \in Nat, old \in Seq(Slot) :
          /\ side = cancel.side /\ o = cancel.object /\ n = h.len /\ old = heap[h.at]
          /\ h.at \in Address
  BY <1>1, HeaderFacts, RaceAssumption DEF CallsAreSound
<1>7. /\ h = header[side] /\ 1 <= i /\ i <= n /\ n <= Len(old) /\ i = cancel.index
      /\ heap' = [heap EXCEPT ![h.at] = t] /\ Len(t) = Len(old)
      /\ \A k \in 1..Len(t) : t[k] = IF k \in i..(n - 1) THEN old[k + 1] ELSE old[k]
  BY <1>5, <1>6 DEF Shifts
<1>8. PICK next \in Header : next.at = h.at /\ next.len = n - 1 /\ cancel'.next = next
  <2>1. cancel'.next = [at |-> h.at, len |-> n - 1]
    BY <1>5, <1>6 DEF Shifts, RaceTypes, TypeOK, GoroutineState
  <2>2. cancel'.next \in Header
    BY HeaderFacts DEF RaceTypes, TypeOK, GoroutineState
  <2> QED
    BY <2>1, <2>2
<1>9. /\ cancel'.pc = "shifted" /\ cancel'.object = o /\ cancel'.side = side
      /\ cancel'.words = Words
  BY <1>5, <1>6 DEF Shifts, RaceTypes, TypeOK, GoroutineState
<1>10. Intact(h) /\ IsWhole(side, Elements(h))
  BY <1>2, <1>7 DEF SliceIsWhole
<1>11. PICK s \in Seq(Entry) :
          /\ s = Elements(h) /\ Len(s) = n /\ DOMAIN s = 1..n
          /\ \A k \in 1..n : s[k] = old[k]
  <2>1. /\ Elements(h) \in Seq(Entry) /\ Len(Elements(h)) = h.len
        /\ \A k \in 1..h.len : Elements(h)[k] = heap[h.at][k]
    BY <1>10, IntactFacts
  <2> QED
    BY <1>6, <2>1, SeqFacts
<1>12. i \in DOMAIN s /\ s[i] = o
  <2>1. i \in 1..n
    BY <1>7
  <2>2. Element(h, i) = o
    BY <1>1, <1>6, <1>7 DEF BookIsWhole, LocalsAreSound
  <2>3. s[i] = Element(h, i)
    BY <1>6, <1>11, <2>1 DEF Elements
  <2> QED
    BY <1>11, <2>1, <2>2, <2>3
<1>13. o \in Entered \ gone /\ gone \subseteq Entered /\ Object[o].side = side
  <2>1. o \in ToSet(s)
    BY <1>12 DEF ToSet
  <2>2. Object[o].side = side
    BY <1>2, <1>7, <1>10, <1>11, <2>1, SliceFacts
  <2> QED
    BY <1>1, <1>6, <2>2 DEF BookIsWhole, LocalsAreSound
<1>14. Entered' = Entered /\ ToRest' = ToRest \ {o}
  <2>1. Entered' = Entered
    BY <1>4 DEF Entered
  <2>2. InHand = {}
    BY <1>1, HandFacts
  <2>3. InHand' = {o}
    BY <1>1, <1>4, <1>9 DEF InHand
  <2> QED
    BY <1>4, <2>1, <2>2, <2>3 DEF ToRest
<1>15. SliceIsWhole(side)'
  <2>1. PICK g \in Seq(Entry) :
            /\ g = RemoveAt(s, i)
            /\ ToSet(g) \subseteq ToSet(s) /\ ToSet(s) \subseteq ToSet(g) \cup {o}
            /\ IsInjective(s) => IsInjective(g) /\ o \notin ToSet(g)
    BY <1>12, RemoveAtFacts
  <2>2. Len(g) = n - 1 /\ \A k \in 1..(n - 1) : g[k] = IF k < i THEN s[k] ELSE s[k + 1]
    <3>1. /\ Len(RemoveAt(s, i)) = Len(s) - 1
          /\ \A k \in 1..(Len(s) - 1) :
                RemoveAt(s, i)[k] = IF k < i THEN s[k] ELSE s[k + 1]
      BY <1>12, RemoveAtIndex
    <3> QED
      BY <1>11, <2>1, <3>1
  <2>3. IsWhole(side, g)'
    <3>1. IsInjective(s) /\ ToSet(s) \subseteq ToRest
          /\ \A e \in ToRest : Object[e].side = side /\ remaining[e] > 0 => e \in ToSet(s)
      BY <1>10, <1>11 DEF IsWhole
    <3>2. \A e \in ToSet(s) : remaining[e] > 0
      BY <1>1, <1>10, <1>11 DEF IsWhole
    <3>3. IsInjective(g) /\ ToSet(g) \subseteq ToRest'
      BY <1>14, <2>1, <3>1
    <3>4. \A e \in ToRest' : Object[e].side = side /\ remaining'[e] > 0 => e \in ToSet(g)
      BY <1>4, <1>14, <2>1, <3>1
    <3>5. \A e \in ToSet(g) : remaining'[e] > 0
      BY <1>4, <2>1, <3>2
    <3> QED
      BY <3>3, <3>4, <3>5 DEF IsWhole
  <2>4. heap'[next.at] = t
    BY <1>6, <1>7, <1>8 DEF RaceTypes, TypeOK
  <2>5. ASSUME NEW k \in 1..(n - 1)
        PROVE  Element(next, k)' = g[k] /\ g[k] # NoEntry
    <3>1. k \in 1..Len(t) /\ k <= Len(t) /\ k \in 1..n /\ k + 1 \in 1..n /\ k \in Nat
          /\ Len(t) \in Nat
      BY <1>7
    <3>2. t[k] = g[k]
      <4>1. CASE k < i
        <5>1. k \notin i..(n - 1)
          BY <4>1
        <5> QED
          BY <1>7, <1>11, <2>2, <3>1, <4>1, <5>1
      <4>2. CASE ~ (k < i)
        <5>1. k \in i..(n - 1)
          BY <4>2
        <5> QED
          BY <1>7, <1>11, <2>2, <3>1, <4>2, <5>1
      <4> QED
        BY <4>1, <4>2
    <3>3. g[k] \in Entry
      BY <2>2
    <3> QED
      BY <2>4, <3>1, <3>2, <3>3, RaceAssumption DEF Element
  <2>6. Elements(next)' = g /\ Intact(next)'
    <3>1. g = [k \in 1..(n - 1) |-> g[k]]
      <4>1. DOMAIN g = 1..(n - 1)
        BY <2>2
      <4> QED
        BY <4>1
    <3>2. next.len = n - 1
      BY <1>8
    <3> QED
      BY <2>5, <3>1, <3>2 DEF Elements, Intact
  <2>7. Slice(side)' = next
    BY <1>1, <1>4, <1>8, <1>9 DEF Slice
  <2> QED
    BY <2>3, <2>6, <2>7, SliceIsWholeIf
<1>16. ASSUME NEW r \in Side, r # side
       PROVE  SliceIsWhole(r)'
  <2>1. Slice(r)' = Slice(r)
    BY <1>1, <1>2, <1>4, <1>9, <1>16 DEF Slice
  <2>2. Slice(r).at # h.at
    <3>1. Uses(side, h.at) /\ Uses(r, header[r].at) /\ header[r].at \in Address
      BY <1>7, HeaderFacts DEF Uses
    <3> QED
      BY <1>2, <1>6, <1>16, <3>1, OneSide
  <2>3. heap'[Slice(r).at] = heap[Slice(r).at]
    BY <1>7, <2>2, SliceFacts DEF RaceTypes, TypeOK
  <2> QED
    BY <1>1, <1>2, <1>4, <1>13, <1>14, <1>16, <2>1, <2>3, SliceUntouched
<1>17. StoresAreSound'
  BY <1>1, <1>4, <1>9 DEF StoresAreSound
<1>18. LocalsAreSound'
  BY <1>1, <1>4, <1>9, <1>13, <1>14 DEF LocalsAreSound
<1> QED
  BY <1>1, <1>4, <1>15, <1>16, <1>17, <1>18, StaysWhole

LEMMA StoreShiftedKeepsWhole ==
    ASSUME TypeInv, TypeInv', WholeWithoutOverlap, StoreShifted
    PROVE  WholeWithoutOverlap'
<1> USE DEF TypeInv
<1> SUFFICES ASSUME ~ overlapped' PROVE WholeWithoutOverlap'
  BY DEF WholeWithoutOverlap
<1>1. BookIsWhole /\ match.pc = "idle" /\ cancel.pc = "shifted"
  BY CancelAlone DEF StoreShifted
<1>2. /\ crashed' = FALSE /\ heap' = heap /\ remaining' = remaining /\ match' = match
      /\ arrived' = arrived /\ pending' = pending
  BY DEF StoreShifted, Alive
<1>3. PICK side \in Side, h \in Header, o \in Entry :
          side = cancel.side /\ h = cancel.next /\ o = cancel.object
  BY <1>1, HeaderFacts, RaceAssumption DEF CallsAreSound
<1>4. PICK w \in cancel.words :
        /\ header' = [header EXCEPT ![side][w] = h[w]]
        /\ IF cancel.words = {w}
           THEN cancel' = Idle /\ gone' = gone \cup {o}
           ELSE cancel' = [cancel EXCEPT !.words = @ \ {w}] /\ gone' = gone
  BY <1>3 DEF StoreShifted, Stored
<1>5. w \in Words /\ cancel.words \subseteq Words
  BY DEF RaceTypes, TypeOK, GoroutineState
<1>6. OneWordStored(header', side, h, w)
  BY <1>4, <1>5, StoredFacts
<1>7. /\ \A v \in Words \ cancel.words : header[side][v] = h[v]
      /\ o \in Entered \ gone /\ gone \subseteq Entered
      /\ \A r \in Side : SliceIsWhole(r)
  BY <1>1, <1>3 DEF BookIsWhole, StoresAreSound, LocalsAreSound
<1>8. InHand = {o} /\ Entered' = Entered
  BY <1>1, <1>2, <1>3, HandFacts DEF Entered
<1>9. Slice(side) = h /\ \A r \in Side : r # side => Slice(r) = header[r]
  BY <1>1, <1>3 DEF Slice
<1>10. \A r \in Side : r # side => header'[r] = header[r]
  BY <1>6 DEF OneWordStored
<1>11. \/ /\ cancel.words # {w} /\ cancel'.pc = "shifted" /\ cancel'.object = o
          /\ cancel'.next = h /\ cancel'.side = side /\ cancel'.words = cancel.words \ {w}
          /\ gone' = gone
       \/ cancel.words = {w} /\ cancel'.pc = "idle" /\ gone' = gone \cup {o}
  <2>1. CASE cancel.words = {w}
    BY <1>4, <2>1, IdleFacts
  <2>2. CASE cancel.words # {w}
    BY <1>1, <1>3, <1>4, <2>2 DEF RaceTypes, TypeOK, GoroutineState
  <2> QED
    BY <2>1, <2>2
<1>12. ToRest' = ToRest
  <2>1. CASE cancel'.pc = "shifted"
    <3>1. InHand' = {o} /\ gone' = gone
      BY <1>1, <1>2, <1>11, <2>1 DEF InHand
    <3> QED
      BY <1>8, <3>1 DEF ToRest
  <2>2. CASE cancel'.pc = "idle"
    <3>1. InHand' = {} /\ gone' = gone \cup {o}
      BY <1>1, <1>2, <1>11, <2>2 DEF InHand
    <3> QED
      BY <1>8, <3>1 DEF ToRest
  <2> QED
    BY <1>11, <2>1, <2>2
<1>13. \A r \in Side : Slice(r)' = Slice(r)
  <2>1. CASE cancel'.pc = "shifted"
    BY <1>1, <1>2, <1>9, <1>10, <1>11, <2>1 DEF Slice
  <2>2. CASE cancel'.pc = "idle"
    <3>1. header'[side] = h
      BY <1>5, <1>6, <1>7, <1>11, <2>2, LastWordStored
    <3> QED
      BY <1>1, <1>2, <1>9, <1>10, <2>2, <3>1 DEF Slice
  <2> QED
    BY <1>11, <2>1, <2>2
<1>14. \A r \in Side : SliceIsWhole(r)'
  BY <1>1, <1>2, <1>7, <1>12, <1>13, SliceUntouched
<1>15. StoresAreSound'
  <2>1. cancel'.pc = "shifted" =>
            \A v \in Words \ cancel'.words : header'[cancel'.side][v] = cancel'.next[v]
    BY <1>5, <1>6, <1>7, <1>11 DEF OneWordStored
  <2> QED
    BY <1>1, <1>2, <1>11, <2>1 DEF StoresAreSound
<1>16. LocalsAreSound'
  BY <1>1, <1>2, <1>7, <1>8, <1>11 DEF LocalsAreSound
<1> QED
  BY <1>1, <1>2, <1>14, <1>15, <1>16, StaysWhole

LEMMA InitWhole == Init => WholeWithoutOverlap
<1> SUFFICES ASSUME Init PROVE BookIsWhole
  BY DEF WholeWithoutOverlap
<1>1. TypeInv
  BY InitTypes
<1> USE DEF TypeInv
<1>2. match.pc = "idle" /\ cancel.pc = "idle"
  BY InitFacts, IdleFacts
<1>3. /\ ~ crashed /\ gone = {} /\ arrived = 0
      /\ \A e \in Entry : remaining[e] = Object[e].size /\ remaining[e] > 0
  <2>1. ~ crashed /\ gone = {} /\ arrived = 0
    BY DEF Init
  <2>2. \A e \in Entry : remaining[e] = Object[e].size
    BY DEF Init
  <2> QED
    BY <2>1, <2>2, ObjectsAssumption
<1>4. ToRest = ToSet(AtRest["buy"]) \cup ToSet(AtRest["sell"])
  <2>1. InHand = {}
    BY <1>1, <1>2, HandFacts
  <2>2. 1..arrived = {}
    BY <1>3
  <2>3. Entered = ToSet(AtRest["buy"]) \cup ToSet(AtRest["sell"])
    BY <1>1, <2>2, EnteredFacts DEF EnteredSoFar
  <2> QED
    BY <1>3, <2>1, <2>3 DEF ToRest
<1>5. ASSUME NEW side \in Side
      PROVE  SliceIsWhole(side)
  <2>1. PICK h \in Header, s \in Seq(Entry), n \in Nat :
            /\ h = header[side] /\ s = AtRest[side] /\ n = Len(s) /\ h.len = n
            /\ heap[h.at] = s /\ DOMAIN s = 1..n
    BY <1>1, HeaderFacts, RestFacts, InitFacts, SeqFacts
  <2>2. \A k \in 1..n : Element(h, k) = s[k] /\ s[k] # NoEntry
    BY <2>1, RaceAssumption DEF Element
  <2>3. Elements(h) = s /\ Intact(h)
    <3>1. s = [k \in 1..n |-> s[k]]
      BY <2>1
    <3> QED
      BY <2>1, <2>2, <3>1 DEF Elements, Intact
  <2>4. IsWhole(side, s)
    <3>1. IsInjective(s) /\ \A e \in ToSet(s) : Object[e].side = side
      BY <2>1, ObjectsAssumption
    <3>2. ToSet(s) \subseteq ToRest /\ ToSet(s) \subseteq Entry
      BY <1>4, <2>1, SeqFacts DEF Side
    <3>3. \A e \in ToRest : Object[e].side = side => e \in ToSet(s)
      <4>1. \A r \in Side : \A e \in ToSet(AtRest[r]) : Object[e].side = r
        BY ObjectsAssumption
      <4> QED
        BY <1>4, <2>1, <4>1 DEF Side
    <3> QED
      BY <1>3, <3>1, <3>2, <3>3 DEF IsWhole
  <2>5. Slice(side) = h
    BY <1>2, <2>1 DEF Slice
  <2> QED
    BY <2>3, <2>4, <2>5 DEF SliceIsWhole
<1>6. StoresAreSound /\ LocalsAreSound
  BY <1>2, <1>3 DEF StoresAreSound, LocalsAreSound
<1> QED
  BY <1>2, <1>3, <1>5, <1>6 DEF BookIsWhole

LEMMA StutterKeepsWhole ==
    ASSUME WholeWithoutOverlap, UNCHANGED vars
    PROVE  WholeWithoutOverlap'
<1> SUFFICES ASSUME ~ overlapped' PROVE BookIsWhole'
  BY DEF WholeWithoutOverlap
<1>1. BookIsWhole /\ UNCHANGED vars
  BY DEF WholeWithoutOverlap, vars
<1>2. (StoresAreSound /\ LocalsAreSound)'
  BY <1>1 DEF vars, BookIsWhole, StoresAreSound, LocalsAreSound, MakerSide, Element, Entered
<1> QED
  BY <1>1, <1>2 DEF vars, BookIsWhole, SliceIsWhole, Slice, MakerSide, Intact, Elements,
                    Element, IsWhole, ToRest, Entered, InHand

LEMMA StepWhole ==
    TypeInv /\ TypeInv' /\ WholeWithoutOverlap /\ [Next]_vars => WholeWithoutOverlap'
  BY BeginMatchKeepsWhole, IterateKeepsWhole, PruneKeepsWhole, StorePrunedKeepsWhole,
     AppendRestKeepsWhole, StoreAppendedKeepsWhole, ScanKeepsWhole, ShiftKeepsWhole,
     StoreShiftedKeepsWhole, StutterKeepsWhole DEF Next

LEMMA WholeInvariance == Spec => []WholeWithoutOverlap
  BY InitWhole, StepWhole, TypeInvariance, PTL DEF Spec

\* Calls that never overlap leave the book as it should be: the orders with
\* something left, less the cancelled, each once, and no goroutine panics
\* (book.go:64-186).
THEOREM SoundUnlessOverlapping == Spec => []SoundWithoutOverlap
<1>1. TypeInv /\ WholeWithoutOverlap => SoundWithoutOverlap
  <2> SUFFICES ASSUME TypeInv, BookIsWhole, match.pc = "idle", cancel.pc = "idle"
               PROVE  OnBook = {e \in Entered \ gone : remaining[e] > 0}
    BY DEF WholeWithoutOverlap, SoundWithoutOverlap, BookIsWhole, Entered
  <2>1. ToRest = Entered \ gone
    <3>1. InHand = {}
      BY HandFacts DEF TypeInv
    <3> QED
      BY <3>1 DEF ToRest
  <2>2. ASSUME NEW side \in Side
        PROVE  ToSet(Elements(header[side]))
                 = {e \in ToRest : Object[e].side = side /\ remaining[e] > 0}
    <3>1. PICK s : s = Elements(header[side])
      OBVIOUS
    <3>2. Slice(side) = header[side] /\ SliceIsWhole(side)
      BY DEF Slice, BookIsWhole
    <3>3. IsWhole(side, s) /\ \A e \in ToSet(s) : Object[e].side = side
      BY <3>1, <3>2, SliceFacts DEF SliceIsWhole
    <3>4. /\ ToSet(s) \subseteq ToRest /\ \A e \in ToSet(s) : remaining[e] > 0
          /\ \A e \in ToRest : Object[e].side = side /\ remaining[e] > 0 => e \in ToSet(s)
      BY <3>3 DEF IsWhole
    <3> QED
      BY <3>1, <3>3, <3>4
  <2>3. \A e \in ToRest : Object[e].side \in Side
    BY EnteredFacts, RestFacts DEF TypeInv, EnteredSoFar, ToRest
  <2> QED
    BY <2>1, <2>2, <2>3 DEF OnBook, Side
<1> QED
  BY <1>1, TypeInvariance, WholeInvariance, PTL
=============================================================================
