------------------------ MODULE OrderLifecycleProofs ------------------------
(***************************************************************************)
(* Proofs about OrderLifecycle.tla, for any orders, sides and sizes, and    *)
(* whatever faults happen, however often.                                   *)
(***************************************************************************)
EXTENDS OrderLifecycle, DataTheorems

-----------------------------------------------------------------------------
(* The walk of the taker.                                                   *)

\* One maker, and the walk as far as the k-th of them.
Acc == [left : Int, fills : Seq(Fill), kept : Seq(Entry)]

Meet(acc, m, o) ==
    LET size == Min({acc.left, m.left})
        fill == [trade |-> <<fault["engineRestart"], position["created"], Len(acc.fills)>>,
                 maker |-> m.id, taker |-> o, size |-> size,
                 makerLeft |-> m.left - size, takerLeft |-> acc.left - size]
    IN  [left  |-> acc.left - size,
         fills |-> IF size > 0 THEN Append(acc.fills, fill) ELSE acc.fills,
         kept  |-> IF m.left > size
                   THEN Append(acc.kept, [m EXCEPT !.left = @ - size])
                   ELSE acc.kept]

Unmatched(o) == [left |-> rows[o].size, fills |-> <<>>, kept |-> <<>>]

IsWalk(a, o, makers) ==
    /\ a[0] = Unmatched(o)
    /\ \A k \in 1..Len(makers) : a[k] = Meet(a[k - 1], makers[k], o)
    /\ a[Len(makers)] = Matching(o, makers)

LEMMA MinFacts ==
    ASSUME NEW a \in Int, NEW b \in Int
    PROVE  /\ Min({a, b}) \in Int
           /\ Min({a, b}) = IF a <= b THEN a ELSE b
<1>1. \E x \in {a, b} : \A y \in {a, b} : x <= y
  OBVIOUS
<1>2. Min({a, b}) \in {a, b} /\ Min({a, b}) <= a /\ Min({a, b}) <= b
  BY <1>1 DEF Min
<1> QED
  BY <1>2

LEMMA MeetType ==
    ASSUME TypeOK, NEW acc \in Acc, NEW m \in Entry, NEW o \in Order
    PROVE  Meet(acc, m, o) \in Acc
<1>1. PICK size \in Int : size = Min({acc.left, m.left})
  <2>1. acc.left \in Int /\ m.left \in Int
    BY DEF Acc, Entry
  <2> QED
    BY <2>1, MinFacts
<1>2. PICK life \in Nat, p \in Nat : life = fault["engineRestart"] /\ p = position["created"]
  BY DEF TypeOK, FaultKind, Topic
<1>3. /\ acc.left \in Int /\ acc.fills \in Seq(Fill) /\ acc.kept \in Seq(Entry)
      /\ m.id \in Order /\ m.left \in Int /\ m = [id |-> m.id, left |-> m.left]
      /\ Len(acc.fills) \in Nat
  BY DEF Acc, Entry
<1> DEFINE fill == [trade |-> <<life, p, Len(acc.fills)>>,
                    maker |-> m.id, taker |-> o, size |-> size,
                    makerLeft |-> m.left - size, takerLeft |-> acc.left - size]
<1>4. fill \in Fill
  BY <1>1, <1>2, <1>3 DEF Fill
<1>5. [m EXCEPT !.left = @ - size] \in Entry
  BY <1>1, <1>3 DEF Entry
<1>6. Append(acc.fills, fill) \in Seq(Fill)
  BY <1>3, <1>4, AppendFacts
<1>7. Append(acc.kept, [m EXCEPT !.left = @ - size]) \in Seq(Entry)
  BY <1>3, <1>5, AppendFacts
<1>8. Meet(acc, m, o) =
        [left  |-> acc.left - size,
         fills |-> IF size > 0 THEN Append(acc.fills, fill) ELSE acc.fills,
         kept  |-> IF m.left > size
                   THEN Append(acc.kept, [m EXCEPT !.left = @ - size])
                   ELSE acc.kept]
  BY <1>1, <1>2 DEF Meet
<1> HIDE DEF fill
<1> QED
  BY <1>1, <1>3, <1>6, <1>7, <1>8 DEF Acc

LEMMA WalkExists ==
    ASSUME TypeOK, NEW o \in ToSet(placed), NEW makers \in Seq(Entry)
    PROVE  \E a \in [0..Len(makers) -> Acc] : IsWalk(a, o, makers)
<1>1. PICK n \in Nat : n = Len(makers) /\ DOMAIN makers = 1..n
  OBVIOUS
<1>2. o \in Order /\ rows[o].size \in Int
  BY SeqFacts DEF TypeOK
<1>3. PICK base \in Acc : base = Unmatched(o)
  <2>1. <<>> \in Seq(Fill) /\ <<>> \in Seq(Entry)
    OBVIOUS
  <2> QED
    BY <1>2, <2>1 DEF Acc, Unmatched
<1> DEFINE h == [k \in 1..n |-> [acc \in Acc |-> Meet(acc, makers[k], o)]]
<1>4. h \in [1..n -> [Acc -> Acc]]
  <2>1. \A k \in 1..n : makers[k] \in Entry
    BY <1>1
  <2>2. \A k \in 1..n : \A acc \in Acc : Meet(acc, makers[k], o) \in Acc
    BY <1>2, <2>1, MeetType
  <2> QED
    BY <2>2
<1>5. \A k \in 1..n : \A acc \in Acc : h[k][acc] = Meet(acc, makers[k], o)
  OBVIOUS
<1> HIDE DEF h
<1>6. PICK g \in [SUBSET (1..n) -> Acc] : IsFoldLeft(g, n, base, h)
  BY <1>4, FoldLeftExists
<1>7. g = [s \in SUBSET (1..n) |->
              IF s = {} THEN Unmatched(o)
              ELSE LET i == Max(s) IN Meet(g[s \ {i}], makers[i], o)]
  <2>1. ASSUME NEW s \in SUBSET (1..n), s # {}
        PROVE  g[s] = Meet(g[s \ {Max(s)}], makers[Max(s)], o)
    <3>1. PICK i \in 1..n : i = Max(s)
      BY <2>1, MaxChooses DEF Chooses
    <3>2. g[s] = h[i][g[s \ {i}]] /\ g[s \ {i}] \in Acc
      BY <1>6, <2>1, <3>1 DEF IsFoldLeft
    <3> QED
      BY <1>5, <3>1, <3>2
  <2>2. ASSUME NEW s \in SUBSET (1..n)
        PROVE  g[s] = IF s = {} THEN Unmatched(o)
                      ELSE LET i == Max(s) IN Meet(g[s \ {i}], makers[i], o)
    BY <1>3, <1>6, <2>1 DEF IsFoldLeft
  <2> QED
    BY <2>2
<1>8. PICK f : /\ f = [s \in SUBSET (1..n) |->
                        IF s = {} THEN Unmatched(o)
                        ELSE LET i == Max(s) IN Meet(f[s \ {i}], makers[i], o)]
               /\ f[1..n] = Matching(o, makers)
  <2>1. Matching(o, makers) = MapThenFoldSet(
            LAMBDA m, acc : Meet(acc, m, o), Unmatched(o),
            LAMBDA i : makers[i], LAMBDA S : Max(S), DOMAIN makers)
    BY Zenon DEF Matching, FoldLeft, Meet, Unmatched
  <2>2. \E f : /\ f = [s \in SUBSET (1..n) |->
                        IF s = {} THEN Unmatched(o)
                        ELSE LET i == Max(s) IN Meet(f[s \ {i}], makers[i], o)]
               /\ f[1..n] = MapThenFoldSet(
                    LAMBDA m, acc : Meet(acc, m, o), Unmatched(o),
                    LAMBDA i : makers[i], LAMBDA S : Max(S), 1..n)
    BY <1>7, Zenon DEF MapThenFoldSet
  <2> QED
    BY <1>1, <2>1, <2>2
<1> DEFINE a == [k \in 0..n |-> f[1..k]]
<1>9. a[0] = Unmatched(o) /\ a[n] = Matching(o, makers)
  <2>1. 1..0 = {}
    OBVIOUS
  <2>2. f[{}] = Unmatched(o)
    BY <1>8
  <2>3. a[0] = f[1..0] /\ a[n] = f[1..n]
    OBVIOUS
  <2> QED
    BY <1>8, <2>1, <2>2, <2>3
<1>10. ASSUME NEW k \in 1..n
       PROVE  a[k] = Meet(a[k - 1], makers[k], o)
  <2>1. k \in Nat /\ k # 0 /\ 1..k \in SUBSET (1..n)
    OBVIOUS
  <2>2. 1..k # {} /\ Max(1..k) = k /\ (1..k) \ {k} = 1..(k - 1)
    BY <2>1, MaxOfPrefix
  <2>3. PICK s \in SUBSET (1..n) : s = 1..k
    BY <2>1
  <2>4. f[s] = Meet(f[s \ {k}], makers[k], o)
    <3>1. f[s] = IF s = {} THEN Unmatched(o)
                 ELSE LET i == Max(s) IN Meet(f[s \ {i}], makers[i], o)
      BY <1>8
    <3>2. s # {} /\ Max(s) = k
      BY <2>2, <2>3
    <3> QED
      BY <3>1, <3>2
  <2>5. a[k] = f[s] /\ a[k - 1] = f[s \ {k}]
    <3>1. k \in 0..n /\ k - 1 \in 0..n
      OBVIOUS
    <3>2. a[k] = f[1..k] /\ a[k - 1] = f[1..(k - 1)]
      BY <3>1
    <3> QED
      BY <2>2, <2>3, <3>2
  <2> HIDE DEF a
  <2> QED
    BY <2>4, <2>5
<1> HIDE DEF a
<1>11. a \in [0..n -> Acc]
  <2> DEFINE Good == {k \in 0..n : a[k] \in Acc}
  <2>1. 0 \in Good
    BY <1>3, <1>9
  <2>2. ASSUME NEW k \in 1..n, k - 1 \in Good
        PROVE  k \in Good
    <3>1. makers[k] \in Entry
      BY <1>1
    <3>2. a[k] \in Acc
      BY <1>2, <1>10, <2>2, <3>1, MeetType
    <3> QED
      BY <3>2
  <2>3. 0..n \subseteq Good
    <3> HIDE DEF Good
    <3> QED
      BY <2>1, <2>2, UpTo
  <2>4. DOMAIN a = 0..n /\ a = [k \in 0..n |-> a[k]]
    BY DEF a
  <2> QED
    BY <2>3, <2>4
<1> QED
  BY <1>1, <1>9, <1>10, <1>11 DEF IsWalk

-----------------------------------------------------------------------------
(* Types.                                                                   *)

\* TypeOK by the part of the state it is about.
StoreOK ==
    /\ placed \in Seq(Order) /\ IsInjective(placed)
    /\ rows \in [ToSet(placed) ->
            [side : Side, size : Int, remaining : Int,
             status : {"pending", "partial", "matched", "cancelled", "rejected"}]]
    /\ tradeRows \subseteq [trade : Nat \X Nat \X Nat, maker : Order, taker : Order,
                            size : Int]

ApiOK ==
    /\ cancels \in [Order -> Nat]
    /\ \A r \in publishing :
        r \in [topic : EngineTopic, order : ToSet(placed), nth : 1..cancels[r.order] \cup {1}]

LogOK ==
    /\ log \in [Topic -> Seq(Order \cup Fill)]
    /\ \A t \in EngineTopic : log[t] \in Seq(ToSet(placed))
    /\ log["rejected"] \in Seq(Order) /\ log["matched"] \in Seq(Fill)

ConsumersOK ==
    /\ position \in [Topic -> Nat] /\ committed \in [Topic -> Nat]
    /\ \A t \in Topic : committed[t] <= position[t] /\ position[t] <= Len(log[t])
    /\ handling \in [Topic -> BOOLEAN]

EngineOK ==
    /\ book \in [Side -> Seq(Entry)]
    /\ outbox \in Seq(Result) /\ (outbox # <<>> => handling["created"])

FaultOK == fault \in [FaultKind -> Nat]

LEMMA TypeParts ==
    TypeOK <=> StoreOK /\ ApiOK /\ LogOK /\ ConsumersOK /\ EngineOK /\ FaultOK
  BY DEF TypeOK, StoreOK, ApiOK, LogOK, ConsumersOK, EngineOK, FaultOK

LEMMA TypePartsNext ==
    StoreOK' /\ ApiOK' /\ LogOK' /\ ConsumersOK' /\ EngineOK' /\ FaultOK' => TypeOK'
  BY DEF TypeOK, StoreOK, ApiOK, LogOK, ConsumersOK, EngineOK, FaultOK

\* What keeps each part as it is.
LEMMA PartsUnchanged ==
    ASSUME TypeOK
    PROVE  /\ UNCHANGED store => StoreOK'
           /\ UNCHANGED <<placed, api>> => ApiOK'
           /\ UNCHANGED <<placed, log>> => LogOK'
           /\ UNCHANGED <<log, consumers>> => ConsumersOK'
           /\ UNCHANGED <<handling, engine>> => EngineOK'
           /\ UNCHANGED fault => FaultOK'
<1>1. StoreOK /\ ApiOK /\ LogOK /\ ConsumersOK /\ EngineOK /\ FaultOK
  BY TypeParts
<1>2. UNCHANGED store => StoreOK'
  BY <1>1 DEF StoreOK, store
<1>3. UNCHANGED <<placed, api>> => ApiOK'
  BY <1>1 DEF ApiOK, api
<1>4. UNCHANGED <<placed, log>> => LogOK'
  BY <1>1 DEF LogOK
<1>5. UNCHANGED <<log, consumers>> => ConsumersOK'
  BY <1>1 DEF ConsumersOK, consumers
<1>6. UNCHANGED <<handling, engine>> => EngineOK'
  BY <1>1 DEF EngineOK, engine
<1>7. UNCHANGED fault => FaultOK'
  BY <1>1 DEF FaultOK
<1> QED
  BY <1>2, <1>3, <1>4, <1>5, <1>6, <1>7

LEMMA WiderSeq ==
    ASSUME NEW S, NEW T, S \subseteq T, NEW s \in Seq(S)
    PROVE  s \in Seq(T)
<1>1. PICK n \in Nat : n = Len(s) /\ s \in [1..n -> S]
  OBVIOUS
<1>2. s \in [1..n -> T]
  BY <1>1
<1> QED
  BY <1>1, <1>2

\* A fault that happens is counted, and no other.
LEMMA SufferFacts ==
    ASSUME TypeOK, NEW kinds, Suffer(kinds)
    PROVE  /\ FaultOK'
           /\ \A kind \in FaultKind :
                fault'[kind] = IF kind \in kinds THEN fault[kind] + 1 ELSE fault[kind]
<1>1. fault' = [kind \in FaultKind |->
                    IF kind \in kinds THEN fault[kind] + 1 ELSE fault[kind]]
  BY DEF Suffer
<1>2. \A kind \in FaultKind : fault[kind] \in Nat
  BY DEF TypeOK
<1> QED
  BY <1>1, <1>2 DEF FaultOK

\* A topic grows by one message at its end.
LEMMA PublishedFacts ==
    ASSUME TypeOK, NEW t \in Topic, NEW message, Published(t, message), UNCHANGED placed,
           t \in EngineTopic => message \in ToSet(placed),
           t = "rejected" => message \in Order,
           t = "matched" => message \in Fill
    PROVE  /\ LogOK'
           /\ UNCHANGED consumers => ConsumersOK'
           /\ log'[t] = Append(log[t], message)
           /\ \A u \in Topic \ {t} : log'[u] = log[u]
<1>1. log \in [Topic -> Seq(Order \cup Fill)] /\ log' = [log EXCEPT ![t] = Append(@, message)]
  BY DEF TypeOK, Published
<1>2. log'[t] = Append(log[t], message) /\ \A u \in Topic \ {t} : log'[u] = log[u]
  BY <1>1
<1>3. ToSet(placed) \subseteq Order
  BY SeqFacts DEF TypeOK
<1>4. t \in EngineTopic \/ t = "rejected" \/ t = "matched"
  BY DEF Topic, EngineTopic
<1>5. message \in Order \cup Fill
  BY <1>3, <1>4
<1>6. log' \in [Topic -> Seq(Order \cup Fill)]
  BY <1>1, <1>5
<1>7. ASSUME NEW u \in EngineTopic
      PROVE  log'[u] \in Seq(ToSet(placed)')
  <2>1. u \in Topic /\ log[u] \in Seq(ToSet(placed)) /\ ToSet(placed)' = ToSet(placed)
    BY DEF TypeOK, Topic, EngineTopic
  <2>2. CASE u = t
    BY <1>2, <2>1, <2>2, AppendFacts
  <2>3. CASE u # t
    BY <1>2, <2>1, <2>3
  <2> QED
    BY <2>2, <2>3
<1>8. log'["rejected"] \in Seq(Order)
  <2>1. "rejected" \in Topic /\ log["rejected"] \in Seq(Order)
    BY DEF TypeOK, Topic
  <2>2. CASE t = "rejected"
    BY <1>2, <2>1, <2>2, AppendFacts
  <2>3. CASE t # "rejected"
    BY <1>2, <2>1, <2>3
  <2> QED
    BY <2>2, <2>3
<1>9. log'["matched"] \in Seq(Fill)
  <2>1. "matched" \in Topic /\ log["matched"] \in Seq(Fill)
    BY DEF TypeOK, Topic
  <2>2. CASE t = "matched"
    BY <1>2, <2>1, <2>2, AppendFacts
  <2>3. CASE t # "matched"
    BY <1>2, <2>1, <2>3
  <2> QED
    BY <2>2, <2>3
<1>10. LogOK'
  BY <1>6, <1>7, <1>8, <1>9 DEF LogOK
<1>11. ASSUME UNCHANGED consumers PROVE ConsumersOK'
  <2>1. \A u \in Topic : position[u] \in Nat /\ position[u] <= Len(log[u]) /\ Len(log[u]) \in Nat
    BY <1>1 DEF TypeOK
  <2>2. \A u \in Topic : Len(log'[u]) = IF u = t THEN Len(log[u]) + 1 ELSE Len(log[u])
    BY <1>1, <1>2
  <2>3. \A u \in Topic : position[u] <= Len(log'[u])
    BY <2>1, <2>2
  <2> QED
    BY <1>11, <2>3 DEF ConsumersOK, TypeOK, consumers
<1> QED
  BY <1>2, <1>10, <1>11

\* A fetch takes the message after the position.
LEMMA FetchFacts ==
    ASSUME TypeOK, NEW t \in Topic, Fetch(t), UNCHANGED log
    PROVE  /\ ConsumersOK'
           /\ handling'[t] /\ (handling["created"] => handling'["created"])
           /\ position[t] + 1 \in DOMAIN log[t] /\ position'[t] = position[t] + 1
           /\ \A u \in Topic \ {t} : position'[u] = position[u]
           /\ Message(t) = log[t][position[t] + 1]
<1>1. /\ position \in [Topic -> Nat] /\ committed \in [Topic -> Nat]
      /\ handling \in [Topic -> BOOLEAN] /\ Len(log[t]) \in Nat /\ DOMAIN log[t] = 1..Len(log[t])
  BY DEF TypeOK
<1>2. /\ position[t] < Len(log[t]) /\ position' = [position EXCEPT ![t] = @ + 1]
      /\ handling' = [handling EXCEPT ![t] = TRUE] /\ committed' = committed
  BY DEF Fetch
<1>3. \A u \in Topic : position'[u] = IF u = t THEN position[u] + 1 ELSE position[u]
  BY <1>1, <1>2
<1>4. \A u \in Topic : committed[u] <= position'[u] /\ position'[u] <= Len(log[u])
  BY <1>1, <1>2, <1>3 DEF TypeOK
<1>5. position' \in [Topic -> Nat] /\ handling' \in [Topic -> BOOLEAN]
  BY <1>1, <1>2
<1>6. ConsumersOK'
  BY <1>1, <1>2, <1>4, <1>5 DEF ConsumersOK
<1>7. "created" \in Topic
  BY DEF Topic
<1> QED
  BY <1>1, <1>2, <1>3, <1>6, <1>7 DEF Message

LEMMA RewoundFacts ==
    ASSUME TypeOK, NEW topics, Rewound(topics), UNCHANGED log
    PROVE  /\ ConsumersOK'
           /\ "created" \notin topics => handling'["created"] = handling["created"]
<1>1. "created" \in Topic
  BY DEF Topic
<1> QED
  BY <1>1 DEF ConsumersOK, TypeOK, Rewound

\* A cancel takes out the first entry with the id, if there is one.
LEMMA WithoutFacts ==
    ASSUME TypeOK, NEW o
    PROVE  \/ Without(o) = book
           \/ \E side \in Side : \E k \in DOMAIN book[side] :
                /\ book[side][k].id = o
                /\ Without(o) = [book EXCEPT ![side] = RemoveAt(@, k)]
<1>1. book \in [Side -> Seq(Entry)]
  BY DEF TypeOK
<1> DEFINE First(s) == SelectInSeq(s, LAMBDA e : e.id = o)
<1>2. ASSUME NEW side \in Side, \E i \in DOMAIN book[side] : book[side][i].id = o
      PROVE  First(book[side]) \in DOMAIN book[side] /\ book[side][First(book[side])].id = o
  <2>1. PICK s \in Seq(Entry) : s = book[side]
    BY <1>1
  <2> DEFINE I == {i \in 1..Len(s) : s[i].id = o}
  <2>2. I # {} /\ DOMAIN s = 1..Len(s) /\ I \in SUBSET Nat
    BY <1>2, <2>1
  <2>3. PICK k \in I : \A i \in I : k <= i
    <3> HIDE DEF I
    <3> QED
      BY <2>2, Smallest
  <2>4. Min(I) \in I
    <3> HIDE DEF I
    <3> QED
      BY <2>3 DEF Min
  <2>5. First(s) = Min(I)
    BY <2>2 DEF SelectInSeq
  <2> QED
    BY <2>1, <2>2, <2>4, <2>5
<1>3. CASE \E i \in DOMAIN book["buy"] : book["buy"][i].id = o
  <2>1. Without(o) = [book EXCEPT !["buy"] = RemoveAt(@, First(@))]
    BY <1>3 DEF Without
  <2>2. "buy" \in Side
    BY DEF Side
  <2>3. PICK k \in DOMAIN book["buy"] : k = First(book["buy"]) /\ book["buy"][k].id = o
    BY <1>2, <1>3, <2>2
  <2> HIDE DEF First
  <2> QED
    BY <2>1, <2>2, <2>3
<1>4. CASE /\ ~ \E i \in DOMAIN book["buy"] : book["buy"][i].id = o
           /\ \E i \in DOMAIN book["sell"] : book["sell"][i].id = o
  <2>1. Without(o) = [book EXCEPT !["sell"] = RemoveAt(@, First(@))]
    BY <1>4 DEF Without
  <2>2. "sell" \in Side
    BY DEF Side
  <2>3. PICK k \in DOMAIN book["sell"] : k = First(book["sell"]) /\ book["sell"][k].id = o
    BY <1>2, <1>4, <2>2
  <2> HIDE DEF First
  <2> QED
    BY <2>1, <2>2, <2>3
<1>5. CASE /\ ~ \E i \in DOMAIN book["buy"] : book["buy"][i].id = o
           /\ ~ \E i \in DOMAIN book["sell"] : book["sell"][i].id = o
  BY <1>5 DEF Without
<1> QED
  BY <1>3, <1>4, <1>5

LEMMA WithoutType ==
    ASSUME TypeOK, NEW o
    PROVE  Without(o) \in [Side -> Seq(Entry)]
<1>1. book \in [Side -> Seq(Entry)]
  BY DEF TypeOK
<1>2. ASSUME NEW side \in Side, NEW k \in DOMAIN book[side]
      PROVE  RemoveAt(book[side], k) \in Seq(Entry)
  <2>1. PICK s \in Seq(Entry) : s = book[side]
    BY <1>1
  <2>2. RemoveAt(s, k) \in Seq(Entry)
    BY <1>2, <2>1, RemoveAtFacts
  <2> QED
    BY <2>1, <2>2
<1>3. ASSUME NEW side \in Side, NEW k \in DOMAIN book[side]
      PROVE  [book EXCEPT ![side] = RemoveAt(@, k)] \in [Side -> Seq(Entry)]
  BY <1>1, <1>2
<1>4. CASE Without(o) = book
  BY <1>1, <1>4
<1>5. ASSUME NEW side \in Side, NEW k \in DOMAIN book[side],
             Without(o) = [book EXCEPT ![side] = RemoveAt(@, k)]
      PROVE  Without(o) \in [Side -> Seq(Entry)]
  BY <1>3, <1>5
<1> QED
  BY <1>4, <1>5, WithoutFacts

\* The rebuilt side, from the first of the orders placed to the last.
Rebuild(acc, side, o) ==
    IF o \in fn_get_resting_orders(side) THEN RestoreOrder(acc, o) ELSE acc

IsRebuild(a, side) ==
    /\ a[0] = <<>>
    /\ \A k \in 1..Len(placed) : a[k] = Rebuild(a[k - 1], side, placed[k])
    /\ a[Len(placed)] = restoreFromDB[side]

LEMMA RebuildType ==
    ASSUME TypeOK, NEW side \in Side, NEW acc \in Seq(Entry), NEW o \in ToSet(placed)
    PROVE  Rebuild(acc, side, o) \in Seq(Entry)
<1>1. o \in Order /\ rows[o].remaining \in Int
  BY SeqFacts DEF TypeOK
<1>2. PICK e \in Entry : e = [id |-> o, left |-> rows[o].remaining]
  BY <1>1 DEF Entry
<1>3. Append(acc, e) \in Seq(Entry)
  BY AppendFacts
<1> QED
  BY <1>2, <1>3 DEF Rebuild, RestoreOrder

LEMMA RebuildExists ==
    ASSUME TypeOK, NEW side \in Side
    PROVE  \E a \in [0..Len(placed) -> Seq(Entry)] : IsRebuild(a, side)
<1>1. PICK n \in Nat : n = Len(placed) /\ DOMAIN placed = 1..n
  BY DEF TypeOK
<1>2. \A k \in 1..n : placed[k] \in ToSet(placed)
  BY <1>1 DEF ToSet
<1>3. PICK V : V = Seq(Entry)
  OBVIOUS
<1>4. PICK base \in V : base = <<>>
  <2>1. <<>> \in Seq(Entry)
    OBVIOUS
  <2> QED
    BY <1>3, <2>1
<1> DEFINE h == [k \in 1..n |-> [acc \in V |-> Rebuild(acc, side, placed[k])]]
<1>5. h \in [1..n -> [V -> V]]
  <2>1. \A k \in 1..n : \A acc \in V : Rebuild(acc, side, placed[k]) \in V
    BY <1>2, <1>3, RebuildType
  <2> QED
    BY <2>1
<1>6. \A k \in 1..n : \A acc \in V : h[k][acc] = Rebuild(acc, side, placed[k])
  OBVIOUS
<1> HIDE DEF h
<1>7. PICK g \in [SUBSET (1..n) -> V] : IsFoldLeft(g, n, base, h)
  BY <1>5, FoldLeftExists
<1>8. g = [s \in SUBSET (1..n) |->
              IF s = {} THEN <<>>
              ELSE LET i == Max(s) IN Rebuild(g[s \ {i}], side, placed[i])]
  <2>1. ASSUME NEW s \in SUBSET (1..n), s # {}
        PROVE  g[s] = Rebuild(g[s \ {Max(s)}], side, placed[Max(s)])
    <3>1. PICK i \in 1..n : i = Max(s)
      BY <2>1, MaxChooses DEF Chooses
    <3>2. g[s] = h[i][g[s \ {i}]] /\ g[s \ {i}] \in V
      BY <1>7, <2>1, <3>1 DEF IsFoldLeft
    <3> QED
      BY <1>6, <3>1, <3>2
  <2>2. ASSUME NEW s \in SUBSET (1..n)
        PROVE  g[s] = IF s = {} THEN <<>>
                      ELSE LET i == Max(s) IN Rebuild(g[s \ {i}], side, placed[i])
    BY <1>4, <1>7, <2>1 DEF IsFoldLeft
  <2> QED
    BY <2>2
<1>9. PICK f : /\ f = [s \in SUBSET (1..n) |->
                        IF s = {} THEN <<>>
                        ELSE LET i == Max(s) IN Rebuild(f[s \ {i}], side, placed[i])]
               /\ f[1..n] = restoreFromDB[side]
  <2>1. restoreFromDB[side] = MapThenFoldSet(
            LAMBDA o, acc : Rebuild(acc, side, o), <<>>,
            LAMBDA i : placed[i], LAMBDA S : Max(S), DOMAIN placed)
    <3>1. restoreFromDB[side] =
            FoldLeft(LAMBDA acc, o : IF o \in fn_get_resting_orders(side)
                                     THEN RestoreOrder(acc, o) ELSE acc, <<>>, placed)
      BY DEF restoreFromDB
    <3> QED
      BY <3>1, Zenon DEF FoldLeft, Rebuild
  <2>2. \E f : /\ f = [s \in SUBSET (1..n) |->
                        IF s = {} THEN <<>>
                        ELSE LET i == Max(s) IN Rebuild(f[s \ {i}], side, placed[i])]
               /\ f[1..n] = MapThenFoldSet(
                    LAMBDA o, acc : Rebuild(acc, side, o), <<>>,
                    LAMBDA i : placed[i], LAMBDA S : Max(S), 1..n)
    BY <1>8, Zenon DEF MapThenFoldSet
  <2> QED
    BY <1>1, <2>1, <2>2
<1> DEFINE a == [k \in 0..n |-> f[1..k]]
<1>10. a[0] = <<>> /\ a[n] = restoreFromDB[side]
  <2>1. 1..0 = {}
    OBVIOUS
  <2>2. f[{}] = <<>>
    BY <1>9
  <2>3. a[0] = f[1..0] /\ a[n] = f[1..n]
    OBVIOUS
  <2> QED
    BY <1>9, <2>1, <2>2, <2>3
<1>11. ASSUME NEW k \in 1..n
       PROVE  a[k] = Rebuild(a[k - 1], side, placed[k])
  <2>1. k \in Nat /\ k # 0 /\ 1..k \in SUBSET (1..n)
    OBVIOUS
  <2>2. 1..k # {} /\ Max(1..k) = k /\ (1..k) \ {k} = 1..(k - 1)
    BY <2>1, MaxOfPrefix
  <2>3. PICK s \in SUBSET (1..n) : s = 1..k
    BY <2>1
  <2>4. f[s] = Rebuild(f[s \ {k}], side, placed[k])
    <3>1. f[s] = IF s = {} THEN <<>>
                 ELSE LET i == Max(s) IN Rebuild(f[s \ {i}], side, placed[i])
      BY <1>9
    <3>2. s # {} /\ Max(s) = k
      BY <2>2, <2>3
    <3> QED
      BY <3>1, <3>2
  <2>5. a[k] = f[s] /\ a[k - 1] = f[s \ {k}]
    <3>1. k \in 0..n /\ k - 1 \in 0..n
      OBVIOUS
    <3>2. a[k] = f[1..k] /\ a[k - 1] = f[1..(k - 1)]
      BY <3>1
    <3> QED
      BY <2>2, <2>3, <3>2
  <2> HIDE DEF a
  <2> QED
    BY <2>4, <2>5
<1> HIDE DEF a
<1>12. a \in [0..n -> Seq(Entry)]
  <2> DEFINE Good == {k \in 0..n : a[k] \in Seq(Entry)}
  <2>1. 0 \in Good
    <3>1. 0 \in 0..n /\ <<>> \in Seq(Entry)
      OBVIOUS
    <3> QED
      BY <1>10, <3>1
  <2>2. ASSUME NEW k \in 1..n, k - 1 \in Good
        PROVE  k \in Good
    <3>1. PICK acc \in Seq(Entry), o \in ToSet(placed) : acc = a[k - 1] /\ o = placed[k]
      BY <1>2, <2>2
    <3>2. Rebuild(acc, side, o) \in Seq(Entry)
      BY RebuildType
    <3>3. a[k] = Rebuild(acc, side, o) /\ k \in 0..n
      BY <1>11, <3>1
    <3> QED
      BY <3>2, <3>3
  <2>3. 0..n \subseteq Good
    <3> HIDE DEF Good
    <3> QED
      BY <2>1, <2>2, UpTo
  <2>4. DOMAIN a = 0..n /\ a = [k \in 0..n |-> a[k]]
    BY DEF a
  <2> QED
    BY <2>3, <2>4
<1> QED
  BY <1>1, <1>10, <1>11, <1>12 DEF IsRebuild

LEMMA RestoreType ==
    ASSUME TypeOK
    PROVE  restoreFromDB \in [Side -> Seq(Entry)]
<1>1. ASSUME NEW side \in Side PROVE restoreFromDB[side] \in Seq(Entry)
  <2>1. PICK a \in [0..Len(placed) -> Seq(Entry)] : IsRebuild(a, side)
    BY RebuildExists
  <2>2. Len(placed) \in 0..Len(placed)
    BY DEF TypeOK
  <2> QED
    BY <2>1, <2>2 DEF IsRebuild
<1>2. restoreFromDB = [side \in Side |-> restoreFromDB[side]]
  BY DEF restoreFromDB
<1> QED
  BY <1>1, <1>2

LEMMA MatchingType ==
    ASSUME TypeOK, NEW o \in ToSet(placed), NEW makers \in Seq(Entry)
    PROVE  Matching(o, makers) \in Acc
<1>1. PICK a \in [0..Len(makers) -> Acc] : IsWalk(a, o, makers)
  BY WalkExists
<1>2. Len(makers) \in 0..Len(makers)
  OBVIOUS
<1> QED
  BY <1>1, <1>2 DEF IsWalk

-----------------------------------------------------------------------------
(* Every action keeps the types.                                            *)

\* What holds of the order a request, a message or an entry names.
LEMMA RowFacts ==
    ASSUME TypeOK, NEW o \in ToSet(placed)
    PROVE  /\ o \in Order /\ o \in DOMAIN rows
           /\ rows[o].side \in Side /\ Opposite(rows[o].side) \in Side
           /\ rows[o].size \in Int /\ rows[o].remaining \in Int
  BY SeqFacts DEF TypeOK, Side, Opposite

LEMMA CreateType ==
    ASSUME TypeOK, NEW w \in Wanted, CreateLimitOrder(w[1], w[2], w[3])
    PROVE  TypeOK'
<1>1. PICK o \in Order, side \in Side, size \in Int : o = w[1] /\ side = w[2] /\ size = w[3]
  BY BoundsAssumption DEF Side
<1>2. /\ o \notin ToSet(placed) /\ placed' = Append(placed, o)
      /\ rows' = [x \in DOMAIN rows \cup {o} |->
                    IF x = o THEN [side |-> side, size |-> size, remaining |-> size,
                                   status |-> "pending"]
                    ELSE rows[x]]
      /\ publishing' = publishing \cup {Request("created", o, 1)}
      /\ UNCHANGED <<tradeRows, cancels, log, consumers, engine, fault>>
  BY <1>1 DEF CreateLimitOrder, fn_create_order_atomic
<1>3. PICK old, new : old = ToSet(placed) /\ new = ToSet(placed') /\ new = old \cup {o}
  BY <1>2, AppendFacts DEF TypeOK
<1>4. placed' \in Seq(Order) /\ IsInjective(placed')
  BY <1>2, AppendFacts DEF TypeOK
<1>5. rows' \in [new -> [side : Side, size : Int, remaining : Int,
             status : {"pending", "partial", "matched", "cancelled", "rejected"}]]
  <2>1. rows \in [old -> [side : Side, size : Int, remaining : Int,
             status : {"pending", "partial", "matched", "cancelled", "rejected"}]]
    BY <1>3 DEF TypeOK
  <2> QED
    BY <1>2, <1>3, <2>1
<1>6. StoreOK'
  BY <1>2, <1>3, <1>4, <1>5 DEF StoreOK, TypeOK
<1>7. ApiOK'
  <2>1. Request("created", o, 1) \in [topic : EngineTopic, order : new, nth : 1..cancels[o] \cup {1}]
    BY <1>3 DEF Request, EngineTopic
  <2>2. Request("created", o, 1).order = o
    BY DEF Request
  <2>3. \A r \in publishing :
            r \in [topic : EngineTopic, order : new, nth : 1..cancels[r.order] \cup {1}]
    BY <1>3 DEF TypeOK
  <2> QED
    BY <1>2, <1>3, <2>1, <2>2, <2>3 DEF ApiOK, TypeOK
<1>8. LogOK'
  <2>1. \A t \in EngineTopic : log[t] \in Seq(new)
    <3>1. \A t \in EngineTopic : log[t] \in Seq(old)
      BY <1>3 DEF TypeOK
    <3>2. old \subseteq new
      BY <1>3
    <3>3. ASSUME NEW t \in EngineTopic PROVE log[t] \in Seq(new)
      <4>1. PICK s \in Seq(old) : s = log[t]
        BY <3>1
      <4>2. s \in Seq(new)
        BY <3>2, <4>1, WiderSeq
      <4> QED
        BY <4>1, <4>2
    <3> QED
      BY <3>3
  <2> QED
    BY <1>2, <1>3, <2>1 DEF LogOK, TypeOK
<1>9. UNCHANGED consumers /\ UNCHANGED engine /\ UNCHANGED handling
  BY <1>2 DEF consumers
<1>10. ConsumersOK' /\ EngineOK' /\ FaultOK'
  BY <1>2, <1>9, PartsUnchanged
<1> QED
  BY <1>6, <1>7, <1>8, <1>10, TypePartsNext

LEMMA CancelType ==
    ASSUME TypeOK, NEW o \in Cancellable, CancelOrder(o)
    PROVE  TypeOK'
<1>1. /\ o \in ToSet(placed) /\ o \in Order
      /\ rows' = [rows EXCEPT ![o].status = "cancelled"]
      /\ cancels' = [cancels EXCEPT ![o] = @ + 1]
      /\ publishing' = publishing \cup {Request("cancelled", o, cancels'[o])}
      /\ UNCHANGED <<placed, tradeRows, log, consumers, engine, fault>>
  BY BoundsAssumption DEF CancelOrder, fn_cancel_order
<1>2. StoreOK'
  BY <1>1 DEF StoreOK, TypeOK
<1>3. ApiOK'
  <2>1. cancels \in [Order -> Nat] /\ cancels' \in [Order -> Nat]
    BY <1>1 DEF TypeOK
  <2>2. \A x \in Order : cancels[x] <= cancels'[x]
    BY <1>1, <2>1
  <2>3. cancels'[o] \in 1..cancels'[o]
    BY <1>1, <2>1
  <2>4. Request("cancelled", o, cancels'[o]) \in
            [topic : EngineTopic, order : ToSet(placed), nth : 1..cancels'[o] \cup {1}]
    BY <1>1, <2>3 DEF Request, EngineTopic
  <2>5. Request("cancelled", o, cancels'[o]).order = o
    BY DEF Request
  <2>6. ASSUME NEW r \in publishing
        PROVE  r \in [topic : EngineTopic, order : ToSet(placed), nth : 1..cancels'[r.order] \cup {1}]
    <3>1. r \in [topic : EngineTopic, order : ToSet(placed), nth : 1..cancels[r.order] \cup {1}]
      BY DEF TypeOK
    <3>2. r.order \in Order
      BY <3>1, RowFacts
    <3>3. 1..cancels[r.order] \subseteq 1..cancels'[r.order]
      BY <2>1, <2>2, <3>2
    <3> QED
      BY <3>1, <3>3
  <2> QED
    BY <1>1, <2>1, <2>4, <2>5, <2>6 DEF ApiOK
<1>4. UNCHANGED <<placed, log>> /\ UNCHANGED <<log, consumers>> /\ UNCHANGED <<handling, engine>>
  BY <1>1 DEF consumers
<1>5. LogOK' /\ ConsumersOK' /\ EngineOK' /\ FaultOK'
  BY <1>1, <1>4, PartsUnchanged
<1> QED
  BY <1>2, <1>3, <1>5, TypePartsNext

LEMMA RequestType ==
    ASSUME TypeOK, NEW r \in publishing,
           PublishRequest(r) \/ RepeatRequest(r) \/ LoseRequest(r)
    PROVE  TypeOK'
<1>1. r.topic \in EngineTopic /\ r.topic \in Topic /\ r.order \in ToSet(placed)
  BY DEF TypeOK, EngineTopic, Topic
<1>2. UNCHANGED <<store, cancels, consumers, engine>> /\ publishing' \subseteq publishing
  BY DEF PublishRequest, RepeatRequest, LoseRequest, api
<1>3. StoreOK' /\ EngineOK'
  BY <1>2, PartsUnchanged DEF consumers
<1>4. ApiOK'
  BY <1>2 DEF ApiOK, TypeOK, store
<1>5. LogOK' /\ ConsumersOK'
  <2>1. CASE UNCHANGED log
    BY <1>2, <2>1, PartsUnchanged DEF store
  <2>2. CASE Published(r.topic, r.order)
    <3>1. PICK t \in Topic, o \in ToSet(placed) : t = r.topic /\ o = r.order /\ t \in EngineTopic
      BY <1>1
    <3>2. t # "rejected" /\ t # "matched"
      BY <3>1 DEF EngineTopic
    <3>3. Published(t, o) /\ UNCHANGED placed /\ UNCHANGED consumers
      BY <1>2, <2>2, <3>1 DEF store
    <3> QED
      BY <3>1, <3>2, <3>3, PublishedFacts
  <2> QED
    BY <2>1, <2>2 DEF PublishRequest, RepeatRequest, LoseRequest
<1>6. FaultOK'
  <2>1. UNCHANGED fault \/ Suffer({"repeatedRequest"}) \/ Suffer({"lostRequest"})
    BY DEF PublishRequest, RepeatRequest, LoseRequest
  <2> QED
    BY <2>1, PartsUnchanged, SufferFacts
<1> QED
  BY <1>3, <1>4, <1>5, <1>6, TypePartsNext

LEMMA CommitType ==
    ASSUME TypeOK, NEW t \in Topic, CommitMessages(t) \/ CommitFails(t)
    PROVE  TypeOK'
<1>1. /\ t = "created" => outbox = <<>>
      /\ UNCHANGED <<store, api, log, position, engine>>
      /\ handling' = [handling EXCEPT ![t] = FALSE]
      /\ committed' = [committed EXCEPT ![t] = position[t]] \/ committed' = committed
  BY DEF CommitMessages, CommitFails
<1>2. StoreOK' /\ ApiOK' /\ LogOK'
  BY <1>1, PartsUnchanged DEF store
<1>3. ConsumersOK'
  <2>1. /\ position \in [Topic -> Nat] /\ committed \in [Topic -> Nat]
        /\ handling \in [Topic -> BOOLEAN]
        /\ \A u \in Topic : committed[u] <= position[u] /\ position[u] <= Len(log[u])
    BY DEF TypeOK
  <2>2. handling' \in [Topic -> BOOLEAN] /\ position' = position /\ log' = log
    BY <1>1, <2>1
  <2>3. committed' \in [Topic -> Nat]
    BY <1>1, <2>1
  <2>4. \A u \in Topic : committed'[u] <= position[u]
    BY <1>1, <2>1
  <2> QED
    BY <2>1, <2>2, <2>3, <2>4 DEF ConsumersOK
<1>4. EngineOK'
  <2>1. book' = book /\ outbox' = outbox
    BY <1>1 DEF engine
  <2>2. outbox' # <<>> => handling'["created"]
    <3>1. "created" \in Topic /\ handling \in [Topic -> BOOLEAN]
      BY DEF TypeOK, Topic
    <3> QED
      BY <1>1, <2>1, <3>1 DEF TypeOK
  <2> QED
    BY <2>1, <2>2 DEF EngineOK, TypeOK
<1>5. FaultOK'
  BY PartsUnchanged, SufferFacts DEF CommitMessages, CommitFails
<1> QED
  BY <1>2, <1>3, <1>4, <1>5, TypePartsNext

\* The orders and the books an order that is fetched is matched with.
LEMMA CreatedFacts ==
    ASSUME TypeOK, ProcessCreated
    PROVE  /\ Fetch("created") /\ Message("created") \in ToSet(placed)
           /\ Message("created") = log["created"][position["created"] + 1]
           /\ UNCHANGED <<store, api, log, fault>>
           /\ book[Opposite(rows[Message("created")].side)] \in Seq(Entry)
<1>1. Fetch("created") /\ UNCHANGED <<store, api, log, fault>> /\ "created" \in Topic
  BY DEF ProcessCreated, Topic
<1>2. /\ position["created"] + 1 \in DOMAIN log["created"]
      /\ Message("created") = log["created"][position["created"] + 1]
  BY <1>1, FetchFacts
<1>3. log["created"] \in Seq(ToSet(placed))
  BY DEF TypeOK, EngineTopic
<1>4. Message("created") \in ToSet(placed)
  BY <1>2, <1>3, SeqFacts
<1>5. book[Opposite(rows[Message("created")].side)] \in Seq(Entry)
  <2>1. Opposite(rows[Message("created")].side) \in Side
    BY <1>4, RowFacts
  <2> QED
    BY <2>1 DEF TypeOK
<1> QED
  BY <1>1, <1>2, <1>4, <1>5

LEMMA EnvelopeFacts ==
    /\ \A o \in Order : Envelope("rejected", o) \in Result
    /\ \A f \in Fill : Envelope("matched", f) \in Result
    /\ \A e \in Result : \/ e.topic = "matched" /\ e.body \in Fill
                         \/ e.topic = "rejected" /\ e.body \in Order
  BY DEF Envelope, Result

LEMMA ProcessCreatedType ==
    ASSUME TypeOK, ProcessCreated
    PROVE  TypeOK'
<1>1. PICK o \in ToSet(placed) : o = Message("created")
  BY CreatedFacts
<1>2. PICK side \in Side, opposite \in Side :
            side = rows[o].side /\ opposite = Opposite(side) /\ opposite # side
  <2>1. rows[o].side \in Side /\ Opposite(rows[o].side) \in Side
    BY RowFacts
  <2> QED
    BY <2>1 DEF Side, Opposite
<1>3. book[opposite] \in Seq(Entry)
  BY <1>2 DEF TypeOK
<1>4. PICK m \in Acc : m = Matching(o, book[opposite])
  BY <1>3, MatchingType
<1>5. \/ outbox' = <<Envelope("rejected", o)>> /\ UNCHANGED book
      \/ /\ outbox' = [i \in DOMAIN m.fills |-> Envelope("matched", m.fills[i])]
         /\ book' = [book EXCEPT
                ![opposite] = m.kept,
                ![side] = IF m.left > 0 THEN Append(@, [id |-> o, left |-> m.left]) ELSE @]
  BY <1>1, <1>2, <1>4 DEF ProcessCreated
<1>6. o \in Order
  BY RowFacts
<1>7. outbox' \in Seq(Result)
  <2>1. <<Envelope("rejected", o)>> \in Seq(Result)
    BY <1>6, EnvelopeFacts
  <2>2. [i \in DOMAIN m.fills |-> Envelope("matched", m.fills[i])] \in Seq(Result)
    <3>1. PICK n \in Nat : DOMAIN m.fills = 1..n /\ m.fills \in [1..n -> Fill]
      BY DEF Acc
    <3>2. [i \in 1..n |-> Envelope("matched", m.fills[i])] \in [1..n -> Result]
      BY <3>1, EnvelopeFacts
    <3> QED
      BY <3>1, <3>2
  <2> QED
    BY <1>5, <2>1, <2>2
<1>8. book' \in [Side -> Seq(Entry)]
  <2>1. book \in [Side -> Seq(Entry)] /\ m.kept \in Seq(Entry) /\ m.left \in Int
    BY DEF TypeOK, Acc
  <2>2. [id |-> o, left |-> m.left] \in Entry
    BY <1>6, <2>1 DEF Entry
  <2>3. PICK own : own = IF m.left > 0 THEN Append(book[side], [id |-> o, left |-> m.left])
                         ELSE book[side]
    OBVIOUS
  <2>4. own \in Seq(Entry)
    BY <2>1, <2>2, <2>3, AppendFacts
  <2>5. CASE UNCHANGED book
    BY <2>1, <2>5
  <2>6. CASE book' = [book EXCEPT
                ![opposite] = m.kept,
                ![side] = IF m.left > 0 THEN Append(@, [id |-> o, left |-> m.left]) ELSE @]
    <3>1. book' = [book EXCEPT ![opposite] = m.kept, ![side] = own]
      BY <1>2, <2>1, <2>3, <2>6
    <3> QED
      BY <2>1, <2>4, <3>1
  <2> QED
    BY <1>5, <2>5, <2>6
<1>9. Fetch("created") /\ UNCHANGED <<store, api, log, fault>> /\ "created" \in Topic
  BY CreatedFacts DEF Topic
<1>10. ConsumersOK' /\ handling'["created"]
  BY <1>9, FetchFacts
<1>11. EngineOK'
  BY <1>7, <1>8, <1>10 DEF EngineOK
<1>12. StoreOK' /\ ApiOK' /\ LogOK' /\ FaultOK'
  BY <1>9, PartsUnchanged DEF store
<1> QED
  BY <1>10, <1>11, <1>12, TypePartsNext

LEMMA HeadFacts ==
    ASSUME TypeOK, outbox # <<>>
    PROVE  /\ Head(outbox) \in Result /\ Tail(outbox) \in Seq(Result)
           /\ Head(outbox).topic \in {"matched", "rejected"}
           /\ Head(outbox).topic = "matched" => Head(outbox).body \in Fill
           /\ Head(outbox).topic = "rejected" => Head(outbox).body \in Order
<1>1. Head(outbox) \in Result /\ Tail(outbox) \in Seq(Result)
  BY DEF TypeOK
<1> QED
  BY <1>1 DEF Result

LEMMA ResultType ==
    ASSUME TypeOK, PublishResult \/ RepeatResult
    PROVE  TypeOK'
<1>1. /\ outbox # <<>> /\ Published(Head(outbox).topic, Head(outbox).body)
      /\ UNCHANGED <<store, api, consumers, book>>
      /\ outbox' = Tail(outbox) \/ outbox' = outbox
      /\ UNCHANGED fault \/ Suffer({"repeatedPublish"})
  BY DEF PublishResult, RepeatResult, engine
<1>2. PICK t \in {"matched", "rejected"}, body \in Order \cup Fill :
            /\ t = Head(outbox).topic /\ body = Head(outbox).body
            /\ t = "matched" => body \in Fill
            /\ t = "rejected" => body \in Order
  BY <1>1, HeadFacts
<1>3. t \in Topic /\ t \notin EngineTopic
  BY DEF Topic, EngineTopic
<1>4. Published(t, body) /\ UNCHANGED placed /\ UNCHANGED consumers
  BY <1>1, <1>2 DEF store
<1>5. LogOK' /\ ConsumersOK'
  BY <1>2, <1>3, <1>4, PublishedFacts
<1>6. StoreOK' /\ ApiOK'
  BY <1>1, PartsUnchanged DEF store
<1>7. EngineOK'
  <2>1. outbox' \in Seq(Result)
    BY <1>1, HeadFacts DEF TypeOK
  <2> QED
    BY <1>1, <2>1 DEF EngineOK, TypeOK, consumers
<1>8. FaultOK'
  BY <1>1, PartsUnchanged, SufferFacts
<1> QED
  BY <1>5, <1>6, <1>7, <1>8, TypePartsNext

LEMMA PublishFailsType ==
    ASSUME TypeOK, PublishFails
    PROVE  TypeOK'
<1>1. /\ Suffer({"failedPublish"}) /\ outbox' = <<>>
      /\ handling' = [handling EXCEPT !["created"] = FALSE]
      /\ UNCHANGED <<store, api, log, position, committed, book>>
  BY DEF PublishFails
<1>2. StoreOK' /\ ApiOK' /\ LogOK' /\ FaultOK'
  BY <1>1, PartsUnchanged, SufferFacts DEF store
<1>3. ConsumersOK'
  BY <1>1 DEF ConsumersOK, TypeOK
<1>4. EngineOK'
  BY <1>1 DEF EngineOK, TypeOK
<1> QED
  BY <1>2, <1>3, <1>4, TypePartsNext

LEMMA ProcessCancelledType ==
    ASSUME TypeOK, ProcessCancelled
    PROVE  TypeOK'
<1>1. /\ Fetch("cancelled") /\ book' = Without(Message("cancelled"))
      /\ UNCHANGED <<store, api, log, outbox, fault>> /\ "cancelled" \in Topic
  BY DEF ProcessCancelled, Topic
<1>2. ConsumersOK' /\ (handling["created"] => handling'["created"])
  BY <1>1, FetchFacts
<1>3. book' \in [Side -> Seq(Entry)]
  BY <1>1, WithoutType
<1>4. EngineOK'
  BY <1>1, <1>2, <1>3 DEF EngineOK, TypeOK
<1>5. StoreOK' /\ ApiOK' /\ LogOK' /\ FaultOK'
  BY <1>1, PartsUnchanged DEF store
<1> QED
  BY <1>2, <1>4, <1>5, TypePartsNext

LEMMA RestartType ==
    ASSUME TypeOK, RestartEngine \/ RestartEngineEmpty \/ RestartIndexer
    PROVE  TypeOK'
<1>1. PICK topics : /\ Rewound(topics)
                    /\ \/ UNCHANGED engine /\ "created" \notin topics
                       \/ outbox' = <<>>
  BY DEF RestartEngine, RestartEngineEmpty, RestartIndexer, IndexerTopic
<1>2. UNCHANGED <<store, api, log>>
  BY DEF RestartEngine, RestartEngineEmpty, RestartIndexer
<1>3. ConsumersOK' /\ ("created" \notin topics => handling'["created"] = handling["created"])
  BY <1>1, <1>2, RewoundFacts
<1>4. book' \in [Side -> Seq(Entry)]
  <2>1. CASE RestartEngine
    BY <2>1, RestoreType DEF RestartEngine
  <2>2. CASE RestartEngineEmpty
    <3>1. <<>> \in Seq(Entry)
      OBVIOUS
    <3> QED
      BY <2>2, <3>1 DEF RestartEngineEmpty
  <2>3. CASE RestartIndexer
    BY <2>3 DEF RestartIndexer, engine, TypeOK
  <2> QED
    BY <2>1, <2>2, <2>3
<1>5. EngineOK'
  <2>1. CASE UNCHANGED engine /\ "created" \notin topics
    BY <1>3, <1>4, <2>1 DEF EngineOK, TypeOK, engine
  <2>2. CASE outbox' = <<>>
    <3>1. <<>> \in Seq(Result)
      OBVIOUS
    <3> QED
      BY <1>4, <2>2, <3>1 DEF EngineOK
  <2> QED
    BY <1>1, <2>1, <2>2
<1>6. StoreOK' /\ ApiOK' /\ LogOK'
  BY <1>2, PartsUnchanged DEF store
<1>7. FaultOK'
  BY SufferFacts DEF RestartEngine, RestartEngineEmpty, RestartIndexer
<1> QED
  BY <1>3, <1>5, <1>6, <1>7, TypePartsNext

\* The message a consumer of fills or rejections takes.
LEMMA IndexerMessage ==
    ASSUME TypeOK, NEW t \in IndexerTopic, Fetch(t), UNCHANGED log
    PROVE  /\ ConsumersOK' /\ (handling["created"] => handling'["created"])
           /\ t = "matched" => Message(t) \in Fill /\ Message(t) \in ToSet(log["matched"])
           /\ t = "rejected" => Message(t) \in Order /\ Message(t) \in ToSet(log["rejected"])
<1>1. t \in Topic
  BY DEF Topic, IndexerTopic
<1>2. PICK i \in DOMAIN log[t] : Message(t) = log[t][i]
  BY <1>1, FetchFacts
<1>3. ConsumersOK' /\ (handling["created"] => handling'["created"])
  BY <1>1, FetchFacts
<1>4. log["matched"] \in Seq(Fill) /\ log["rejected"] \in Seq(Order)
  BY DEF TypeOK
<1> QED
  BY <1>2, <1>3, <1>4, SeqFacts DEF ToSet

LEMMA OrderMatchedType ==
    ASSUME TypeOK, OrderMatched
    PROVE  TypeOK'
<1>1. /\ Fetch("matched") /\ fn_process_order_matched(Message("matched"))
      /\ UNCHANGED <<placed, api, log, engine, fault>> /\ "matched" \in IndexerTopic
  BY DEF OrderMatched, IndexerTopic
<1>2. PICK f \in Fill : f = Message("matched")
  BY <1>1, IndexerMessage
<1>3. /\ rows' = [rows EXCEPT ![f.maker] = AfterFill(@, f.makerLeft),
                              ![f.taker] = AfterFill(@, f.takerLeft)]
      /\ tradeRows' = tradeRows \cup
            {[trade |-> f.trade, maker |-> f.maker, taker |-> f.taker, size |-> f.size]}
  BY <1>1, <1>2 DEF fn_process_order_matched
<1>4. /\ f.trade \in Nat \X Nat \X Nat /\ f.maker \in Order /\ f.taker \in Order
      /\ f.size \in Int /\ f.makerLeft \in Int /\ f.takerLeft \in Int
  BY DEF Fill
<1> DEFINE Row == [side : Side, size : Int, remaining : Int,
             status : {"pending", "partial", "matched", "cancelled", "rejected"}]
<1>5. \A row \in Row : \A left \in Int : AfterFill(row, left) \in Row
  BY DEF AfterFill
<1>6. rows \in [ToSet(placed) -> Row]
  BY DEF TypeOK
<1> HIDE DEF Row
<1>7. rows' \in [ToSet(placed) -> Row]
  BY <1>3, <1>4, <1>5, <1>6
<1>8. StoreOK'
  <2>1. [trade |-> f.trade, maker |-> f.maker, taker |-> f.taker, size |-> f.size]
            \in [trade : Nat \X Nat \X Nat, maker : Order, taker : Order, size : Int]
    BY <1>4
  <2>2. tradeRows' \subseteq [trade : Nat \X Nat \X Nat, maker : Order, taker : Order,
                              size : Int]
    BY <1>3, <2>1 DEF TypeOK
  <2>3. placed \in Seq(Order) /\ IsInjective(placed) /\ placed' = placed
    BY <1>1 DEF TypeOK
  <2> QED
    BY <1>7, <2>2, <2>3 DEF StoreOK, Row
<1>9. ConsumersOK' /\ (handling["created"] => handling'["created"])
  BY <1>1, IndexerMessage
<1>10. EngineOK'
  BY <1>1, <1>9 DEF EngineOK, TypeOK, engine
<1>11. ApiOK' /\ LogOK' /\ FaultOK'
  BY <1>1, PartsUnchanged
<1> QED
  BY <1>8, <1>9, <1>10, <1>11, TypePartsNext

LEMMA OrderRejectedType ==
    ASSUME TypeOK, OrderRejected
    PROVE  TypeOK'
<1>1. /\ Fetch("rejected") /\ rows' = [rows EXCEPT ![Message("rejected")].status = "rejected"]
      /\ UNCHANGED <<placed, tradeRows, api, log, engine, fault>> /\ "rejected" \in IndexerTopic
  BY DEF OrderRejected, IndexerTopic
<1>2. StoreOK'
  BY <1>1 DEF StoreOK, TypeOK
<1>3. ConsumersOK' /\ (handling["created"] => handling'["created"])
  BY <1>1, IndexerMessage
<1>4. EngineOK'
  BY <1>1, <1>3 DEF EngineOK, TypeOK, engine
<1>5. ApiOK' /\ LogOK' /\ FaultOK'
  BY <1>1, PartsUnchanged
<1> QED
  BY <1>2, <1>3, <1>4, <1>5, TypePartsNext

LEMMA DropType ==
    ASSUME TypeOK, NEW t \in IndexerTopic, DropMessage(t)
    PROVE  TypeOK'
<1>1. Suffer({"dropped"}) /\ Fetch(t) /\ UNCHANGED <<store, api, log, engine>>
  BY DEF DropMessage
<1>2. ConsumersOK' /\ (handling["created"] => handling'["created"])
  BY <1>1, IndexerMessage
<1>3. EngineOK'
  BY <1>1, <1>2 DEF EngineOK, TypeOK, engine
<1>4. StoreOK' /\ ApiOK' /\ LogOK' /\ FaultOK'
  BY <1>1, PartsUnchanged, SufferFacts DEF store
<1> QED
  BY <1>2, <1>3, <1>4, TypePartsNext

LEMMA InitType ==
    Init => TypeOK
<1> SUFFICES ASSUME Init PROVE TypeOK
  OBVIOUS
<1>1. /\ <<>> \in Seq(Order) /\ <<>> \in Seq(Order \cup Fill) /\ <<>> \in Seq(Entry)
      /\ <<>> \in Seq(ToSet(placed)) /\ <<>> \in Seq(Fill) /\ <<>> \in Seq(Result)
  OBVIOUS
<1>2. ToSet(placed) = {} /\ IsInjective(placed)
  BY DEF Init, ToSet, IsInjective
<1>3. StoreOK
  BY <1>1, <1>2 DEF Init, StoreOK
<1>4. ApiOK
  BY DEF Init, ApiOK
<1>5. LogOK
  BY <1>1 DEF Init, LogOK, Topic, EngineTopic
<1>6. ConsumersOK
  BY DEF Init, ConsumersOK, Topic
<1>7. EngineOK
  BY <1>1 DEF Init, EngineOK, Side
<1>8. FaultOK
  BY DEF Init, FaultOK
<1> QED
  BY <1>3, <1>4, <1>5, <1>6, <1>7, <1>8, TypeParts

LEMMA StepType ==
    TypeOK /\ [Next]_vars => TypeOK'
<1> SUFFICES ASSUME TypeOK, [Next]_vars PROVE TypeOK'
  OBVIOUS
<1>1. CASE UNCHANGED vars
  <2>1. /\ UNCHANGED store /\ UNCHANGED <<placed, api>> /\ UNCHANGED <<placed, log>>
        /\ UNCHANGED <<log, consumers>> /\ UNCHANGED <<handling, engine>> /\ UNCHANGED fault
    BY <1>1 DEF vars, store, consumers
  <2> QED
    BY <2>1, PartsUnchanged, TypePartsNext
<1>2. CASE Next
  BY <1>2, CreateType, CancelType, RequestType, CommitType, ProcessCreatedType,
     ResultType, PublishFailsType, ProcessCancelledType, RestartType,
     OrderMatchedType, OrderRejectedType, DropType DEF Next
<1> QED
  BY <1>1, <1>2

\* Every row, message, entry and offset is one the code can produce: only
\* orders that were placed reach the engine's topics, no group commits what it
\* has not fetched nor fetches what is not there, and results wait only while
\* their message is being handled, whatever fails or restarts.
THEOREM TypeCorrect == Spec => []TypeOK
  BY InitType, StepType, PTL DEF Spec

-----------------------------------------------------------------------------
(* What is traded of an order.                                              *)

\* The fills of an order, and the sizes that are added up.
FillsOf(o, fills) == {f \in fills : o \in {f.maker, f.taker}}

SizesOf(o, fills) == [f \in FillsOf(o, fills) |-> f.size]

LEMMA FillSizes == \A fills \in SUBSET Fill : \A f \in fills : f.size \in Int
  BY DEF Fill

LEMMA SizesFacts ==
    ASSUME NEW fills, IsFiniteSet(fills), NEW o, \A f \in fills : f.size \in Int
    PROVE  /\ IsFiniteSet(FillsOf(o, fills))
           /\ SizesOf(o, fills) \in [FillsOf(o, fills) -> Int]
<1>1. FillsOf(o, fills) \in SUBSET fills
  BY DEF FillsOf
<1>2. IsFiniteSet(FillsOf(o, fills))
  BY <1>1, FS_Subset
<1> QED
  BY <1>1, <1>2 DEF SizesOf

LEMMA TradedIsASum ==
    ASSUME NEW fills, IsFiniteSet(fills), NEW o, \A f \in fills : f.size \in Int
    PROVE  \E g : /\ Adds(g, SizesOf(o, fills), FillsOf(o, fills)) /\ g[{}] = 0
                  /\ g[FillsOf(o, fills)] = Traded(o, fills)
<1>1. PICK D : D = FillsOf(o, fills) /\ IsFiniteSet(D)
  BY SizesFacts
<1>2. PICK h \in [D -> Int] : h = SizesOf(o, fills) /\ \A f \in D : h[f] = f.size
  <2>1. SizesOf(o, fills) \in [D -> Int] /\ \A f \in D : SizesOf(o, fills)[f] = f.size
    BY <1>1, SizesFacts DEF SizesOf
  <2> QED
    BY <2>1
<1>3. PICK g : ChosenSum(g, h, D)
  BY <1>1, ChosenSumExists
<1>4. g = [s \in SUBSET D |->
              IF s = {} THEN 0 ELSE LET x == CHOOSE x \in s : TRUE IN x.size + g[s \ {x}]]
  <2>1. \A s \in SUBSET D : s # {} => (CHOOSE x \in s : TRUE) \in D
    OBVIOUS
  <2>2. \A s \in SUBSET D :
            g[s] = IF s = {} THEN 0
                   ELSE LET x == CHOOSE x \in s : TRUE IN x.size + g[s \ {x}]
    BY <1>2, <1>3, <2>1 DEF ChosenSum
  <2>3. g = [s \in SUBSET D |-> g[s]]
    BY <1>3 DEF ChosenSum
  <2> QED
    BY <2>2, <2>3
<1>5. PICK i : /\ i = [s \in SUBSET D |->
                        IF s = {} THEN 0
                        ELSE LET x == CHOOSE x \in s : TRUE IN x.size + i[s \ {x}]]
               /\ i[D] = Traded(o, fills)
  <2>1. Traded(o, fills) = MapThenSumSet(LAMBDA f : f.size, FillsOf(o, fills))
    BY Zenon DEF Traded, FillsOf
  <2>2. \E i : /\ i = [s \in SUBSET D |->
                        IF s = {} THEN 0
                        ELSE LET x == CHOOSE x \in s : TRUE IN x.size + i[s \ {x}]]
               /\ i[D] = MapThenSumSet(LAMBDA f : f.size, D)
    BY <1>4, Zenon DEF MapThenSumSet, MapThenFoldSet
  <2> QED
    BY <1>1, <2>1, <2>2, Zenon
<1>6. ChosenSum(i, h, D)
  <2>1. \A s \in SUBSET D : s # {} => (CHOOSE x \in s : TRUE) \in D
    OBVIOUS
  <2>2. \A s \in SUBSET D :
            i[s] = IF s = {} THEN 0
                   ELSE LET x == CHOOSE x \in s : TRUE IN h[x] + i[s \ {x}]
    BY <1>2, <1>5, <2>1
  <2>3. i = [s \in SUBSET D |-> i[s]]
    BY <1>5
  <2> QED
    BY <2>2, <2>3 DEF ChosenSum
<1>7. Adds(i, h, D) /\ i[{}] = 0
  BY <1>1, <1>6, ChosenSumAdds
<1> QED
  BY <1>1, <1>2, <1>5, <1>7

LEMMA TradedIsInt ==
    ASSUME NEW fills \in SUBSET Fill, IsFiniteSet(fills), NEW o
    PROVE  Traded(o, fills) \in Int
<1>1. PICK D, p : D = FillsOf(o, fills) /\ p = SizesOf(o, fills)
  OBVIOUS
<1>2. PICK g : Adds(g, p, D) /\ g[{}] = 0 /\ g[D] = Traded(o, fills)
  BY <1>1, TradedIsASum, FillSizes
<1>3. D \in SUBSET D
  OBVIOUS
<1> QED
  BY <1>2, <1>3 DEF Adds

\* A fill counts for its maker and for its taker.
LEMMA TradedMore ==
    ASSUME NEW fills \in SUBSET Fill, IsFiniteSet(fills), NEW o, NEW f \in Fill, f \notin fills
    PROVE  /\ Traded(o, fills) \in Int
           /\ Traded(o, fills \cup {f}) =
                Traded(o, fills) + (IF o \in {f.maker, f.taker} THEN f.size ELSE 0)
<1>1. PICK D, p : D = FillsOf(o, fills) /\ p = SizesOf(o, fills)
  OBVIOUS
<1>2. PICK g : Adds(g, p, D) /\ g[{}] = 0 /\ g[D] = Traded(o, fills)
  BY <1>1, TradedIsASum, FillSizes
<1>3. D \in SUBSET D /\ g[D] \in Int
  BY <1>2 DEF Adds
<1>4. PICK more \in SUBSET Fill : more = fills \cup {f} /\ IsFiniteSet(more)
  <2>1. IsFiniteSet(fills \cup {f})
    BY FS_AddElement
  <2> QED
    BY <2>1
<1>5. CASE o \notin {f.maker, f.taker}
  <2>1. FillsOf(o, more) = FillsOf(o, fills)
    BY <1>4, <1>5 DEF FillsOf
  <2>2. Traded(o, more) = Traded(o, fills)
    BY <2>1, Zenon DEF Traded, FillsOf
  <2> QED
    BY <1>2, <1>3, <1>4, <1>5, <2>2
<1>6. CASE o \in {f.maker, f.taker}
  <2>1. PICK E, k : E = FillsOf(o, more) /\ k = SizesOf(o, more)
    OBVIOUS
  <2>2. PICK h : Adds(h, k, E) /\ h[{}] = 0 /\ h[E] = Traded(o, more)
    BY <1>4, <2>1, TradedIsASum, FillSizes
  <2>3. E = D \cup {f} /\ f \notin D
    BY <1>1, <1>4, <1>6, <2>1 DEF FillsOf
  <2>4. k \in [E -> Int] /\ IsFiniteSet(D)
    BY <1>1, <1>4, <2>1, SizesFacts, FillSizes
  <2>5. k[f] = f.size /\ \A y \in D : k[y] = p[y]
    BY <1>1, <2>1, <2>3 DEF SizesOf
  <2>6. h[E] = g[D] + k[f]
    BY <1>2, <2>2, <2>3, <2>4, <2>5, SumExtend
  <2> QED
    BY <1>2, <1>3, <1>4, <1>6, <2>2, <2>5, <2>6
<1> QED
  BY <1>5, <1>6

LEMMA TradedNone ==
    ASSUME NEW fills \in SUBSET Fill, IsFiniteSet(fills), NEW o,
           \A f \in fills : o \notin {f.maker, f.taker}
    PROVE  Traded(o, fills) = 0
<1>1. PICK D, p : D = FillsOf(o, fills) /\ p = SizesOf(o, fills)
  OBVIOUS
<1>2. PICK g : Adds(g, p, D) /\ g[{}] = 0 /\ g[D] = Traded(o, fills)
  BY <1>1, TradedIsASum, FillSizes
<1>3. D = {}
  BY <1>1 DEF FillsOf
<1> QED
  BY <1>2, <1>3

\* Fills that are lost leave no more traded.
LEMMA TradedLess ==
    ASSUME NEW fills \in SUBSET Fill, IsFiniteSet(fills), NEW o, \A f \in fills : f.size > 0,
           NEW fewer \in SUBSET fills
    PROVE  /\ Traded(o, fewer) \in Int /\ Traded(o, fills) \in Int
           /\ Traded(o, fewer) <= Traded(o, fills)
<1>1. PICK D, p : D = FillsOf(o, fills) /\ p = SizesOf(o, fills)
  OBVIOUS
<1>2. PICK g : Adds(g, p, D) /\ g[{}] = 0 /\ g[D] = Traded(o, fills)
  BY <1>1, TradedIsASum, FillSizes
<1>3. p \in [D -> Int] /\ IsFiniteSet(D)
  BY <1>1, SizesFacts, FillSizes
<1>4. PICK E, k : E = FillsOf(o, fewer) /\ k = SizesOf(o, fewer)
  OBVIOUS
<1>5. IsFiniteSet(fewer) /\ fewer \in SUBSET Fill
  BY FS_Subset
<1>6. PICK h : Adds(h, k, E) /\ h[{}] = 0 /\ h[E] = Traded(o, fewer)
  BY <1>4, <1>5, TradedIsASum, FillSizes
<1>7. E \in SUBSET D /\ E \in SUBSET E /\ D \in SUBSET D /\ IsFiniteSet(E)
  BY <1>1, <1>4, <1>5, SizesFacts, FillSizes DEF FillsOf
<1>8. \A x \in E : p[x] = k[x]
  BY <1>1, <1>4, <1>7 DEF SizesOf
<1>9. g[E] = h[E]
  BY <1>2, <1>3, <1>6, <1>7, <1>8, SameSum
<1>10. \A x \in D : p[x] >= 0
  <2>1. \A x \in D : x \in fills /\ p[x] = x.size /\ p[x] \in Int
    BY <1>1, <1>3 DEF SizesOf, FillsOf
  <2> QED
    BY <2>1
<1>11. g[E] <= g[D]
  BY <1>2, <1>3, <1>7, <1>10, SumOfPart
<1>12. g[E] \in Int /\ g[D] \in Int
  BY <1>2, <1>7 DEF Adds
<1> QED
  BY <1>2, <1>6, <1>9, <1>11, <1>12

\* What rests of an order is what its entry has left.
InSide(o, side) ==
    MapThenSumSet(LAMBDA i : IF book[side][i].id = o THEN book[side][i].left ELSE 0,
                  DOMAIN book[side])

LeftsIn(o, side) ==
    [i \in DOMAIN book[side] |-> IF book[side][i].id = o THEN book[side][i].left ELSE 0]

LEMMA InSideIsASum ==
    ASSUME TypeOK, NEW side \in Side, NEW o
    PROVE  /\ LeftsIn(o, side) \in [DOMAIN book[side] -> Int] /\ IsFiniteSet(DOMAIN book[side])
           /\ \E g : /\ Adds(g, LeftsIn(o, side), DOMAIN book[side]) /\ g[{}] = 0
                     /\ g[DOMAIN book[side]] = InSide(o, side)
<1>1. PICK n \in Nat : DOMAIN book[side] = 1..n /\ book[side] \in [1..n -> Entry]
  BY DEF TypeOK
<1>2. PICK D : D = DOMAIN book[side] /\ IsFiniteSet(D)
  BY <1>1, FS_Interval
<1>3. PICK h \in [D -> Int] :
        /\ h = LeftsIn(o, side)
        /\ \A i \in D : h[i] = IF book[side][i].id = o THEN book[side][i].left ELSE 0
  <2>1. \A i \in D : book[side][i].left \in Int
    BY <1>1, <1>2 DEF Entry
  <2>2. LeftsIn(o, side) = [i \in D |-> IF book[side][i].id = o THEN book[side][i].left ELSE 0]
    BY <1>2 DEF LeftsIn
  <2>3. LeftsIn(o, side) \in [D -> Int]
    BY <2>1, <2>2
  <2> QED
    BY <2>2, <2>3
<1>4. PICK g : ChosenSum(g, h, D)
  BY <1>2, ChosenSumExists
<1>5. \A s \in SUBSET D : s # {} => (CHOOSE x \in s : TRUE) \in D
  OBVIOUS
<1>6. g = [s \in SUBSET D |->
              IF s = {} THEN 0
              ELSE LET x == CHOOSE x \in s : TRUE
                   IN  (IF book[side][x].id = o THEN book[side][x].left ELSE 0) + g[s \ {x}]]
  <2>1. \A s \in SUBSET D :
            g[s] = IF s = {} THEN 0
                   ELSE LET x == CHOOSE x \in s : TRUE
                        IN  (IF book[side][x].id = o THEN book[side][x].left ELSE 0) + g[s \ {x}]
    <3> SUFFICES ASSUME NEW s \in SUBSET D, s # {}, NEW x \in D, x = CHOOSE y \in s : TRUE
                 PROVE  g[s] = (IF book[side][x].id = o THEN book[side][x].left ELSE 0)
                                    + g[s \ {x}]
      BY <1>4, <1>5 DEF ChosenSum
    <3>1. g[s] = h[x] + g[s \ {x}]
      BY <1>4 DEF ChosenSum
    <3>2. h[x] = IF book[side][x].id = o THEN book[side][x].left ELSE 0
      BY <1>3
    <3> QED
      BY <3>1, <3>2
  <2>2. g = [s \in SUBSET D |-> g[s]]
    BY <1>4 DEF ChosenSum
  <2> QED
    BY <2>1, <2>2
<1>7. PICK j : /\ j = [s \in SUBSET D |->
                        IF s = {} THEN 0
                        ELSE LET x == CHOOSE x \in s : TRUE
                             IN  (IF book[side][x].id = o THEN book[side][x].left ELSE 0) + j[s \ {x}]]
               /\ j[D] = InSide(o, side)
  <2>1. \E j : /\ j = [s \in SUBSET D |->
                        IF s = {} THEN 0
                        ELSE LET x == CHOOSE x \in s : TRUE
                             IN  (IF book[side][x].id = o THEN book[side][x].left ELSE 0) + j[s \ {x}]]
               /\ j[D] = MapThenSumSet(
                    LAMBDA i : IF book[side][i].id = o THEN book[side][i].left ELSE 0, D)
    BY <1>6, Zenon DEF MapThenSumSet, MapThenFoldSet
  <2> QED
    BY <1>2, <2>1, Zenon DEF InSide
<1>8. ChosenSum(j, h, D)
  <2>1. \A s \in SUBSET D :
            j[s] = IF s = {} THEN 0
                   ELSE LET x == CHOOSE x \in s : TRUE IN h[x] + j[s \ {x}]
    BY <1>3, <1>5, <1>7
  <2>2. j = [s \in SUBSET D |-> j[s]]
    BY <1>7
  <2> QED
    BY <2>1, <2>2 DEF ChosenSum
<1>9. Adds(j, h, D) /\ j[{}] = 0
  BY <1>2, <1>8, ChosenSumAdds
<1> QED
  BY <1>2, <1>3, <1>7, <1>9

LEMMA InSideFacts ==
    ASSUME TypeOK, NEW side \in Side, NEW o
    PROVE  /\ InSide(o, side) \in Int
           /\ (\A i \in DOMAIN book[side] : book[side][i].id # o) => InSide(o, side) = 0
           /\ \A i \in DOMAIN book[side] :
                book[side][i].id = o
                    /\ (\A j \in DOMAIN book[side] : book[side][j].id = o => j = i)
                => InSide(o, side) = book[side][i].left
<1>1. PICK D, h : D = DOMAIN book[side] /\ h = LeftsIn(o, side)
  OBVIOUS
<1>2. h \in [D -> Int] /\ IsFiniteSet(D)
  BY <1>1, InSideIsASum
<1>3. \A i \in D : h[i] = IF book[side][i].id = o THEN book[side][i].left ELSE 0
  BY <1>1 DEF LeftsIn
<1>4. PICK g : Adds(g, h, D) /\ g[{}] = 0 /\ g[D] = InSide(o, side)
  BY <1>1, InSideIsASum
<1>5. InSide(o, side) \in Int
  <2>1. D \in SUBSET D
    OBVIOUS
  <2> QED
    BY <1>4, <2>1 DEF Adds
<1>6. ASSUME \A i \in D : book[side][i].id # o
      PROVE  InSide(o, side) = 0
  <2>1. \A i \in D : h[i] = 0
    BY <1>3, <1>6
  <2>2. g[D] = 0
    BY <1>2, <1>4, <2>1, SumOfNothing
  <2> QED
    BY <1>4, <2>2
<1>7. ASSUME NEW i \in D, book[side][i].id = o,
             \A j \in D : book[side][j].id = o => j = i
      PROVE  InSide(o, side) = book[side][i].left
  <2>1. \A j \in D \ {i} : h[j] = 0
    BY <1>3, <1>7
  <2>2. g[D] = h[i]
    BY <1>2, <1>4, <2>1, SumOfOne
  <2>3. h[i] = book[side][i].left
    BY <1>3, <1>7
  <2> QED
    BY <1>4, <2>2, <2>3
<1> QED
  BY <1>1, <1>5, <1>6, <1>7

LEMMA LeftOnBookIsASum ==
    ASSUME TypeOK, NEW o
    PROVE  LeftOnBook(o) = InSide(o, "buy") + InSide(o, "sell")
<1>1. "buy" \in Side /\ "sell" \in Side /\ Side \ {"buy"} = {"sell"} /\ {"sell"} \ {"sell"} = {}
  BY DEF Side
<1>2. PICK h \in [Side -> Int] : \A side \in Side : h[side] = InSide(o, side)
  <2>1. \A side \in Side : InSide(o, side) \in Int
    BY InSideFacts
  <2>2. [side \in Side |-> InSide(o, side)] \in [Side -> Int]
    BY <2>1
  <2> QED
    BY <2>2
<1>3. IsFiniteSet(Side)
  <2>1. IsFiniteSet({"buy"})
    BY FS_Singleton
  <2>2. IsFiniteSet({"buy"} \cup {"sell"})
    BY <2>1, FS_AddElement
  <2>3. Side = {"buy"} \cup {"sell"}
    BY DEF Side
  <2> QED
    BY <2>2, <2>3
<1>4. PICK g : ChosenSum(g, h, Side)
  BY <1>3, ChosenSumExists
<1>5. \A s \in SUBSET Side : s # {} => (CHOOSE x \in s : TRUE) \in Side
  OBVIOUS
<1>6. g = [s \in SUBSET Side |->
              IF s = {} THEN 0
              ELSE LET x == CHOOSE x \in s : TRUE IN InSide(o, x) + g[s \ {x}]]
  <2>1. \A s \in SUBSET Side :
            g[s] = IF s = {} THEN 0
                   ELSE LET x == CHOOSE x \in s : TRUE IN InSide(o, x) + g[s \ {x}]
    BY <1>2, <1>4, <1>5 DEF ChosenSum
  <2>2. g = [s \in SUBSET Side |-> g[s]]
    BY <1>4 DEF ChosenSum
  <2> QED
    BY <2>1, <2>2
<1>7. PICK j : /\ j = [s \in SUBSET Side |->
                        IF s = {} THEN 0
                        ELSE LET x == CHOOSE x \in s : TRUE IN InSide(o, x) + j[s \ {x}]]
               /\ j[Side] = LeftOnBook(o)
  <2>1. \E j : /\ j = [s \in SUBSET Side |->
                        IF s = {} THEN 0
                        ELSE LET x == CHOOSE x \in s : TRUE IN InSide(o, x) + j[s \ {x}]]
               /\ j[Side] = MapThenSumSet(LAMBDA side : InSide(o, side), Side)
    BY <1>6, Zenon DEF MapThenSumSet, MapThenFoldSet
  <2>2. LeftOnBook(o) = MapThenSumSet(LAMBDA side : InSide(o, side), Side)
    BY Zenon DEF LeftOnBook, InSide
  <2> QED
    BY <2>1, <2>2
<1>8. ChosenSum(j, h, Side)
  <2>1. \A s \in SUBSET Side :
            j[s] = IF s = {} THEN 0
                   ELSE LET x == CHOOSE x \in s : TRUE IN h[x] + j[s \ {x}]
    BY <1>2, <1>5, <1>7
  <2>2. j = [s \in SUBSET Side |-> j[s]]
    BY <1>7
  <2> QED
    BY <2>1, <2>2 DEF ChosenSum
<1>9. Adds(j, h, Side) /\ j[{}] = 0
  BY <1>3, <1>8, ChosenSumAdds
<1>10. PICK rest \in SUBSET Side : rest = {"sell"} /\ rest = Side \ {"buy"}
  BY <1>1
<1>11. j[Side] = h["buy"] + j[rest]
  BY <1>1, <1>9, <1>10, LastTerm
<1>12. j[rest] = h["sell"] + j[{}]
  <2>1. "sell" \in rest /\ rest \ {"sell"} = {}
    BY <1>1, <1>10
  <2> QED
    BY <1>9, <2>1 DEF Adds
<1>13. h["buy"] \in Int /\ h["sell"] \in Int /\ h["buy"] = InSide(o, "buy")
       /\ h["sell"] = InSide(o, "sell")
  BY <1>1, <1>2
<1> QED
  BY <1>7, <1>9, <1>11, <1>12, <1>13

-----------------------------------------------------------------------------
(* One life of the engine.                                                  *)

\* The engine has not restarted and no request was repeated.
Calm == NoFault({"engineRestart", "repeatedRequest"})

\* The orders the engine has taken from its topic.
Taken == {log["created"][i] : i \in 1..position["created"]}

\* The fills that are published or about to be, and the orders rejected.
Fills == ToSet(log["matched"]) \cup
            {m.body : m \in {n \in ToSet(outbox) : n.topic = "matched"}}

Rejects == ToSet(log["rejected"]) \cup
            {m.body : m \in {n \in ToSet(outbox) : n.topic = "rejected"}}

\* An order is announced once: what waits to be published has not been.
AnnouncedOnce ==
    /\ \A r \in publishing :
        r.topic = "created" => r.nth = 1 /\ r.order \notin ToSet(log["created"])
    /\ IsInjective(log["created"])

IdsDiffer(s) == \A i, j \in DOMAIN s : s[i].id = s[j].id => i = j

\* Only orders the engine has taken rest, each once, each on its own side.
RestsOnce ==
    /\ \A side \in Side :
        /\ IdsDiffer(book[side])
        /\ \A i \in DOMAIN book[side] :
            /\ book[side][i].id \in Taken
            /\ rows[book[side][i].id].side = side

\* Fills are of orders the engine has taken, and a new one has a new id.
FillsAreSound ==
    \A f \in Fills :
        /\ f.size > 0
        /\ {f.maker, f.taker} \subseteq Taken
        /\ f.trade[2] < position["created"]

\* What was traded and what rests fit into the size.
WithinSize ==
    /\ \A o \in ToSet(placed) :
        rows[o].size > 0 => Traded(o, Fills) <= rows[o].size
    /\ \A side \in Side : \A i \in DOMAIN book[side] :
        LET e == book[side][i]
        IN  e.left > 0 /\ Traded(e.id, Fills) + e.left <= rows[e.id].size

\* No fill left an order with less than rests of it, and so neither does its
\* row show less, or that it is closed, unless it was cancelled.  Only orders
\* of no size are rejected, and the row of an order the engine has not taken
\* is as it was inserted.
RowsShowNoLess ==
    /\ \A o \in Rejects : o \in Taken /\ rows[o].size <= 0
    /\ \A o \in ToSet(placed) \ Taken :
        /\ rows[o].remaining = rows[o].size
        /\ cancels[o] = 0 => Open(o)
    /\ \A side \in Side : \A i \in DOMAIN book[side] :
        LET e == book[side][i]
        IN  /\ e.left <= rows[e.id].size
            /\ \A f \in Fills : /\ f.maker = e.id => e.left <= f.makerLeft
                                /\ f.taker = e.id => e.left <= f.takerLeft
            /\ cancels[e.id] = 0 => Open(e.id) /\ e.left <= rows[e.id].remaining

LifeParts ==
    AnnouncedOnce /\ RestsOnce /\ FillsAreSound /\ WithinSize /\ RowsShowNoLess

\* The inductive invariant.
LifeInv == Calm => LifeParts

\* The walk past the first k of the makers: what it keeps are entries it met
\* with no more left, what it trades is of the taker and a maker it met, each
\* fill under its own number, and no fill shows less than is left.
FillShape(f, n, acc, k, o, makers) ==
    /\ f.size > 0 /\ f.taker = o /\ acc.left <= f.takerLeft
    /\ f.trade[2] = position["created"] /\ f.trade[3] = n - 1
    /\ \E i \in 1..k : f.maker = makers[i].id
    /\ \A j \in DOMAIN acc.kept :
        f.maker = acc.kept[j].id => acc.kept[j].left <= f.makerLeft

Shape(acc, k, o, makers) ==
    /\ acc.left >= 0
    /\ IdsDiffer(acc.kept)
    /\ \A j \in DOMAIN acc.kept :
        /\ acc.kept[j].left > 0
        /\ \E i \in 1..k : acc.kept[j].id = makers[i].id /\ acc.kept[j].left <= makers[i].left
    /\ \A n \in DOMAIN acc.fills : FillShape(acc.fills[n], n, acc, k, o, makers)

\* One maker: the size that is traded, the fill, and what is kept.
Met(acc, m, o, next, size, fill, kept) ==
    /\ size = IF acc.left <= m.left THEN acc.left ELSE m.left
    /\ fill.size = size /\ fill.maker = m.id /\ fill.taker = o
    /\ fill.makerLeft = m.left - size /\ fill.takerLeft = acc.left - size
    /\ fill.trade[2] = position["created"] /\ fill.trade[3] = Len(acc.fills)
    /\ kept.id = m.id /\ kept.left = m.left - size
    /\ next.left = acc.left - size
    /\ next.fills = IF size > 0 THEN Append(acc.fills, fill) ELSE acc.fills
    /\ next.kept = IF m.left > size THEN Append(acc.kept, kept) ELSE acc.kept

LEMMA MeetFacts ==
    ASSUME TypeOK, NEW acc \in Acc, NEW m \in Entry, NEW o \in Order
    PROVE  \E size \in Int, fill \in Fill, kept \in Entry :
                Met(acc, m, o, Meet(acc, m, o), size, fill, kept)
<1>1. acc.left \in Int /\ m.left \in Int /\ m.id \in Order /\ Len(acc.fills) \in Nat
      /\ m = [id |-> m.id, left |-> m.left]
  BY DEF Acc, Entry
<1>2. PICK size \in Int : /\ size = Min({acc.left, m.left})
                          /\ size = IF acc.left <= m.left THEN acc.left ELSE m.left
  BY <1>1, MinFacts
<1>3. PICK life \in Nat, p \in Nat : life = fault["engineRestart"] /\ p = position["created"]
  BY DEF TypeOK, FaultKind, Topic
<1> DEFINE fill == [trade |-> <<life, p, Len(acc.fills)>>, maker |-> m.id, taker |-> o,
                    size |-> size, makerLeft |-> m.left - size, takerLeft |-> acc.left - size]
           kept == [m EXCEPT !.left = @ - size]
           next == Meet(acc, m, o)
<1>4. fill \in Fill
  BY <1>1, <1>2, <1>3 DEF Fill
<1>5. kept \in Entry /\ kept.id = m.id /\ kept.left = m.left - size
  BY <1>1, <1>2 DEF Entry
<1>6. next = [left  |-> acc.left - size,
              fills |-> IF size > 0 THEN Append(acc.fills, fill) ELSE acc.fills,
              kept  |-> IF m.left > size THEN Append(acc.kept, kept) ELSE acc.kept]
  BY <1>2, <1>3 DEF Meet
<1>7. /\ next.left = acc.left - size
      /\ next.fills = IF size > 0 THEN Append(acc.fills, fill) ELSE acc.fills
      /\ next.kept = IF m.left > size THEN Append(acc.kept, kept) ELSE acc.kept
  <2> HIDE DEF fill, kept, next
  <2> QED
    BY <1>6
<1>8. /\ fill.size = size /\ fill.maker = m.id /\ fill.taker = o
      /\ fill.makerLeft = m.left - size /\ fill.takerLeft = acc.left - size
      /\ fill.trade[2] = p /\ fill.trade[3] = Len(acc.fills)
  OBVIOUS
<1>9. Met(acc, m, o, next, size, fill, kept)
  <2> HIDE DEF fill, kept, next
  <2> QED
    BY <1>2, <1>3, <1>5, <1>7, <1>8 DEF Met
<1> QED
  <2> HIDE DEF fill, kept
  <2> QED
    BY <1>4, <1>5, <1>9

LEMMA AppendIndex ==
    ASSUME NEW S, NEW s \in Seq(S), NEW e
    PROVE  /\ Len(s) \in Nat /\ DOMAIN s = 1..Len(s)
           /\ DOMAIN Append(s, e) = 1..(Len(s) + 1)
           /\ \A i \in 1..Len(s) : Append(s, e)[i] = s[i]
           /\ Append(s, e)[Len(s) + 1] = e
  OBVIOUS

LEMMA ShapeStep ==
    ASSUME TypeOK, NEW makers \in Seq(Entry), IdsDiffer(makers),
           \A i \in DOMAIN makers : makers[i].left > 0,
           NEW o \in Order, NEW k \in 1..Len(makers),
           NEW acc \in Acc, Shape(acc, k - 1, o, makers)
    PROVE  Shape(Meet(acc, makers[k], o), k, o, makers)
<1>1. PICK m \in Entry : m = makers[k] /\ m.left > 0 /\ k \in DOMAIN makers
  OBVIOUS
<1>2. acc.left \in Int /\ acc.left >= 0 /\ m.left \in Int
      /\ acc.fills \in Seq(Fill) /\ acc.kept \in Seq(Entry)
  BY DEF Acc, Entry, Shape
<1>4. PICK next \in Acc : next = Meet(acc, m, o)
  BY <1>1, MeetType
<1>3. PICK size \in Int, fill \in Fill, kept \in Entry :
            Met(acc, m, o, next, size, fill, kept)
  BY <1>4, MeetFacts
<1> USE <1>3 DEF Met
<1>5. size >= 0 /\ next.left >= 0 /\ next.left <= acc.left /\ fill.takerLeft = next.left
  <2>1. next.left = acc.left - size /\ size = IF acc.left <= m.left THEN acc.left ELSE m.left
    OBVIOUS
  <2> QED
    BY <1>1, <1>2, <2>1
<1>6. \A j \in DOMAIN acc.kept : acc.kept[j].id # m.id
  <2> SUFFICES ASSUME NEW j \in DOMAIN acc.kept, acc.kept[j].id = m.id
               PROVE  FALSE
    OBVIOUS
  <2>1. PICK i \in 1..(k - 1) : acc.kept[j].id = makers[i].id
    BY DEF Shape, FillShape
  <2>2. i \in DOMAIN makers /\ i # k
    OBVIOUS
  <2> QED
    BY <1>1, <2>1, <2>2 DEF IdsDiffer
<1>7. \A n \in DOMAIN acc.fills : acc.fills[n].maker # m.id
  <2> SUFFICES ASSUME NEW n \in DOMAIN acc.fills, acc.fills[n].maker = m.id
               PROVE  FALSE
    OBVIOUS
  <2>1. PICK i \in 1..(k - 1) : acc.fills[n].maker = makers[i].id
    BY DEF Shape, FillShape
  <2>2. i \in DOMAIN makers /\ i # k
    OBVIOUS
  <2> QED
    BY <1>1, <2>1, <2>2 DEF IdsDiffer
\* What is kept is what was, or the maker.
<1>8. ASSUME NEW j \in DOMAIN next.kept
      PROVE  \/ j \in DOMAIN acc.kept /\ next.kept[j] = acc.kept[j]
             \/ j \notin DOMAIN acc.kept /\ j = Len(acc.kept) + 1 /\ next.kept[j] = kept
                /\ m.left > size
  <2>1. next.kept = IF m.left > size THEN Append(acc.kept, kept) ELSE acc.kept
    OBVIOUS
  <2>2. CASE m.left > size
    BY <1>2, <1>8, <2>1, <2>2, AppendIndex
  <2>3. CASE ~ (m.left > size)
    BY <1>8, <2>1, <2>3
  <2> QED
    BY <2>2, <2>3
<1>9. ASSUME NEW n \in DOMAIN next.fills
      PROVE  \/ n \in DOMAIN acc.fills /\ next.fills[n] = acc.fills[n]
             \/ n \notin DOMAIN acc.fills /\ n = Len(acc.fills) + 1 /\ next.fills[n] = fill
                /\ size > 0
  <2>1. next.fills = IF size > 0 THEN Append(acc.fills, fill) ELSE acc.fills
    OBVIOUS
  <2>2. CASE size > 0
    BY <1>2, <1>9, <2>1, <2>2, AppendIndex
  <2>3. CASE ~ (size > 0)
    BY <1>9, <2>1, <2>3
  <2> QED
    BY <2>2, <2>3
<1>10. \A j \in DOMAIN next.kept :
        /\ next.kept[j].left > 0
        /\ \E i \in 1..k : next.kept[j].id = makers[i].id /\ next.kept[j].left <= makers[i].left
  <2> SUFFICES ASSUME NEW j \in DOMAIN next.kept
               PROVE  /\ next.kept[j].left > 0
                      /\ \E i \in 1..k : /\ next.kept[j].id = makers[i].id
                                         /\ next.kept[j].left <= makers[i].left
    OBVIOUS
  <2>1. CASE j \in DOMAIN acc.kept /\ next.kept[j] = acc.kept[j]
    <3>1. PICK i \in 1..(k - 1) : /\ acc.kept[j].id = makers[i].id
                                  /\ acc.kept[j].left <= makers[i].left
      BY <2>1 DEF Shape
    <3>2. i \in 1..k
      OBVIOUS
    <3> QED
      BY <2>1, <3>1, <3>2 DEF Shape
  <2>2. CASE next.kept[j] = kept /\ m.left > size
    <3>1. kept.left = m.left - size /\ kept.id = m.id
      BY <1>3
    <3>2. kept.left > 0 /\ kept.left <= m.left /\ k \in 1..k
      BY <1>2, <1>5, <2>2, <3>1
    <3> QED
      BY <1>1, <2>2, <3>1, <3>2
  <2> QED
    BY <1>8, <2>1, <2>2
<1>11. IdsDiffer(next.kept)
  <2> SUFFICES ASSUME NEW i \in DOMAIN next.kept, NEW j \in DOMAIN next.kept,
                      next.kept[i].id = next.kept[j].id
               PROVE  i = j
    BY DEF IdsDiffer
  <2>1. kept.id = m.id
    BY <1>3
  <2> QED
    BY <1>6, <1>8, <2>1 DEF Shape, IdsDiffer
<1>12. ASSUME NEW n \in DOMAIN next.fills
        PROVE  FillShape(next.fills[n], n, next, k, o, makers)
  <2>1. CASE n \in DOMAIN acc.fills /\ next.fills[n] = acc.fills[n]
    <3>1. PICK f \in Fill : f = acc.fills[n]
      BY <1>2, <2>1
    <3>2. /\ f.size > 0 /\ f.taker = o /\ acc.left <= f.takerLeft
          /\ f.trade[2] = position["created"] /\ f.trade[3] = n - 1
          /\ \E i \in 1..(k - 1) : f.maker = makers[i].id
          /\ \A j \in DOMAIN acc.kept :
                f.maker = acc.kept[j].id => acc.kept[j].left <= f.makerLeft
      BY <2>1, <3>1 DEF Shape, FillShape
    <3>3. next.left <= f.takerLeft
      <4>1. f.takerLeft \in Int /\ next.left \in Int
        BY DEF Fill, Acc
      <4> QED
        BY <1>2, <1>5, <3>2, <4>1
    <3>4. \E i \in 1..k : f.maker = makers[i].id
      <4>1. PICK i \in 1..(k - 1) : f.maker = makers[i].id
        BY <3>2
      <4>2. i \in 1..k
        OBVIOUS
      <4> QED
        BY <4>1, <4>2
    <3>5. ASSUME NEW j \in DOMAIN next.kept, f.maker = next.kept[j].id
          PROVE  next.kept[j].left <= f.makerLeft
      <4>1. f.maker # m.id /\ kept.id = m.id
        BY <1>3, <1>7, <2>1, <3>1
      <4> QED
        BY <1>8, <3>2, <3>5, <4>1
    <3>6. FillShape(f, n, next, k, o, makers)
      BY <3>2, <3>3, <3>4, <3>5 DEF FillShape
    <3> QED
      BY <2>1, <3>1, <3>6
  <2>2. CASE n = Len(acc.fills) + 1 /\ next.fills[n] = fill /\ size > 0
    <3>1. fill.trade[3] = n - 1
      BY <1>2, <1>3, <2>2
    <3>2. \E i \in 1..k : fill.maker = makers[i].id
      BY <1>1, <1>3
    <3>3. ASSUME NEW j \in DOMAIN next.kept, fill.maker = next.kept[j].id
          PROVE  next.kept[j].left <= fill.makerLeft
      <4>1. next.kept[j] = kept
        BY <1>3, <1>6, <1>8, <3>3
      <4>2. next.kept[j].left = fill.makerLeft
        BY <4>1
      <4>3. fill.makerLeft \in Int
        BY DEF Fill
      <4> QED
        BY <4>2, <4>3
    <3>4. next.left <= fill.takerLeft
      <4>1. next.left \in Int
        BY DEF Acc
      <4> QED
        BY <1>5, <4>1
    <3>5. fill.size > 0 /\ fill.taker = o /\ fill.trade[2] = position["created"]
      BY <2>2
    <3>6. FillShape(fill, n, next, k, o, makers)
      <4> HIDE <1>3
      <4> QED
        BY <3>1, <3>2, <3>3, <3>4, <3>5 DEF FillShape
    <3> QED
      BY <2>2, <3>6
  <2> QED
    BY <1>9, <2>1, <2>2
<1>13. Shape(next, k, o, makers)
  BY <1>5, <1>10, <1>11, <1>12 DEF Shape
<1> QED
  BY <1>1, <1>4, <1>13

\* What is left of a maker that is kept: what it had, less what was traded.
KeptOf(e, m, fills, all) ==
    /\ e.id = m.id
    /\ Traded(m.id, all) + e.left = Traded(m.id, fills) + m.left

\* How much was traded on the walk past the first k of the makers: of the taker
\* what it has no longer; of a maker it met all of it, or all but what is kept;
\* of the others nothing.
RoomFor(acc, k, o, makers, fills, all) ==
    /\ Traded(o, all) + acc.left = rows[o].size
    /\ \A j \in DOMAIN acc.kept : \E i \in 1..k : KeptOf(acc.kept[j], makers[i], fills, all)
    /\ \A i \in 1..k :
        \/ Traded(makers[i].id, all) = Traded(makers[i].id, fills) + makers[i].left
        \/ \E j \in DOMAIN acc.kept : KeptOf(acc.kept[j], makers[i], fills, all)
    /\ \A i \in DOMAIN makers : k < i => Traded(makers[i].id, all) = Traded(makers[i].id, fills)

Room(acc, k, o, makers, fills) ==
    RoomFor(acc, k, o, makers, fills, fills \cup ToSet(acc.fills))

\* The fills from before the walk are older than its own.
Older(fills) == \A f \in fills : f.trade[2] < position["created"]

LEMMA ToSetFinite ==
    ASSUME NEW S, NEW s \in Seq(S)
    PROVE  IsFiniteSet(ToSet(s)) /\ ToSet(s) \in SUBSET S
<1>1. PICK n \in Nat : DOMAIN s = 1..n /\ s \in [1..n -> S]
  OBVIOUS
<1>2. PICK D : D = 1..n /\ IsFiniteSet(D)
  BY FS_Interval
<1>3. PICK T : T = ToSet(s)
  OBVIOUS
<1>4. s \in Surjection(D, T)
  BY <1>1, <1>2, <1>3 DEF ToSet, Surjection
<1>5. IsFiniteSet(T)
  BY <1>2, <1>4, FS_Surjection
<1> QED
  BY <1>1, <1>3, <1>5 DEF ToSet

LEMMA RoomStep ==
    ASSUME TypeOK, NEW makers \in Seq(Entry), IdsDiffer(makers),
           \A i \in DOMAIN makers : makers[i].left > 0 /\ makers[i].id \in ToSet(placed),
           NEW o \in ToSet(placed), \A i \in DOMAIN makers : makers[i].id # o,
           NEW fills \in SUBSET Fill, IsFiniteSet(fills), Older(fills),
           NEW k \in 1..Len(makers),
           NEW acc \in Acc, Shape(acc, k - 1, o, makers), Room(acc, k - 1, o, makers, fills)
    PROVE  Room(Meet(acc, makers[k], o), k, o, makers, fills)
<1>1. PICK m \in Entry : /\ m = makers[k] /\ m.left > 0 /\ m.id \in ToSet(placed)
                         /\ m.id # o /\ k \in DOMAIN makers
  OBVIOUS
<1>2. /\ acc.left \in Int /\ acc.left >= 0 /\ m.left \in Int
      /\ acc.fills \in Seq(Fill) /\ acc.kept \in Seq(Entry) /\ o \in Order
  BY SeqFacts DEF Acc, Entry, Shape, TypeOK
<1>3. PICK next \in Acc : next = Meet(acc, m, o)
  BY <1>1, <1>2, MeetType
<1>4. PICK size \in Int, fill \in Fill, kept \in Entry :
            Met(acc, m, o, next, size, fill, kept)
  BY <1>2, <1>3, MeetFacts
<1>5. /\ size >= 0 /\ size <= acc.left /\ size <= m.left /\ next.left = acc.left - size
      /\ fill.size = size /\ fill.maker = m.id /\ fill.taker = o
      /\ kept.id = m.id /\ kept.left = m.left - size
  <2>1. size = IF acc.left <= m.left THEN acc.left ELSE m.left
    BY <1>4 DEF Met
  <2>2. size >= 0 /\ size <= acc.left /\ size <= m.left
    BY <1>1, <1>2, <2>1
  <2> QED
    BY <1>4, <2>2 DEF Met
<1>6. PICK all \in SUBSET Fill : all = fills \cup ToSet(acc.fills) /\ IsFiniteSet(all)
  <2>1. IsFiniteSet(ToSet(acc.fills)) /\ ToSet(acc.fills) \in SUBSET Fill
    BY <1>2, ToSetFinite
  <2>2. IsFiniteSet(fills \cup ToSet(acc.fills))
    BY <2>1, FS_Union
  <2> QED
    BY <2>1, <2>2
<1>7. RoomFor(acc, k - 1, o, makers, fills, all)
  BY <1>6 DEF Room
<1>8. PICK more \in SUBSET Fill : more = fills \cup ToSet(next.fills)
  <2>1. next.fills \in Seq(Fill)
    BY DEF Acc
  <2> QED
    BY <2>1, ToSetFinite
<1>9. ASSUME NEW j \in DOMAIN next.kept
      PROVE  \/ \E i \in DOMAIN acc.kept : next.kept[j] = acc.kept[i]
             \/ next.kept[j] = kept
  <2>1. next.kept = IF m.left > size THEN Append(acc.kept, kept) ELSE acc.kept
    BY <1>4 DEF Met
  <2>2. CASE m.left > size
    BY <1>2, <1>9, <2>1, <2>2, AppendIndex
  <2>3. CASE ~ (m.left > size)
    BY <1>9, <2>1, <2>3
  <2> QED
    BY <2>2, <2>3
<1>10. \A j \in DOMAIN acc.kept : acc.kept[j].id # m.id /\ acc.kept[j].id # o
                                  /\ acc.kept[j].id \in ToSet(placed)
  <2> SUFFICES ASSUME NEW j \in DOMAIN acc.kept
               PROVE  acc.kept[j].id # m.id /\ acc.kept[j].id # o
                      /\ acc.kept[j].id \in ToSet(placed)
    OBVIOUS
  <2>1. PICK i \in 1..(k - 1) : acc.kept[j].id = makers[i].id
    BY DEF Shape
  <2>2. i \in DOMAIN makers /\ i # k
    OBVIOUS
  <2> QED
    BY <1>1, <2>1, <2>2 DEF IdsDiffer
<1>11. \A x : Traded(x, all) \in Int
  BY <1>6, TradedIsInt
\* What the fill adds to what was traded.
<1>12. \A x : Traded(x, more) = Traded(x, all) + (IF x \in {m.id, o} THEN size ELSE 0)
  <2>1. next.fills = IF size > 0 THEN Append(acc.fills, fill) ELSE acc.fills
    BY <1>4 DEF Met
  <2>2. CASE size > 0
    <3>1. ToSet(next.fills) = ToSet(acc.fills) \cup {fill}
      BY <1>2, <2>1, <2>2, AppendFacts
    <3>2. more = all \cup {fill}
      BY <1>6, <1>8, <3>1
    <3>3. fill.trade[2] = position["created"] /\ fill.trade[3] = Len(acc.fills)
      BY <1>4 DEF Met
    <3>4. fill \notin fills
      <4>1. position["created"] \in Int
        BY DEF TypeOK, Topic
      <4> QED
        BY <3>3, <4>1 DEF Older
    <3>5. fill \notin ToSet(acc.fills)
      <4> SUFFICES ASSUME NEW n \in DOMAIN acc.fills, fill = acc.fills[n]
                   PROVE  FALSE
        BY DEF ToSet
      <4>1. fill.trade[3] = n - 1
        BY DEF Shape, FillShape
      <4>2. n \in 1..Len(acc.fills) /\ Len(acc.fills) \in Nat
        BY <1>2
      <4> QED
        BY <3>3, <4>1, <4>2
    <3>6. \A x : Traded(x, all \cup {fill}) =
                    Traded(x, all) + (IF x \in {fill.maker, fill.taker} THEN fill.size ELSE 0)
      BY <1>6, <3>4, <3>5, TradedMore
    <3> QED
      BY <1>5, <3>2, <3>6
  <2>3. CASE size = 0
    <3>1. more = all
      BY <1>6, <1>8, <2>1, <2>3
    <3> QED
      BY <1>11, <2>3, <3>1
  <2> QED
    BY <1>5, <2>2, <2>3
<1>13. Traded(m.id, all) = Traded(m.id, fills) /\ Traded(o, all) + acc.left = rows[o].size
  <2>1. k - 1 < k
    OBVIOUS
  <2> QED
    BY <1>1, <1>7, <2>1 DEF RoomFor
<1>14. Traded(o, more) + next.left = rows[o].size
  <2>1. Traded(o, more) = Traded(o, all) + size
    BY <1>12
  <2> QED
    BY <1>2, <1>5, <1>11, <1>13, <2>1
<1>15. \A i \in DOMAIN makers : i # k => Traded(makers[i].id, more) = Traded(makers[i].id, all)
  <2> SUFFICES ASSUME NEW i \in DOMAIN makers, i # k, NEW x, x = makers[i].id
               PROVE  Traded(x, more) = Traded(x, all)
    OBVIOUS
  <2>1. x # m.id /\ x # o
    BY <1>1 DEF IdsDiffer
  <2>2. Traded(x, more) = Traded(x, all) + 0
    BY <1>12, <2>1
  <2> QED
    BY <1>11, <2>2
<1>16. \A i \in DOMAIN acc.kept : \E j \in DOMAIN next.kept : next.kept[j] = acc.kept[i]
  <2>1. next.kept = IF m.left > size THEN Append(acc.kept, kept) ELSE acc.kept
    BY <1>4 DEF Met
  <2>2. CASE m.left > size
    <3>1. PICK s \in Seq(Entry) : s = next.kept /\ s = Append(acc.kept, kept)
      BY <1>2, <2>1, <2>2 DEF Acc
    <3>2. \A i \in DOMAIN acc.kept : i \in DOMAIN s /\ s[i] = acc.kept[i]
      BY <1>2, <3>1, AppendIndex
    <3> QED
      BY <3>1, <3>2
  <2>3. CASE ~ (m.left > size)
    BY <2>1, <2>3
  <2> QED
    BY <2>2, <2>3
<1>17. \/ Traded(m.id, more) = Traded(m.id, fills) + m.left
       \/ \E j \in DOMAIN next.kept : next.kept[j] = kept
  <2>1. next.kept = IF m.left > size THEN Append(acc.kept, kept) ELSE acc.kept
    BY <1>4 DEF Met
  <2>2. CASE m.left > size
    <3>1. PICK s \in Seq(Entry) : s = next.kept /\ s = Append(acc.kept, kept)
      BY <1>2, <2>1, <2>2 DEF Acc
    <3>2. Len(acc.kept) + 1 \in DOMAIN s /\ s[Len(acc.kept) + 1] = kept
      BY <1>2, <3>1, AppendIndex
    <3> QED
      BY <3>1, <3>2
  <2>3. CASE size = m.left
    <3>1. Traded(m.id, more) = Traded(m.id, all) + size
      BY <1>12
    <3> QED
      BY <1>13, <2>3, <3>1
  <2> QED
    BY <1>2, <1>5, <2>2, <2>3
<1>18. KeptOf(kept, m, fills, more)
  <2>1. Traded(m.id, more) = Traded(m.id, all) + size
    BY <1>12
  <2>2. Traded(m.id, more) + (m.left - size) = Traded(m.id, all) + m.left
    BY <1>2, <1>11, <2>1
  <2> QED
    BY <1>5, <1>13, <2>2 DEF KeptOf
<1>19. ASSUME NEW e, NEW i \in 1..(k - 1), KeptOf(e, makers[i], fills, all)
       PROVE  KeptOf(e, makers[i], fills, more)
  <2>1. i \in DOMAIN makers /\ i # k
    OBVIOUS
  <2>2. Traded(makers[i].id, more) = Traded(makers[i].id, all)
    BY <1>15, <2>1
  <2> QED
    BY <1>19, <2>2 DEF KeptOf
<1>20. ASSUME NEW j \in DOMAIN next.kept
       PROVE  \E i \in 1..k : KeptOf(next.kept[j], makers[i], fills, more)
  <2>1. CASE \E i \in DOMAIN acc.kept : next.kept[j] = acc.kept[i]
    <3>1. PICK i \in DOMAIN acc.kept : next.kept[j] = acc.kept[i]
      BY <2>1
    <3>2. PICK n \in 1..(k - 1) : KeptOf(acc.kept[i], makers[n], fills, all)
      BY <1>7 DEF RoomFor
    <3>3. KeptOf(next.kept[j], makers[n], fills, more) /\ n \in 1..k
      BY <1>19, <3>1, <3>2
    <3> QED
      BY <3>3
  <2>2. CASE next.kept[j] = kept
    <3>1. k \in 1..k
      OBVIOUS
    <3> QED
      BY <1>1, <1>18, <2>2, <3>1
  <2> QED
    BY <1>9, <2>1, <2>2
<1>21. ASSUME NEW i \in 1..k
       PROVE  \/ Traded(makers[i].id, more) = Traded(makers[i].id, fills) + makers[i].left
              \/ \E j \in DOMAIN next.kept : KeptOf(next.kept[j], makers[i], fills, more)
  <2>1. CASE i = k
    BY <1>1, <1>17, <1>18, <2>1
  <2>2. CASE i \in 1..(k - 1)
    <3>1. CASE Traded(makers[i].id, all) = Traded(makers[i].id, fills) + makers[i].left
      <4>1. i \in DOMAIN makers /\ i # k
        BY <2>2
      <4> QED
        BY <1>15, <3>1, <4>1
    <3>2. CASE \E j \in DOMAIN acc.kept : KeptOf(acc.kept[j], makers[i], fills, all)
      <4>1. PICK j \in DOMAIN acc.kept : KeptOf(acc.kept[j], makers[i], fills, all)
        BY <3>2
      <4>2. KeptOf(acc.kept[j], makers[i], fills, more)
        BY <1>19, <2>2, <4>1
      <4> QED
        BY <1>16, <4>2
    <3> QED
      BY <1>7, <2>2, <3>1, <3>2 DEF RoomFor
  <2> QED
    BY <2>1, <2>2
<1>22. ASSUME NEW i \in DOMAIN makers, k < i
       PROVE  Traded(makers[i].id, more) = Traded(makers[i].id, fills)
  <2>1. k - 1 < i /\ i # k
    BY <1>22
  <2> QED
    BY <1>7, <1>15, <2>1 DEF RoomFor
<1>23. RoomFor(next, k, o, makers, fills, more)
  BY <1>14, <1>20, <1>21, <1>22 DEF RoomFor
<1> QED
  BY <1>1, <1>3, <1>8, <1>23 DEF Room

\* The orders a fill is of, what it leaves of each, and the order the engine made
\* the fills in.
Parties(f) == {f.maker, f.taker}

LeftTo(f, o) == IF f.maker = o THEN f.makerLeft ELSE f.takerLeft

NoLater(f, g) ==
    \/ f.trade[2] < g.trade[2]
    \/ f.trade[2] = g.trade[2] /\ f.trade[3] <= g.trade[3]

UntilFill(g, fills) == {f \in fills : NoLater(f, g)}

\* Every fill says of its orders exactly what was left when it was made.
ExactFill(f, fills) ==
    /\ f.maker # f.taker
    /\ \A o \in Parties(f) :
        rows[o].size > 0 /\ LeftTo(f, o) + Traded(o, UntilFill(f, fills)) = rows[o].size

Exact(fills) ==
    /\ \A f \in fills : ExactFill(f, fills)
    /\ \A f, g \in fills : NoLater(f, g) /\ NoLater(g, f) => f = g

\* What is left of the makers, when no fill of theirs was lost.
MakersExact(makers, fills) ==
    \A i \in DOMAIN makers :
        /\ rows[makers[i].id].size > 0
        /\ makers[i].left + Traded(makers[i].id, fills) = rows[makers[i].id].size

LEMMA LaterFacts ==
    ASSUME NEW f \in Fill, NEW g \in Fill
    PROVE  NoLater(f, f) /\ (NoLater(f, g) \/ NoLater(g, f))
<1>1. f.trade[2] \in Nat /\ f.trade[3] \in Nat /\ g.trade[2] \in Nat /\ g.trade[3] \in Nat
  BY DEF Fill
<1> QED
  BY <1>1 DEF NoLater

\* One more fill, after all the others.
LEMMA LatestFill ==
    ASSUME NEW fills \in SUBSET Fill, Exact(fills), NEW fill \in Fill,
           \A g \in fills : ~ NoLater(fill, g), fill.maker # fill.taker,
           \A x \in Parties(fill) :
                rows[x].size > 0
                /\ LeftTo(fill, x) + Traded(x, fills \cup {fill}) = rows[x].size
    PROVE  Exact(fills \cup {fill})
<1>1. PICK more \in SUBSET Fill : more = fills \cup {fill}
  OBVIOUS
<1>2. \A g \in fills : UntilFill(g, more) = UntilFill(g, fills)
  BY <1>1 DEF UntilFill
<1>3. UntilFill(fill, more) = more
  <2>1. \A g \in fills : NoLater(g, fill)
    BY LaterFacts
  <2> QED
    BY <1>1, <2>1, LaterFacts DEF UntilFill
<1>4. ASSUME NEW f \in more
      PROVE  ExactFill(f, more)
  <2>1. CASE f \in fills
    BY <1>2, <2>1 DEF Exact, ExactFill
  <2>2. CASE f = fill
    BY <1>1, <1>3, <2>2 DEF ExactFill
  <2> QED
    BY <1>1, <2>1, <2>2
<1>5. \A f, g \in more : NoLater(f, g) /\ NoLater(g, f) => f = g
  BY <1>1 DEF Exact
<1> QED
  BY <1>1, <1>4, <1>5 DEF Exact

LEMMA ExactStep ==
    ASSUME TypeOK, NEW makers \in Seq(Entry), IdsDiffer(makers),
           \A i \in DOMAIN makers : makers[i].left > 0 /\ makers[i].id \in ToSet(placed),
           NEW o \in ToSet(placed), \A i \in DOMAIN makers : makers[i].id # o,
           rows[o].size > 0,
           NEW fills \in SUBSET Fill, IsFiniteSet(fills), Older(fills),
           NEW k \in 1..Len(makers),
           NEW acc \in Acc, Shape(acc, k - 1, o, makers), Room(acc, k - 1, o, makers, fills),
           MakersExact(makers, fills), Exact(fills \cup ToSet(acc.fills))
    PROVE  Exact(fills \cup ToSet(Meet(acc, makers[k], o).fills))
<1>1. PICK m \in Entry : /\ m = makers[k] /\ m.left > 0 /\ m.id \in ToSet(placed)
                         /\ m.id # o /\ k \in DOMAIN makers
  OBVIOUS
<1>2. /\ acc.left \in Int /\ m.left \in Int /\ acc.fills \in Seq(Fill) /\ o \in Order
      /\ rows[m.id].size \in Int /\ rows[o].size \in Int
  BY <1>1, RowFacts DEF Acc, Entry
<1>3. PICK next \in Acc : next = Meet(acc, m, o)
  BY <1>1, <1>2, MeetType
<1>4. PICK size \in Int, fill \in Fill, kept \in Entry :
            Met(acc, m, o, next, size, fill, kept)
  BY <1>2, <1>3, MeetFacts
<1>5. /\ fill.size = size /\ fill.maker = m.id /\ fill.taker = o
      /\ fill.makerLeft = m.left - size /\ fill.takerLeft = acc.left - size
      /\ fill.trade[2] = position["created"] /\ fill.trade[3] = Len(acc.fills)
      /\ next.fills = IF size > 0 THEN Append(acc.fills, fill) ELSE acc.fills
  BY <1>4 DEF Met
<1>6. PICK all \in SUBSET Fill : all = fills \cup ToSet(acc.fills) /\ IsFiniteSet(all)
  <2>1. IsFiniteSet(ToSet(acc.fills)) /\ ToSet(acc.fills) \in SUBSET Fill
    BY <1>2, ToSetFinite
  <2>2. IsFiniteSet(fills \cup ToSet(acc.fills))
    BY <2>1, FS_Union
  <2> QED
    BY <2>1, <2>2
<1>7. CASE size > 0
  <2>1. fills \cup ToSet(next.fills) = all \cup {fill}
    <3>1. ToSet(next.fills) = ToSet(acc.fills) \cup {fill}
      BY <1>2, <1>5, <1>7, AppendFacts
    <3> QED
      BY <1>6, <3>1
  <2>2. \A g \in fills : ~ NoLater(fill, g)
    <3> SUFFICES ASSUME NEW g \in fills PROVE ~ NoLater(fill, g)
      OBVIOUS
    <3>1. g.trade[2] < fill.trade[2] /\ g.trade[2] \in Nat /\ fill.trade[2] \in Nat
      BY <1>5 DEF Older, Fill
    <3> QED
      BY <3>1 DEF NoLater
  <2>3. \A g \in ToSet(acc.fills) : ~ NoLater(fill, g)
    <3> SUFFICES ASSUME NEW n \in DOMAIN acc.fills, NEW g, g = acc.fills[n]
                 PROVE  ~ NoLater(fill, g)
      BY DEF ToSet
    <3>1. g.trade[2] = position["created"] /\ g.trade[3] = n - 1
      BY DEF Shape, FillShape
    <3>2. n \in 1..Len(acc.fills) /\ Len(acc.fills) \in Nat
      BY <1>2
    <3>3. position["created"] \in Nat
      BY DEF TypeOK, Topic
    <3> QED
      BY <1>5, <3>1, <3>2, <3>3 DEF NoLater
  <2>4. fill \notin all
    BY <1>6, <2>2, <2>3, LaterFacts
  <2>5. \A x : /\ Traded(x, all) \in Int
               /\ Traded(x, all \cup {fill}) =
                    Traded(x, all) + (IF x \in {fill.maker, fill.taker} THEN fill.size ELSE 0)
    BY <1>6, <2>4, TradedMore
  <2>6. /\ Traded(m.id, all) = Traded(m.id, fills) /\ Traded(o, all) + acc.left = rows[o].size
    <3>1. k - 1 < k
      OBVIOUS
    <3> QED
      BY <1>1, <1>6, <3>1 DEF Room, RoomFor
  <2>7. rows[m.id].size > 0 /\ m.left + Traded(m.id, fills) = rows[m.id].size
    BY <1>1 DEF MakersExact
  <2>8. LeftTo(fill, m.id) + Traded(m.id, all \cup {fill}) = rows[m.id].size
    <3>1. LeftTo(fill, m.id) = m.left - size
      BY <1>5 DEF LeftTo
    <3>2. Traded(m.id, all \cup {fill}) = Traded(m.id, all) + size
      BY <1>5, <2>5
    <3> QED
      BY <1>2, <2>5, <2>6, <2>7, <3>1, <3>2
  <2>9. LeftTo(fill, o) + Traded(o, all \cup {fill}) = rows[o].size
    <3>1. LeftTo(fill, o) = acc.left - size
      BY <1>1, <1>5 DEF LeftTo
    <3>2. Traded(o, all \cup {fill}) = Traded(o, all) + size
      BY <1>5, <2>5
    <3> QED
      BY <1>2, <2>5, <2>6, <3>1, <3>2
  <2>10. Exact(all \cup {fill})
    <3>1. \A g \in all : ~ NoLater(fill, g)
      BY <1>6, <2>2, <2>3
    <3>2. Parties(fill) = {m.id, o} /\ fill.maker # fill.taker
      BY <1>1, <1>5 DEF Parties
    <3> QED
      BY <1>6, <2>7, <2>8, <2>9, <3>1, <3>2, LatestFill
  <2> QED
    BY <1>1, <1>3, <2>1, <2>10
<1>8. CASE ~ (size > 0)
  BY <1>1, <1>3, <1>5, <1>8
<1> QED
  BY <1>7, <1>8

\* The whole walk.
LEMMA WalkFacts ==
    ASSUME TypeOK, NEW makers \in Seq(Entry), IdsDiffer(makers),
           \A i \in DOMAIN makers : makers[i].left > 0 /\ makers[i].id \in ToSet(placed),
           NEW o \in ToSet(placed), \A i \in DOMAIN makers : makers[i].id # o,
           rows[o].size > 0,
           NEW fills \in SUBSET Fill, IsFiniteSet(fills), Older(fills),
           \A f \in fills : o \notin {f.maker, f.taker},
           NEW m \in Acc, m = Matching(o, makers)
    PROVE  /\ Shape(m, Len(makers), o, makers) /\ Room(m, Len(makers), o, makers, fills)
           /\ MakersExact(makers, fills) /\ Exact(fills) => Exact(fills \cup ToSet(m.fills))
<1>1. PICK n \in Nat : n = Len(makers) /\ DOMAIN makers = 1..n
  OBVIOUS
<1>2. PICK a \in [0..n -> Acc] : IsWalk(a, o, makers)
  BY <1>1, WalkExists
<1>3. /\ a[0] = Unmatched(o) /\ a[n] = m
      /\ \A k \in 1..n : a[k] = Meet(a[k - 1], makers[k], o)
  BY <1>1, <1>2 DEF IsWalk
<1>4. o \in Order /\ rows[o].size \in Int
  BY RowFacts
<1>5. PICK start \in Acc : /\ start = a[0] /\ start.left = rows[o].size
                           /\ start.fills = <<>> /\ start.kept = <<>>
  <2>1. 0 \in 0..n
    OBVIOUS
  <2> QED
    BY <1>2, <1>3, <2>1 DEF Unmatched
<1>6. Shape(start, 0, o, makers)
  BY <1>4, <1>5 DEF Shape, IdsDiffer
<1>7. Room(start, 0, o, makers, fills)
  <2>1. fills \cup ToSet(start.fills) = fills
    BY <1>5 DEF ToSet
  <2>2. Traded(o, fills) = 0
    BY TradedNone
  <2>3. Traded(o, fills) + start.left = rows[o].size
    BY <1>4, <1>5, <2>2
  <2>4. RoomFor(start, 0, o, makers, fills, fills)
    BY <1>5, <2>3 DEF RoomFor
  <2> QED
    BY <2>1, <2>4 DEF Room
<1> DEFINE StaysExact(acc) ==
                MakersExact(makers, fills) /\ Exact(fills) => Exact(fills \cup ToSet(acc.fills))
           Good == {k \in 0..n : /\ Shape(a[k], k, o, makers)
                                 /\ Room(a[k], k, o, makers, fills) /\ StaysExact(a[k])}
<1>8. 0 \in Good
  <2>1. fills \cup ToSet(start.fills) = fills
    BY <1>5 DEF ToSet
  <2>2. StaysExact(start)
    BY <2>1
  <2>3. a[0] = start /\ 0 \in 0..n
    BY <1>5
  <2> HIDE DEF StaysExact
  <2> QED
    BY <1>6, <1>7, <2>2, <2>3
<1>9. ASSUME NEW k \in 1..n, k - 1 \in Good
      PROVE  k \in Good
  <2>1. PICK acc \in Acc : acc = a[k - 1]
    BY <1>2
  <2>2. Shape(acc, k - 1, o, makers) /\ Room(acc, k - 1, o, makers, fills) /\ StaysExact(acc)
    BY <1>9, <2>1
  <2>3. k \in 1..Len(makers)
    BY <1>1
  <2>4. Shape(Meet(acc, makers[k], o), k, o, makers)
    BY <1>4, <2>2, <2>3, ShapeStep
  <2>5. Room(Meet(acc, makers[k], o), k, o, makers, fills)
    BY <2>2, <2>3, RoomStep
  <2>6. StaysExact(Meet(acc, makers[k], o))
    BY <2>2, <2>3, ExactStep
  <2>7. a[k] = Meet(acc, makers[k], o) /\ k \in 0..n
    BY <1>3, <2>1
  <2> QED
    BY <2>4, <2>5, <2>6, <2>7
<1>10. n \in Good
  <2>1. 0..n \subseteq Good
    <3> HIDE DEF Good
    <3> QED
      BY <1>8, <1>9, UpTo
  <2>2. n \in 0..n
    OBVIOUS
  <2> QED
    BY <2>1, <2>2
<1> QED
  BY <1>1, <1>3, <1>10

-----------------------------------------------------------------------------
(* Every action keeps the invariant of one life.                            *)

\* What waits to be published.
Bodies(t) == {m.body : m \in {n \in ToSet(outbox) : n.topic = t}}

LEMMA BodiesFacts ==
    ASSUME TypeOK, NEW t
    PROVE  IsFiniteSet(Bodies(t))
           /\ \A body : body \in Bodies(t) <=>
                \E i \in DOMAIN outbox : outbox[i].topic = t /\ outbox[i].body = body
<1>1. PICK n \in Nat : DOMAIN outbox = 1..n /\ outbox \in [1..n -> Result]
  BY DEF TypeOK
<1>2. \A body : body \in Bodies(t) <=>
        \E i \in 1..n : outbox[i].topic = t /\ outbox[i].body = body
  BY <1>1 DEF Bodies, ToSet
<1>3. PICK D : D = {i \in 1..n : outbox[i].topic = t} /\ IsFiniteSet(D)
  <2>1. IsFiniteSet(1..n) /\ {i \in 1..n : outbox[i].topic = t} \in SUBSET (1..n)
    BY FS_Interval
  <2> QED
    BY <2>1, FS_Subset
<1>4. PICK T : T = Bodies(t)
  OBVIOUS
<1>5. [i \in D |-> outbox[i].body] \in Surjection(D, T)
  BY <1>2, <1>3, <1>4 DEF Surjection
<1>6. IsFiniteSet(T)
  BY <1>3, <1>5, FS_Surjection
<1> QED
  BY <1>1, <1>2, <1>4, <1>6

FillsAreFinite == Fills \in SUBSET Fill /\ IsFiniteSet(Fills)

LEMMA FillsFinite ==
    TypeOK => FillsAreFinite
<1> SUFFICES ASSUME TypeOK PROVE FillsAreFinite
  OBVIOUS
<1>1. Fills = ToSet(log["matched"]) \cup Bodies("matched")
  BY DEF Fills, Bodies
<1>2. IsFiniteSet(ToSet(log["matched"])) /\ ToSet(log["matched"]) \in SUBSET Fill
  <2>1. PICK s \in Seq(Fill) : s = log["matched"]
    BY DEF TypeOK
  <2> QED
    BY <2>1, ToSetFinite
<1>3. IsFiniteSet(Bodies("matched"))
  BY BodiesFacts
<1>4. \A body \in Bodies("matched") : body \in Fill
  <2> SUFFICES ASSUME NEW i \in DOMAIN outbox, outbox[i].topic = "matched"
               PROVE  outbox[i].body \in Fill
    BY BodiesFacts
  <2>1. outbox[i] \in Result
    BY DEF TypeOK
  <2> QED
    BY <2>1 DEF Result
<1>5. IsFiniteSet(ToSet(log["matched"]) \cup Bodies("matched"))
  BY <1>2, <1>3, FS_Union
<1> QED
  BY <1>1, <1>2, <1>4, <1>5 DEF FillsAreFinite

\* Whoever is in the engine's hands has been placed.
LEMMA TakenFacts ==
    ASSUME TypeOK
    PROVE  /\ Taken \subseteq ToSet(log["created"]) /\ Taken \subseteq ToSet(placed)
           /\ position["created"] \in Nat /\ position["created"] <= Len(log["created"])
           /\ log["created"] \in Seq(ToSet(placed)) /\ Len(log["created"]) \in Nat
           /\ DOMAIN log["created"] = 1..Len(log["created"])
<1>1. "created" \in Topic /\ "created" \in EngineTopic
  BY DEF Topic, EngineTopic
<1>2. /\ position["created"] \in Nat /\ position["created"] <= Len(log["created"])
      /\ log["created"] \in Seq(ToSet(placed))
  BY <1>1 DEF TypeOK
<1>3. Len(log["created"]) \in Nat /\ DOMAIN log["created"] = 1..Len(log["created"])
  BY <1>2
<1>4. Taken \subseteq ToSet(log["created"])
  BY <1>2, <1>3 DEF Taken, ToSet
<1>5. ToSet(log["created"]) \subseteq ToSet(placed)
  BY <1>2, SeqFacts
<1> QED
  BY <1>2, <1>3, <1>4, <1>5

\* Fills and rejects that go from the outbox to their topics, or are lost.
LEMMA FewerFills ==
    ASSUME TypeOK, LifeParts, UNCHANGED <<rows, placed, book, cancels>>,
           AnnouncedOnce', Taken' = Taken, position'["created"] = position["created"],
           Fills' \subseteq Fills, Rejects' \subseteq Rejects
    PROVE  LifeParts'
<1>3. RestsOnce'
  BY DEF LifeParts, RestsOnce, IdsDiffer
<1>4. FillsAreSound'
  BY DEF LifeParts, FillsAreSound
<1>5. PICK old \in SUBSET Fill : old = Fills /\ IsFiniteSet(old)
  BY FillsFinite DEF FillsAreFinite
<1>6. PICK new \in SUBSET old : new = Fills'
  BY <1>5
<1>7. \A x : /\ Traded(x, new) \in Int /\ Traded(x, old) \in Int
             /\ Traded(x, new) <= Traded(x, old)
  <2>1. \A f \in old : f.size > 0
    BY <1>5 DEF LifeParts, FillsAreSound
  <2> QED
    BY <1>5, <2>1, TradedLess
<1>8. WithinSize'
  <2>1. ASSUME NEW o \in ToSet(placed), rows[o].size > 0
        PROVE  Traded(o, new) <= rows[o].size
    <3>1. rows[o].size \in Int /\ Traded(o, old) <= rows[o].size
      BY <1>5, <2>1, RowFacts DEF LifeParts, WithinSize
    <3> QED
      BY <1>7, <3>1
  <2>2. ASSUME NEW side \in Side, NEW i \in DOMAIN book[side]
        PROVE  /\ book[side][i].left > 0
               /\ Traded(book[side][i].id, new) + book[side][i].left
                    <= rows[book[side][i].id].size
    <3>1. PICK e \in Entry : e = book[side][i]
      BY DEF TypeOK
    <3>2. e.id \in ToSet(placed)
      BY <3>1, TakenFacts DEF LifeParts, RestsOnce
    <3>3. rows[e.id].size \in Int /\ e.left \in Int
      BY <3>2, RowFacts DEF Entry
    <3>4. e.left > 0 /\ Traded(e.id, old) + e.left <= rows[e.id].size
      BY <1>5, <3>1 DEF LifeParts, WithinSize
    <3>5. Traded(e.id, new) + e.left <= rows[e.id].size
      BY <1>7, <3>3, <3>4
    <3> QED
      BY <3>1, <3>4, <3>5
  <2>3. UNCHANGED <<rows, placed, book>>
    OBVIOUS
  <2> QED
    BY <1>6, <2>1, <2>2, <2>3 DEF WithinSize
<1>9. RowsShowNoLess'
  BY DEF LifeParts, RowsShowNoLess, Open
<1> QED
  BY <1>3, <1>4, <1>8, <1>9 DEF LifeParts

LEMMA CreateLife ==
    ASSUME TypeOK, LifeParts, NEW w \in Wanted, CreateLimitOrder(w[1], w[2], w[3])
    PROVE  LifeParts'
<1>1. PICK o \in Order, side \in Side, size \in Int : o = w[1] /\ side = w[2] /\ size = w[3]
  BY BoundsAssumption DEF Side
<1>2. /\ o \notin ToSet(placed) /\ placed' = Append(placed, o)
      /\ rows' = [x \in DOMAIN rows \cup {o} |->
                    IF x = o THEN [side |-> side, size |-> size, remaining |-> size,
                                   status |-> "pending"]
                    ELSE rows[x]]
      /\ publishing' = publishing \cup {Request("created", o, 1)}
      /\ UNCHANGED <<tradeRows, cancels, log, consumers, engine, fault>>
  BY <1>1 DEF CreateLimitOrder, fn_create_order_atomic
<1>3. ToSet(placed)' = ToSet(placed) \cup {o}
  BY <1>2, AppendFacts DEF TypeOK
<1>4. \A x \in ToSet(placed) : rows'[x] = rows[x]
  BY <1>2 DEF TypeOK
<1>5. rows'[o].size = size
  BY <1>2
<1>6. /\ UNCHANGED <<log, position, book, outbox, cancels>> /\ Taken' = Taken
      /\ Fills' = Fills /\ Rejects' = Rejects
  BY <1>2 DEF consumers, engine, Taken, Fills, Rejects
<1>7. Taken \subseteq ToSet(placed) /\ ToSet(log["created"]) \subseteq ToSet(placed)
  BY TakenFacts, SeqFacts
<1>8. \A s \in Side : \A i \in DOMAIN book[s] : book[s][i].id \in ToSet(placed)
  BY <1>7 DEF LifeParts, RestsOnce
<1>9. AnnouncedOnce'
  <2>1. \A r \in publishing' : r \in publishing \/ r = Request("created", o, 1)
    BY <1>2
  <2>2. Request("created", o, 1).nth = 1 /\ Request("created", o, 1).order = o
    BY DEF Request
  <2>3. o \notin ToSet(log["created"])
    BY <1>2, <1>7
  <2> QED
    BY <1>6, <2>1, <2>2, <2>3 DEF LifeParts, AnnouncedOnce
<1>10. RestsOnce'
  BY <1>4, <1>6, <1>8 DEF LifeParts, RestsOnce, IdsDiffer
<1>11. FillsAreSound'
  BY <1>6 DEF LifeParts, FillsAreSound
<1>12. WithinSize'
  <2>1. PICK fills \in SUBSET Fill : fills = Fills /\ IsFiniteSet(fills)
    BY FillsFinite DEF FillsAreFinite
  <2>2. \A f \in fills : o \notin {f.maker, f.taker}
    BY <1>2, <1>7, <2>1 DEF LifeParts, FillsAreSound
  <2>3. Traded(o, fills) = 0
    BY <2>1, <2>2, TradedNone
  <2>4. size > 0 => Traded(o, fills) <= size
    BY <2>3
  <2>5. \A x \in ToSet(placed) : rows'[x].size > 0 => Traded(x, fills) <= rows'[x].size
    BY <1>4, <2>1 DEF LifeParts, WithinSize
  <2>6. \A x \in ToSet(placed) \cup {o} :
            rows'[x].size > 0 => Traded(x, fills) <= rows'[x].size
    BY <1>5, <2>4, <2>5
  <2>7. ASSUME NEW s \in Side, NEW i \in DOMAIN book[s]
        PROVE  /\ book[s][i].left > 0
               /\ Traded(book[s][i].id, fills) + book[s][i].left <= rows'[book[s][i].id].size
    BY <1>4, <1>8, <2>1 DEF LifeParts, WithinSize
  <2>8. Fills' = fills
    BY <1>6, <2>1
  <2> QED
    BY <1>3, <1>6, <2>6, <2>7, <2>8 DEF WithinSize
<1>13. RowsShowNoLess'
  <2>1. \A x \in Rejects : x \in Taken /\ rows'[x].size <= 0
    BY <1>4, <1>7 DEF LifeParts, RowsShowNoLess
  <2>3. \A x \in (ToSet(placed) \cup {o}) \ Taken :
            /\ rows'[x].remaining = rows'[x].size
            /\ cancels[x] = 0 => rows'[x].status \in {"pending", "partial"}
    BY <1>2, <1>4 DEF LifeParts, RowsShowNoLess, Open
  <2>2. ASSUME NEW s \in Side, NEW i \in DOMAIN book[s], NEW e, e = book[s][i]
        PROVE  /\ e.left <= rows'[e.id].size
               /\ \A f \in Fills : /\ f.maker = e.id => e.left <= f.makerLeft
                                   /\ f.taker = e.id => e.left <= f.takerLeft
               /\ cancels[e.id] = 0 =>
                    rows'[e.id].status \in {"pending", "partial"} /\ e.left <= rows'[e.id].remaining
    BY <1>4, <1>8, <2>2 DEF LifeParts, RowsShowNoLess, Open
  <2> QED
    BY <1>3, <1>6, <2>1, <2>2, <2>3 DEF RowsShowNoLess, Open
<1> QED
  BY <1>9, <1>10, <1>11, <1>12, <1>13 DEF LifeParts

LEMMA CancelLife ==
    ASSUME TypeOK, LifeParts, NEW o \in Cancellable, CancelOrder(o)
    PROVE  LifeParts'
<1>1. /\ o \in ToSet(placed) /\ o \in Order
      /\ rows' = [rows EXCEPT ![o].status = "cancelled"]
      /\ cancels' = [cancels EXCEPT ![o] = @ + 1]
      /\ publishing' = publishing \cup {Request("cancelled", o, cancels'[o])}
      /\ UNCHANGED <<placed, tradeRows, log, consumers, engine, fault>>
  BY BoundsAssumption DEF CancelOrder, fn_cancel_order
<1>2. \A x \in ToSet(placed) :
        /\ rows'[x].size = rows[x].size /\ rows'[x].side = rows[x].side
        /\ rows'[x].remaining = rows[x].remaining
        /\ x # o => rows'[x].status = rows[x].status
  BY <1>1 DEF TypeOK
<1>3. /\ UNCHANGED <<placed, log, position, book, outbox>> /\ Taken' = Taken
      /\ Fills' = Fills /\ Rejects' = Rejects
  BY <1>1 DEF consumers, engine, Taken, Fills, Rejects
<1>4. cancels'[o] # 0 /\ \A x \in Order \ {o} : cancels'[x] = cancels[x]
  BY <1>1 DEF TypeOK
<1>5. \A s \in Side : \A i \in DOMAIN book[s] :
            book[s][i].id \in ToSet(placed) /\ book[s][i].id \in Order
  BY TakenFacts, RowFacts DEF LifeParts, RestsOnce
<1>6. AnnouncedOnce'
  <2>1. Request("cancelled", o, cancels'[o]).topic # "created"
    BY DEF Request
  <2> QED
    BY <1>1, <1>3, <2>1 DEF LifeParts, AnnouncedOnce
<1>7. RestsOnce'
  BY <1>2, <1>3, <1>5 DEF LifeParts, RestsOnce, IdsDiffer
<1>8. FillsAreSound'
  BY <1>3 DEF LifeParts, FillsAreSound
<1>9. WithinSize'
  BY <1>2, <1>3, <1>5 DEF LifeParts, WithinSize
<1>10. RowsShowNoLess'
  <2>1. \A x \in Rejects : x \in Taken /\ rows'[x].size <= 0
    BY <1>2, TakenFacts DEF LifeParts, RowsShowNoLess
  <2>3. \A x \in ToSet(placed) \ Taken :
            /\ rows'[x].remaining = rows'[x].size
            /\ cancels'[x] = 0 => rows'[x].status \in {"pending", "partial"}
    <3>1. \A x \in ToSet(placed) : x \in Order
      BY RowFacts
    <3> QED
      BY <1>2, <1>4, <3>1 DEF LifeParts, RowsShowNoLess, Open
  <2>2. ASSUME NEW s \in Side, NEW i \in DOMAIN book[s], NEW e, e = book[s][i]
        PROVE  /\ e.left <= rows'[e.id].size
               /\ \A f \in Fills : /\ f.maker = e.id => e.left <= f.makerLeft
                                   /\ f.taker = e.id => e.left <= f.takerLeft
               /\ cancels'[e.id] = 0 =>
                    rows'[e.id].status \in {"pending", "partial"} /\ e.left <= rows'[e.id].remaining
    BY <1>2, <1>4, <1>5, <2>2 DEF LifeParts, RowsShowNoLess, Open
  <2> QED
    BY <1>3, <2>1, <2>2, <2>3 DEF RowsShowNoLess, Open
<1> QED
  BY <1>6, <1>7, <1>8, <1>9, <1>10 DEF LifeParts

LEMMA RequestLife ==
    ASSUME TypeOK, LifeParts, NEW r \in publishing, PublishRequest(r) \/ LoseRequest(r)
    PROVE  LifeParts'
<1>1. /\ UNCHANGED <<store, cancels, consumers, engine>> /\ publishing' = publishing \ {r}
      /\ UNCHANGED log \/ Published(r.topic, r.order)
  BY DEF PublishRequest, LoseRequest
<1>2. UNCHANGED <<rows, placed, book, cancels, position, outbox>>
  BY <1>1 DEF store, consumers, engine
<1>3. CASE UNCHANGED log
  <2>1. /\ Taken' = Taken /\ Fills' = Fills /\ Rejects' = Rejects
    BY <1>2, <1>3 DEF Taken, Fills, Rejects
  <2>2. AnnouncedOnce'
    BY <1>1, <1>3 DEF LifeParts, AnnouncedOnce
  <2> QED
    BY <1>2, <2>1, <2>2, FewerFills
<1>4. CASE Published(r.topic, r.order)
  <2>1. r.topic \in EngineTopic /\ r.order \in ToSet(placed)
    BY DEF TypeOK
  <2>2. PICK t \in Topic, o \in ToSet(placed) : t = r.topic /\ o = r.order /\ t \in EngineTopic
    BY <2>1 DEF Topic, EngineTopic
  <2>3. t # "matched" /\ t # "rejected" /\ "matched" \in Topic /\ "rejected" \in Topic
        /\ "created" \in Topic
    BY <2>2 DEF EngineTopic, Topic
  <2>4. Published(t, o) /\ UNCHANGED placed
    BY <1>2, <1>4, <2>2
  <2>5. /\ log'[t] = Append(log[t], o)
        /\ \A u \in Topic \ {t} : log'[u] = log[u]
    BY <2>2, <2>3, <2>4, PublishedFacts
  <2>6. Fills' = Fills /\ Rejects' = Rejects
    BY <1>2, <2>3, <2>5 DEF Fills, Rejects
  <2>7. CASE t # "created"
    <3>1. log'["created"] = log["created"]
      BY <2>3, <2>5, <2>7
    <3>2. AnnouncedOnce' /\ Taken' = Taken
      BY <1>1, <1>2, <3>1 DEF LifeParts, AnnouncedOnce, Taken
    <3> QED
      BY <1>2, <2>6, <3>2, FewerFills
  <2>8. CASE t = "created"
    <3>1. PICK s \in Seq(ToSet(placed)) : s = log["created"] /\ log'["created"] = Append(s, o)
      BY <2>5, <2>8, TakenFacts
    <3>2. o \notin ToSet(s) /\ r.nth = 1 /\ IsInjective(s)
      BY <2>2, <2>8, <3>1 DEF LifeParts, AnnouncedOnce
    <3>3. ToSet(log["created"])' = ToSet(s) \cup {o} /\ IsInjective(log'["created"])
      BY <3>1, <3>2, AppendFacts
    <3>4. ASSUME NEW q \in publishing', q.topic = "created"
          PROVE  q.nth = 1 /\ q.order \notin ToSet(s) \cup {o}
      <4>1. q \in publishing /\ q # r
        BY <1>1
      <4>2. q.nth = 1 /\ q.order \notin ToSet(s)
        BY <3>1, <3>4, <4>1 DEF LifeParts, AnnouncedOnce
      <4>3. q = [topic |-> q.topic, order |-> q.order, nth |-> q.nth]
            /\ r = [topic |-> r.topic, order |-> r.order, nth |-> r.nth]
        BY <4>1 DEF TypeOK
      <4>4. q.order # o
        BY <2>2, <2>8, <3>2, <3>4, <4>1, <4>2, <4>3
      <4> QED
        BY <4>2, <4>4
    <3>5. AnnouncedOnce'
      BY <3>3, <3>4 DEF AnnouncedOnce
    <3>6. Taken' = Taken
      <4>1. \A i \in 1..position["created"] : log'["created"][i] = log["created"][i]
        BY <3>1, TakenFacts
      <4> QED
        BY <1>2, <4>1 DEF Taken
    <3> QED
      BY <1>2, <2>6, <3>5, <3>6, FewerFills
  <2> QED
    BY <2>7, <2>8
<1> QED
  BY <1>1, <1>3, <1>4

\* Steps of the consumers that leave the engine's topic, its book and what it
\* has published alone.
LEMMA QuietLife ==
    ASSUME TypeOK, LifeParts, UNCHANGED <<rows, placed, publishing, cancels, log, engine>>,
           position'["created"] = position["created"]
    PROVE  LifeParts'
<1>1. UNCHANGED <<rows, placed, book, cancels, outbox>>
  BY DEF engine
<1>2. Taken' = Taken /\ Fills' = Fills /\ Rejects' = Rejects
  BY <1>1 DEF Taken, Fills, Rejects
<1>3. AnnouncedOnce'
  BY DEF LifeParts, AnnouncedOnce
<1> QED
  BY <1>1, <1>2, <1>3, FewerFills

LEMMA CommitLife ==
    ASSUME TypeOK, LifeParts, NEW t \in Topic, CommitMessages(t) \/ CommitFails(t)
    PROVE  LifeParts'
  BY QuietLife DEF CommitMessages, CommitFails, store, api

LEMMA DropLife ==
    ASSUME TypeOK, LifeParts, NEW t \in IndexerTopic, DropMessage(t)
    PROVE  LifeParts'
<1>1. /\ Fetch(t) /\ UNCHANGED <<store, api, log, engine>>
      /\ t \in Topic /\ "created" \in Topic /\ t # "created"
  BY DEF DropMessage, Topic, IndexerTopic
<1>2. position'["created"] = position["created"]
  BY <1>1, FetchFacts
<1> QED
  BY <1>1, <1>2, QuietLife DEF store, api

LEMMA RestartIndexerLife ==
    ASSUME TypeOK, LifeParts, RestartIndexer
    PROVE  LifeParts'
<1>1. position'["created"] = position["created"]
  BY DEF RestartIndexer, Rewound, IndexerTopic, Topic
<1> QED
  BY <1>1, QuietLife DEF RestartIndexer, store, api

\* A result goes from the outbox to its topic, and perhaps stays there too.
LEMMA ResultLife ==
    ASSUME TypeOK, LifeParts, PublishResult \/ RepeatResult
    PROVE  LifeParts'
<1>1. /\ outbox # <<>> /\ Published(Head(outbox).topic, Head(outbox).body)
      /\ UNCHANGED <<store, api, consumers, book>>
      /\ outbox' = Tail(outbox) \/ outbox' = outbox
  BY DEF PublishResult, RepeatResult, engine
<1>2. PICK t \in {"matched", "rejected"}, body \in Order \cup Fill :
            /\ t = Head(outbox).topic /\ body = Head(outbox).body
            /\ t = "matched" => body \in Fill
            /\ t = "rejected" => body \in Order
  BY <1>1, HeadFacts
<1>3. t \in Topic /\ t \notin EngineTopic /\ "created" \in Topic /\ t # "created"
      /\ "matched" \in Topic /\ "rejected" \in Topic
  BY DEF Topic, EngineTopic
<1>4. UNCHANGED <<rows, placed, book, cancels, publishing, position>>
  BY <1>1 DEF store, api, consumers
<1>5. Published(t, body)
  BY <1>1, <1>2
<1>6. /\ log'[t] = Append(log[t], body)
      /\ \A u \in Topic \ {t} : log'[u] = log[u]
  BY <1>2, <1>3, <1>4, <1>5, PublishedFacts
<1>7. AnnouncedOnce' /\ Taken' = Taken
  <2>1. log'["created"] = log["created"]
    BY <1>3, <1>6
  <2> QED
    BY <1>4, <2>1 DEF LifeParts, AnnouncedOnce, Taken
<1> DEFINE old == outbox
<1>8. old \in Seq(Result) /\ old # <<>> /\ (outbox' = Tail(old) \/ outbox' = old)
  BY <1>1 DEF TypeOK
<1>9. 1 \in DOMAIN old /\ Head(old) = old[1]
  BY <1>8
<1>10. PICK head \in ToSet(outbox) : head.topic = t /\ head.body = body
  BY <1>2, <1>9 DEF ToSet
<1>11. ToSet(outbox)' \subseteq ToSet(outbox)
  <2>1. \A i \in DOMAIN Tail(old) : i + 1 \in DOMAIN old /\ Tail(old)[i] = old[i + 1]
    BY <1>8
  <2>2. CASE outbox' = Tail(old)
    BY <2>1, <2>2 DEF ToSet
  <2>3. CASE outbox' = old
    BY <2>3
  <2> QED
    BY <1>8, <2>2, <2>3
<1>12. ASSUME NEW u \in {"matched", "rejected"}
       PROVE  ToSet(log[u])' = IF u = t THEN ToSet(log[u]) \cup {body} ELSE ToSet(log[u])
  <2>1. PICK S : log[u] \in Seq(S) /\ (u = t => body \in S)
    <3>1. CASE u = "matched"
      BY <1>2, <3>1 DEF TypeOK
    <3>2. CASE u = "rejected"
      BY <1>2, <3>2 DEF TypeOK
    <3> QED
      BY <3>1, <3>2
  <2>2. CASE u = t
    <3>1. PICK s \in Seq(S) : s = log[u] /\ log'[u] = Append(s, body)
      BY <1>6, <2>1, <2>2
    <3>2. ToSet(Append(s, body)) = ToSet(s) \cup {body}
      BY <2>1, <2>2, AppendFacts
    <3> QED
      BY <2>2, <3>1, <3>2
  <2>3. CASE u # t
    BY <1>3, <1>6, <2>3
  <2> QED
    BY <2>2, <2>3
<1>13. Fills' \subseteq Fills
  BY <1>10, <1>11, <1>12 DEF Fills
<1>14. Rejects' \subseteq Rejects
  BY <1>10, <1>11, <1>12 DEF Rejects
<1> QED
  BY <1>4, <1>7, <1>13, <1>14, FewerFills

\* The results still to be published are lost.
LEMMA PublishFailsLife ==
    ASSUME TypeOK, LifeParts, PublishFails
    PROVE  LifeParts'
<1>1. outbox' = <<>> /\ UNCHANGED <<store, api, log, position, book>>
  BY DEF PublishFails
<1>2. UNCHANGED <<rows, placed, book, cancels, publishing, position, log>>
  BY <1>1 DEF store, api
<1>3. AnnouncedOnce' /\ Taken' = Taken
  BY <1>2 DEF LifeParts, AnnouncedOnce, Taken
<1>4. ToSet(outbox)' = {}
  BY <1>1 DEF ToSet
<1>5. Fills' \subseteq Fills /\ Rejects' \subseteq Rejects
  BY <1>2, <1>4 DEF Fills, Rejects
<1> QED
  BY <1>2, <1>3, <1>5, FewerFills

\* A book with fewer entries.
LEMMA FewerEntries ==
    ASSUME TypeOK, LifeParts,
           UNCHANGED <<rows, placed, cancels, publishing, log, outbox>>,
           position'["created"] = position["created"],
           \A side \in Side :
                /\ IdsDiffer(book'[side])
                /\ \A i \in DOMAIN book'[side] :
                        \E j \in DOMAIN book[side] : book'[side][i] = book[side][j]
    PROVE  LifeParts'
<1>1. Taken' = Taken /\ Fills' = Fills /\ Rejects' = Rejects
  BY DEF Taken, Fills, Rejects
<1>2. AnnouncedOnce' /\ FillsAreSound'
  BY <1>1 DEF LifeParts, AnnouncedOnce, FillsAreSound
<1>3. RestsOnce'
  BY <1>1 DEF LifeParts, RestsOnce, IdsDiffer
<1>4. WithinSize'
  BY <1>1 DEF LifeParts, WithinSize
<1>5. RowsShowNoLess'
  BY <1>1 DEF LifeParts, RowsShowNoLess, Open
<1> QED
  BY <1>2, <1>3, <1>4, <1>5 DEF LifeParts

LEMMA RemoveIds ==
    ASSUME NEW s \in Seq(Entry), IdsDiffer(s), NEW k \in DOMAIN s, NEW t, t = RemoveAt(s, k)
    PROVE  /\ IdsDiffer(t)
           /\ \A i \in DOMAIN t : \E j \in DOMAIN s : t[i] = s[j]
<1>1. PICK n \in Nat : n = Len(s) /\ DOMAIN s = 1..n /\ k \in 1..n
  OBVIOUS
<1>2. t \in Seq(Entry) /\ Len(t) = n - 1
      /\ \A i \in 1..(n - 1) : t[i] = IF i < k THEN s[i] ELSE s[i + 1]
  BY <1>1, RemoveAtIndex
<1>3. DOMAIN t = 1..(n - 1)
  BY <1>1, <1>2
<1> DEFINE from(i) == IF i < k THEN i ELSE i + 1
<1>4. \A i \in 1..(n - 1) : from(i) \in 1..n /\ t[i] = s[from(i)]
  BY <1>1, <1>2
<1>5. \A i, j \in 1..(n - 1) : from(i) = from(j) => i = j
  BY <1>1
<1> HIDE DEF from
<1>6. ASSUME NEW i \in 1..(n - 1), NEW j \in 1..(n - 1), t[i].id = t[j].id
      PROVE  i = j
  <2>1. s[from(i)].id = s[from(j)].id
    BY <1>4, <1>6
  <2>2. from(i) = from(j)
    BY <1>1, <1>4, <2>1 DEF IdsDiffer
  <2> QED
    BY <1>5, <2>2
<1>7. IdsDiffer(t)
  BY <1>3, <1>6 DEF IdsDiffer
<1> QED
  BY <1>1, <1>3, <1>4, <1>7

LEMMA ProcessCancelledLife ==
    ASSUME TypeOK, LifeParts, ProcessCancelled
    PROVE  LifeParts'
<1>1. /\ Fetch("cancelled") /\ book' = Without(Message("cancelled"))
      /\ UNCHANGED <<store, api, log, outbox, fault>>
      /\ "cancelled" \in Topic /\ "created" \in Topic
  BY DEF ProcessCancelled, Topic
<1>2. position'["created"] = position["created"]
  BY <1>1, FetchFacts
<1>3. book \in [Side -> Seq(Entry)] /\ \A side \in Side : IdsDiffer(book[side])
  BY DEF TypeOK, LifeParts, RestsOnce
<1>4. ASSUME NEW side \in Side
      PROVE  /\ IdsDiffer(book'[side])
             /\ \A i \in DOMAIN book'[side] :
                    \E j \in DOMAIN book[side] : book'[side][i] = book[side][j]
  <2>1. CASE book' = book
    BY <1>3, <2>1
  <2>2. CASE \E s \in Side : \E k \in DOMAIN book[s] : book' = [book EXCEPT ![s] = RemoveAt(@, k)]
    <3>0. PICK s \in Side :
            \E k \in DOMAIN book[s] : book' = [book EXCEPT ![s] = RemoveAt(@, k)]
      BY <2>2
    <3>1. PICK k \in DOMAIN book[s] : book' = [book EXCEPT ![s] = RemoveAt(@, k)]
      BY <3>0
    <3>2. CASE s = side
      <4>1. PICK old \in Seq(Entry) : old = book[side] /\ k \in DOMAIN old /\ IdsDiffer(old)
        BY <1>3, <3>2
      <4>2. PICK new : new = book'[side] /\ new = RemoveAt(old, k)
        BY <1>3, <3>1, <3>2, <4>1
      <4>3. IdsDiffer(new) /\ \A i \in DOMAIN new : \E j \in DOMAIN old : new[i] = old[j]
        BY <4>1, <4>2, RemoveIds
      <4> QED
        BY <4>1, <4>2, <4>3
    <3>3. CASE s # side
      BY <1>3, <3>1, <3>3
    <3> QED
      BY <3>2, <3>3
  <2> QED
    BY <1>1, <2>1, <2>2, WithoutFacts
<1> QED
  BY <1>1, <1>2, <1>4, FewerEntries DEF store, api

\* What stays so when only the progress of rows changes.
LEMMA RowsLife ==
    ASSUME TypeOK, LifeParts, UNCHANGED <<placed, cancels, publishing, log, engine>>,
           position'["created"] = position["created"],
           \A x \in ToSet(placed) : /\ rows'[x].size = rows[x].size
                                    /\ rows'[x].side = rows[x].side,
           \A x \in ToSet(placed) \ Taken : rows'[x] = rows[x],
           \A side \in Side : \A i \in DOMAIN book[side] :
                LET e == book[side][i]
                IN  cancels[e.id] = 0 =>
                        /\ rows'[e.id].status \in {"pending", "partial"}
                        /\ e.left <= rows'[e.id].remaining
    PROVE  LifeParts'
<1>1. Taken' = Taken /\ Fills' = Fills /\ Rejects' = Rejects /\ book' = book
  BY DEF Taken, Fills, Rejects, engine
<1>2. AnnouncedOnce' /\ FillsAreSound'
  BY <1>1 DEF LifeParts, AnnouncedOnce, FillsAreSound
<1>3. \A side \in Side : \A i \in DOMAIN book[side] : book[side][i].id \in ToSet(placed)
  BY TakenFacts DEF LifeParts, RestsOnce
<1>4. RestsOnce'
  BY <1>1, <1>3 DEF LifeParts, RestsOnce, IdsDiffer
<1>5. WithinSize'
  BY <1>1, <1>3 DEF LifeParts, WithinSize
<1>6. RowsShowNoLess'
  BY <1>1, <1>3, TakenFacts DEF LifeParts, RowsShowNoLess, Open
<1> QED
  BY <1>2, <1>4, <1>5, <1>6 DEF LifeParts

LEMMA OrderMatchedLife ==
    ASSUME TypeOK, LifeParts, OrderMatched
    PROVE  LifeParts'
<1>1. /\ Fetch("matched") /\ fn_process_order_matched(Message("matched"))
      /\ UNCHANGED <<placed, api, log, engine, fault>>
      /\ "matched" \in IndexerTopic /\ "matched" \in Topic /\ "created" \in Topic
  BY DEF OrderMatched, IndexerTopic, Topic
<1>2. PICK f \in Fill : f = Message("matched") /\ f \in Fills
  BY <1>1, IndexerMessage DEF Fills
<1>3. rows' = [rows EXCEPT ![f.maker] = AfterFill(@, f.makerLeft),
                           ![f.taker] = AfterFill(@, f.takerLeft)]
  BY <1>1, <1>2 DEF fn_process_order_matched
<1>5. position'["created"] = position["created"]
  BY <1>1, FetchFacts
<1> DEFINE Row == [side : Side, size : Int, remaining : Int,
             status : {"pending", "partial", "matched", "cancelled", "rejected"}]
<1>6. \A row \in Row : \A left \in Int :
        /\ AfterFill(row, left).size = row.size /\ AfterFill(row, left).side = row.side
        /\ AfterFill(row, left).remaining = left
        /\ left # 0 => AfterFill(row, left).status = "partial"
        /\ AfterFill(row, left) \in Row
  BY DEF AfterFill
<1>7. rows \in [ToSet(placed) -> Row]
  BY DEF TypeOK
<1>8. f.makerLeft \in Int /\ f.takerLeft \in Int
  BY DEF Fill
<1> HIDE DEF Row
<1>9. \A x \in ToSet(placed) :
        \/ rows'[x] = rows[x]
        \/ x = f.maker /\ rows'[x] = AfterFill(rows[x], f.makerLeft)
        \/ x = f.taker /\ \E row \in Row : /\ rows'[x] = AfterFill(row, f.takerLeft)
                                           /\ row.size = rows[x].size /\ row.side = rows[x].side
  BY <1>3, <1>6, <1>7, <1>8
<1>10. \A x \in ToSet(placed) :
        /\ rows'[x].size = rows[x].size /\ rows'[x].side = rows[x].side
        /\ \/ rows'[x] = rows[x]
           \/ /\ x = f.maker /\ rows'[x].remaining = f.makerLeft
              /\ f.makerLeft # 0 => rows'[x].status = "partial"
           \/ /\ x = f.taker /\ rows'[x].remaining = f.takerLeft
              /\ f.takerLeft # 0 => rows'[x].status = "partial"
  <2> SUFFICES ASSUME NEW x \in ToSet(placed)
               PROVE  /\ rows'[x].size = rows[x].size /\ rows'[x].side = rows[x].side
                      /\ \/ rows'[x] = rows[x]
                         \/ /\ x = f.maker /\ rows'[x].remaining = f.makerLeft
                            /\ f.makerLeft # 0 => rows'[x].status = "partial"
                         \/ /\ x = f.taker /\ rows'[x].remaining = f.takerLeft
                            /\ f.takerLeft # 0 => rows'[x].status = "partial"
    OBVIOUS
  <2>1. CASE rows'[x] = rows[x]
    BY <2>1
  <2>2. CASE x = f.maker /\ rows'[x] = AfterFill(rows[x], f.makerLeft)
    <3>1. rows[x] \in Row
      BY <1>7
    <3> QED
      BY <1>6, <1>8, <2>2, <3>1
  <2>3. CASE x = f.taker /\ \E row \in Row : /\ rows'[x] = AfterFill(row, f.takerLeft)
                                             /\ row.size = rows[x].size
                                             /\ row.side = rows[x].side
    BY <1>6, <1>8, <2>3
  <2> QED
    BY <1>9, <2>1, <2>2, <2>3
<1>11. ASSUME NEW side \in Side, NEW i \in DOMAIN book[side], NEW e \in Entry,
              e = book[side][i], cancels[e.id] = 0
       PROVE  /\ rows'[e.id].status \in {"pending", "partial"}
              /\ e.left <= rows'[e.id].remaining
  <2>1. e.left > 0 /\ e.id \in ToSet(placed) /\ e.left \in Int
    BY <1>11, TakenFacts DEF LifeParts, WithinSize, RestsOnce, Entry
  <2>2. /\ f.maker = e.id => e.left <= f.makerLeft
        /\ f.taker = e.id => e.left <= f.takerLeft
        /\ rows[e.id].status \in {"pending", "partial"} /\ e.left <= rows[e.id].remaining
    BY <1>2, <1>11 DEF LifeParts, RowsShowNoLess, Open
  <2>3. CASE rows'[e.id] = rows[e.id]
    BY <2>2, <2>3
  <2>4. CASE /\ e.id = f.maker /\ rows'[e.id].remaining = f.makerLeft
             /\ f.makerLeft # 0 => rows'[e.id].status = "partial"
    BY <1>8, <2>1, <2>2, <2>4
  <2>5. CASE /\ e.id = f.taker /\ rows'[e.id].remaining = f.takerLeft
             /\ f.takerLeft # 0 => rows'[e.id].status = "partial"
    BY <1>8, <2>1, <2>2, <2>5
  <2> QED
    BY <1>10, <2>1, <2>3, <2>4, <2>5
<1>12. \A side \in Side : \A i \in DOMAIN book[side] : book[side][i] \in Entry
  BY DEF TypeOK
<1>13. \A x \in ToSet(placed) \ Taken : rows'[x] = rows[x]
  <2>1. f.maker \in Taken /\ f.taker \in Taken
    BY <1>2 DEF LifeParts, FillsAreSound
  <2> QED
    BY <1>3, <1>7, <2>1
<1> QED
  BY <1>1, <1>5, <1>10, <1>11, <1>12, <1>13, RowsLife DEF api

LEMMA OrderRejectedLife ==
    ASSUME TypeOK, LifeParts, OrderRejected
    PROVE  LifeParts'
<1>1. /\ Fetch("rejected") /\ rows' = [rows EXCEPT ![Message("rejected")].status = "rejected"]
      /\ UNCHANGED <<placed, tradeRows, api, log, engine, fault>>
      /\ "rejected" \in IndexerTopic /\ "rejected" \in Topic /\ "created" \in Topic
  BY DEF OrderRejected, IndexerTopic, Topic
<1>2. PICK o \in Rejects : o = Message("rejected") /\ o \in ToSet(placed)
  BY <1>1, IndexerMessage, TakenFacts DEF Rejects, LifeParts, RowsShowNoLess
<1>3. position'["created"] = position["created"]
  BY <1>1, FetchFacts
<1>4. \A x \in ToSet(placed) :
        /\ rows'[x].size = rows[x].size /\ rows'[x].side = rows[x].side
        /\ x # o => rows'[x] = rows[x]
  BY <1>1, <1>2 DEF TypeOK
<1>5. ASSUME NEW side \in Side, NEW i \in DOMAIN book[side], NEW e \in Entry,
             e = book[side][i], cancels[e.id] = 0
      PROVE  /\ rows'[e.id].status \in {"pending", "partial"}
             /\ e.left <= rows'[e.id].remaining
  <2>1. /\ e.left > 0 /\ e.id \in ToSet(placed) /\ e.left <= rows[e.id].size
        /\ rows[e.id].status \in {"pending", "partial"} /\ e.left <= rows[e.id].remaining
    BY <1>5, TakenFacts DEF LifeParts, WithinSize, RestsOnce, RowsShowNoLess, Open
  <2>2. rows[e.id].size \in Int /\ e.left \in Int
    BY <2>1, RowFacts DEF Entry
  <2>3. e.id # o
    BY <1>2, <2>1, <2>2 DEF LifeParts, RowsShowNoLess
  <2> QED
    BY <1>4, <2>1, <2>3
<1>6. \A side \in Side : \A i \in DOMAIN book[side] : book[side][i] \in Entry
  BY DEF TypeOK
<1>7. \A x \in ToSet(placed) \ Taken : rows'[x] = rows[x]
  BY <1>2, <1>4 DEF LifeParts, RowsShowNoLess
<1> QED
  BY <1>1, <1>3, <1>4, <1>5, <1>6, <1>7, RowsLife DEF api

\* Fills of others change nothing.
LEMMA TradedOthers ==
    ASSUME NEW fills, NEW more, fills \subseteq more, NEW x,
           \A f \in more \ fills : x \notin {f.maker, f.taker}
    PROVE  Traded(x, more) = Traded(x, fills)
<1>1. {f \in more : x \in {f.maker, f.taker}} = {f \in fills : x \in {f.maker, f.taker}}
  OBVIOUS
<1> QED
  BY <1>1, Zenon DEF Traded

\* The state in which the engine takes an order: it is new to the engine, and
\* nothing waits to be published.
LEMMA TakeFacts ==
    ASSUME TypeOK, LifeParts, ProcessCreated, NEW o, o = Message("created")
    PROVE  /\ o \in ToSet(placed) /\ o \notin Taken /\ Taken' = Taken \cup {o}
           /\ position'["created"] = position["created"] + 1 /\ position["created"] \in Nat
           /\ Fills = ToSet(log["matched"]) /\ Rejects = ToSet(log["rejected"])
           /\ UNCHANGED <<rows, placed, cancels, publishing, log>>
           /\ AnnouncedOnce'
<1>1. /\ Fetch("created") /\ o \in ToSet(placed) /\ o = log["created"][position["created"] + 1]
      /\ UNCHANGED <<rows, placed, cancels, publishing, log>> /\ "created" \in Topic
  BY CreatedFacts DEF store, api, Topic
<1>2. /\ position["created"] + 1 \in DOMAIN log["created"]
      /\ position'["created"] = position["created"] + 1
  BY <1>1, FetchFacts
<1>3. PICK p \in Nat, n \in Nat : p = position["created"] /\ n = Len(log["created"])
                                  /\ p + 1 \in 1..n /\ DOMAIN log["created"] = 1..n
  BY <1>2, TakenFacts
<1>4. o \notin Taken
  <2> SUFFICES ASSUME NEW i \in 1..p, log["created"][i] = o
               PROVE  FALSE
    BY <1>3 DEF Taken
  <2>1. i \in 1..n /\ i # p + 1
    BY <1>3
  <2> QED
    BY <1>1, <1>3, <2>1 DEF LifeParts, AnnouncedOnce, IsInjective
<1>5. Taken' = Taken \cup {o}
  <2>1. 1..(p + 1) = 1..p \cup {p + 1}
    OBVIOUS
  <2> QED
    BY <1>1, <1>2, <1>3, <2>1 DEF Taken
<1>6. outbox = <<>>
  BY <1>1 DEF TypeOK, Fetch
<1>7. ToSet(outbox) = {}
  BY <1>6 DEF ToSet
<1>8. Fills = ToSet(log["matched"]) /\ Rejects = ToSet(log["rejected"])
  BY <1>7 DEF Fills, Rejects
<1>9. AnnouncedOnce'
  BY <1>1 DEF LifeParts, AnnouncedOnce
<1> QED
  BY <1>1, <1>2, <1>3, <1>4, <1>5, <1>8, <1>9

\* Every fill is older than the order that is taken now.
LEMMA OldFills ==
    ASSUME TypeOK, LifeParts, NEW f \in Fills
    PROVE  /\ f.size > 0 /\ {f.maker, f.taker} \subseteq Taken
           /\ f.trade[2] < position["created"] + 1
<1>1. f \in Fill /\ position["created"] \in Nat
  BY FillsFinite, TakenFacts DEF FillsAreFinite
<1>2. f.trade[2] \in Nat
  BY <1>1 DEF Fill
<1> QED
  BY <1>1, <1>2 DEF LifeParts, FillsAreSound

LEMMA RejectLife ==
    ASSUME TypeOK, LifeParts, ProcessCreated, NEW o, o = Message("created"),
           rows[o].size <= 0
    PROVE  LifeParts'
<1>1. /\ o \in ToSet(placed) /\ o \notin Taken /\ Taken' = Taken \cup {o}
      /\ position'["created"] = position["created"] + 1
      /\ Fills = ToSet(log["matched"]) /\ Rejects = ToSet(log["rejected"])
      /\ UNCHANGED <<rows, placed, cancels, publishing, log>>
      /\ AnnouncedOnce'
  BY TakeFacts
<1>2. outbox' = <<Envelope("rejected", o)>> /\ UNCHANGED book
  BY DEF ProcessCreated
<1>3. ToSet(outbox)' = {Envelope("rejected", o)}
  BY <1>2 DEF ToSet
<1>4. Envelope("rejected", o).topic = "rejected" /\ Envelope("rejected", o).body = o
  BY DEF Envelope
<1>5. Fills' = Fills /\ Rejects' = Rejects \cup {o}
  BY <1>1, <1>3, <1>4 DEF Fills, Rejects
<1>6. RestsOnce'
  BY <1>1, <1>2 DEF LifeParts, RestsOnce, IdsDiffer
<1>7. FillsAreSound'
  BY <1>1, <1>5, OldFills DEF FillsAreSound
<1>8. WithinSize'
  BY <1>1, <1>2, <1>5 DEF LifeParts, WithinSize
<1>9. RowsShowNoLess'
  BY <1>1, <1>2, <1>5 DEF LifeParts, RowsShowNoLess, Open
<1> QED
  BY <1>1, <1>6, <1>7, <1>8, <1>9 DEF LifeParts

\* The step in which an order meets the makers: what the engine had on the two
\* sides, what it makes of them, and what it publishes.
Matched(o, side, opposite, makers, rest, own, m, fills, new) ==
    /\ side = rows[o].side /\ opposite # side /\ \A s \in Side : s = side \/ s = opposite
    /\ makers = book[opposite] /\ rest = book[side]
    /\ book'[opposite] = m.kept /\ book'[side] = own
    /\ outbox' = [i \in DOMAIN m.fills |-> Envelope("matched", m.fills[i])]
    /\ fills = Fills /\ IsFiniteSet(fills) /\ new = ToSet(m.fills) /\ IsFiniteSet(new)
    /\ Fills' = fills \cup new /\ Rejects' = Rejects
    /\ IdsDiffer(makers) /\ IdsDiffer(rest)
    /\ \A i \in DOMAIN makers :
            /\ makers[i].id \in Taken /\ makers[i].id \in ToSet(placed) /\ makers[i].id # o
            /\ rows[makers[i].id].side = opposite
            /\ makers[i].left > 0
            /\ Traded(makers[i].id, fills) + makers[i].left <= rows[makers[i].id].size
    /\ \A i \in DOMAIN rest :
            /\ rest[i].id \in Taken /\ rest[i].id \in ToSet(placed) /\ rest[i].id # o
            /\ rows[rest[i].id].side = side
            /\ rest[i].left > 0
            /\ Traded(rest[i].id, fills) + rest[i].left <= rows[rest[i].id].size
    /\ Older(fills) /\ \A f \in fills : o \notin {f.maker, f.taker}
    /\ Shape(m, Len(makers), o, makers)
    /\ RoomFor(m, Len(makers), o, makers, fills, fills \cup new)
    /\ MakersExact(makers, fills) /\ Exact(fills) => Exact(fills \cup new)
    /\ \A j \in DOMAIN own :
            \/ j \in DOMAIN rest /\ own[j] = rest[j]
            \/ /\ j \notin DOMAIN rest /\ j = Len(rest) + 1 /\ m.left > 0
               /\ own[j].id = o /\ own[j].left = m.left
    /\ \A j \in DOMAIN rest : j \in DOMAIN own /\ own[j] = rest[j]
    /\ m.left > 0 => \E j \in DOMAIN own : own[j].id = o /\ own[j].left = m.left

LEMMA MatchFacts ==
    ASSUME TypeOK, LifeParts, ProcessCreated, NEW o, o = Message("created"),
           ~ (rows[o].size <= 0)
    PROVE  \E side \in Side, opposite \in Side, makers \in Seq(Entry), rest \in Seq(Entry),
              own \in Seq(Entry), m \in Acc, fills \in SUBSET Fill, new \in SUBSET Fill :
                Matched(o, side, opposite, makers, rest, own, m, fills, new)
<1>1. /\ o \in ToSet(placed) /\ o \notin Taken /\ Taken' = Taken \cup {o}
      /\ position'["created"] = position["created"] + 1 /\ position["created"] \in Nat
      /\ Fills = ToSet(log["matched"]) /\ Rejects = ToSet(log["rejected"])
      /\ UNCHANGED <<rows, placed, cancels, publishing, log>>
      /\ AnnouncedOnce'
  BY TakeFacts
<1>2. PICK side \in Side, opposite \in Side :
            side = rows[o].side /\ opposite = Opposite(side) /\ opposite # side
            /\ \A s \in Side : s = side \/ s = opposite
  <2>1. rows[o].side \in Side /\ Opposite(rows[o].side) \in Side
    BY <1>1, RowFacts
  <2> QED
    BY <2>1 DEF Side, Opposite
<1>3. PICK makers \in Seq(Entry), rest \in Seq(Entry) :
            makers = book[opposite] /\ rest = book[side]
  BY DEF TypeOK
<1>4. PICK m \in Acc : m = Matching(o, makers)
  BY <1>1, MatchingType
<1>5. /\ outbox' = [i \in DOMAIN m.fills |-> Envelope("matched", m.fills[i])]
      /\ book' = [book EXCEPT
            ![opposite] = m.kept,
            ![side] = IF m.left > 0 THEN Append(@, [id |-> o, left |-> m.left]) ELSE @]
  BY <1>2, <1>3, <1>4 DEF ProcessCreated
<1>8. /\ m.left \in Int /\ m.fills \in Seq(Fill) /\ m.kept \in Seq(Entry)
      /\ rows[o].size \in Int /\ rows[o].remaining \in Int /\ o \in Order
  BY <1>1, RowFacts DEF Acc
<1>6. PICK own \in Seq(Entry) :
            own = IF m.left > 0 THEN Append(rest, [id |-> o, left |-> m.left]) ELSE rest
  <2>1. [id |-> o, left |-> m.left] \in Entry
    BY <1>8 DEF Entry
  <2>2. Append(rest, [id |-> o, left |-> m.left]) \in Seq(Entry)
    BY <2>1, AppendFacts
  <2> QED
    BY <2>2
<1>7. book'[opposite] = m.kept /\ book'[side] = own
  BY <1>2, <1>3, <1>5, <1>6 DEF TypeOK
<1>9. PICK fills \in SUBSET Fill : fills = Fills /\ IsFiniteSet(fills)
  BY FillsFinite DEF FillsAreFinite
\* What the engine had on the two sides.
<1>10. /\ IdsDiffer(makers) /\ IdsDiffer(rest)
       /\ \A i \in DOMAIN makers :
            /\ makers[i].id \in Taken /\ makers[i].id \in ToSet(placed) /\ makers[i].id # o
            /\ rows[makers[i].id].side = opposite
            /\ makers[i].left > 0
            /\ Traded(makers[i].id, fills) + makers[i].left <= rows[makers[i].id].size
       /\ \A i \in DOMAIN rest :
            /\ rest[i].id \in Taken /\ rest[i].id \in ToSet(placed) /\ rest[i].id # o
            /\ rows[rest[i].id].side = side
            /\ rest[i].left > 0
            /\ Traded(rest[i].id, fills) + rest[i].left <= rows[rest[i].id].size
  <2>1. \A s \in Side :
            /\ IdsDiffer(book[s])
            /\ \A i \in DOMAIN book[s] :
                /\ book[s][i].id \in Taken /\ rows[book[s][i].id].side = s
                /\ book[s][i].left > 0
                /\ Traded(book[s][i].id, Fills) + book[s][i].left <= rows[book[s][i].id].size
    BY DEF LifeParts, RestsOnce, WithinSize
  <2>2. \A x \in Taken : x \in ToSet(placed) /\ x # o
    BY <1>1, TakenFacts
  <2> QED
    BY <1>3, <1>9, <2>1, <2>2
<1>11. Older(fills) /\ \A f \in fills : o \notin {f.maker, f.taker}
  BY <1>1, <1>9 DEF LifeParts, FillsAreSound, Older
<1>13. /\ Shape(m, Len(makers), o, makers) /\ Room(m, Len(makers), o, makers, fills)
       /\ MakersExact(makers, fills) /\ Exact(fills) => Exact(fills \cup ToSet(m.fills))
  <2>1. rows[o].size > 0
    BY <1>8
  <2> QED
    BY <1>1, <1>4, <1>9, <1>10, <1>11, <2>1, WalkFacts
\* What is published.
<1>14. PICK new \in SUBSET Fill : new = ToSet(m.fills) /\ IsFiniteSet(new)
  BY <1>8, ToSetFinite
<1>16. Fills' = fills \cup new /\ Rejects' = Rejects
  <2>1. \A f : Envelope("matched", f).topic = "matched" /\ Envelope("matched", f).body = f
    BY DEF Envelope
  <2>2. ToSet(outbox)' = {Envelope("matched", f) : f \in new}
    BY <1>5, <1>14 DEF ToSet
  <2>3. {n.body : n \in {n \in ToSet(outbox)' : n.topic = "matched"}} = new
    BY <2>1, <2>2
  <2>4. {n.body : n \in {n \in ToSet(outbox)' : n.topic = "rejected"}} = {}
    BY <2>1, <2>2
  <2>5. ToSet(log["matched"])' = ToSet(log["matched"])
        /\ ToSet(log["rejected"])' = ToSet(log["rejected"])
    BY <1>1
  <2>6. Fills' = ToSet(log["matched"]) \cup new
    BY <2>3, <2>5 DEF Fills
  <2>7. Rejects' = ToSet(log["rejected"])
    BY <2>4, <2>5 DEF Rejects
  <2> QED
    BY <1>1, <1>9, <2>6, <2>7
\* What rests on the order's own side.
<1>20. \A j \in DOMAIN own :
            \/ j \in DOMAIN rest /\ own[j] = rest[j]
            \/ /\ j \notin DOMAIN rest /\ j = Len(rest) + 1 /\ m.left > 0
               /\ own[j].id = o /\ own[j].left = m.left
  <2>1. CASE m.left > 0
    <3>1. PICK e : e = [id |-> o, left |-> m.left]
      OBVIOUS
    <3>0. e.id = o /\ e.left = m.left
      BY <3>1
    <3>2. own = Append(rest, e)
      BY <1>6, <2>1, <3>1
    <3> QED
      BY <2>1, <3>0, <3>2, AppendIndex
  <2>2. CASE ~ (m.left > 0)
    BY <1>6, <2>2
  <2> QED
    BY <2>1, <2>2
<1>21. /\ \A j \in DOMAIN rest : j \in DOMAIN own /\ own[j] = rest[j]
       /\ m.left > 0 => \E j \in DOMAIN own : own[j].id = o /\ own[j].left = m.left
  <2>1. CASE m.left > 0
    <3>1. PICK e : e = [id |-> o, left |-> m.left]
      OBVIOUS
    <3>2. e.id = o /\ e.left = m.left
      BY <3>1
    <3>3. own = Append(rest, e)
      BY <1>6, <2>1, <3>1
    <3>4. Len(rest) + 1 \in DOMAIN own /\ own[Len(rest) + 1] = e
          /\ \A j \in DOMAIN rest : j \in DOMAIN own /\ own[j] = rest[j]
      BY <3>3, AppendIndex
    <3> QED
      BY <3>2, <3>4
  <2>2. CASE ~ (m.left > 0)
    BY <1>6, <2>2
  <2> QED
    BY <2>1, <2>2
<1>22. RoomFor(m, Len(makers), o, makers, fills, fills \cup new)
  BY <1>13, <1>14 DEF Room
<1>23. Matched(o, side, opposite, makers, rest, own, m, fills, new)
  BY <1>2, <1>3, <1>5, <1>7, <1>9, <1>10, <1>11, <1>13, <1>14, <1>16, <1>20, <1>21, <1>22
     DEF Matched
<1> QED
  BY <1>8, <1>9, <1>14, <1>23

LEMMA MatchLife ==
    ASSUME TypeOK, LifeParts, ProcessCreated, NEW o, o = Message("created"),
           ~ (rows[o].size <= 0)
    PROVE  LifeParts'
<1>1. /\ o \in ToSet(placed) /\ o \notin Taken /\ Taken' = Taken \cup {o}
      /\ position'["created"] = position["created"] + 1 /\ position["created"] \in Nat
      /\ Fills = ToSet(log["matched"]) /\ Rejects = ToSet(log["rejected"])
      /\ UNCHANGED <<rows, placed, cancels, publishing, log>>
      /\ AnnouncedOnce'
  BY TakeFacts
<1>0. PICK side \in Side, opposite \in Side, makers \in Seq(Entry), rest \in Seq(Entry),
           own \in Seq(Entry), m \in Acc, fills \in SUBSET Fill, new \in SUBSET Fill :
                Matched(o, side, opposite, makers, rest, own, m, fills, new)
  BY MatchFacts
<1>2. side = rows[o].side /\ opposite # side /\ \A s \in Side : s = side \/ s = opposite
  BY <1>0 DEF Matched
<1>3. makers = book[opposite] /\ rest = book[side]
  BY <1>0 DEF Matched
<1>7. book'[opposite] = m.kept /\ book'[side] = own
  BY <1>0 DEF Matched
<1>8. /\ m.left \in Int /\ m.fills \in Seq(Fill) /\ m.kept \in Seq(Entry)
      /\ rows[o].size \in Int /\ rows[o].remaining \in Int /\ o \in Order
  BY <1>1, RowFacts DEF Acc
<1>9. fills = Fills /\ IsFiniteSet(fills)
  BY <1>0 DEF Matched
<1>10. /\ IdsDiffer(makers) /\ IdsDiffer(rest)
       /\ \A i \in DOMAIN makers :
            /\ makers[i].id \in Taken /\ makers[i].id \in ToSet(placed) /\ makers[i].id # o
            /\ rows[makers[i].id].side = opposite
            /\ makers[i].left > 0
            /\ Traded(makers[i].id, fills) + makers[i].left <= rows[makers[i].id].size
       /\ \A i \in DOMAIN rest :
            /\ rest[i].id \in Taken /\ rest[i].id \in ToSet(placed) /\ rest[i].id # o
            /\ rows[rest[i].id].side = side
            /\ rest[i].left > 0
            /\ Traded(rest[i].id, fills) + rest[i].left <= rows[rest[i].id].size
  BY <1>0 DEF Matched
<1>11. \A f \in fills : o \notin {f.maker, f.taker}
  BY <1>0 DEF Matched
<1>12. \A x \in ToSet(placed) : rows[x].size > 0 => Traded(x, fills) <= rows[x].size
  BY <1>9 DEF LifeParts, WithinSize
<1>13. Shape(m, Len(makers), o, makers)
  BY <1>0 DEF Matched
<1>14. new = ToSet(m.fills) /\ IsFiniteSet(new)
  BY <1>0 DEF Matched
<1>15. PICK all \in SUBSET Fill : all = fills \cup new /\ IsFiniteSet(all)
  <2>1. IsFiniteSet(fills \cup new)
    BY <1>9, <1>14, FS_Union
  <2> QED
    BY <2>1
<1>16. Fills' = all /\ Rejects' = Rejects
  BY <1>0, <1>15 DEF Matched
<1>17. \A f \in new : /\ f.size > 0 /\ f.taker = o /\ m.left <= f.takerLeft
                      /\ f.trade[2] = position["created"]
                      /\ \E i \in DOMAIN makers : f.maker = makers[i].id
                      /\ \A j \in DOMAIN m.kept :
                            f.maker = m.kept[j].id => m.kept[j].left <= f.makerLeft
  <2> SUFFICES ASSUME NEW n \in DOMAIN m.fills, NEW f, f = m.fills[n]
               PROVE  /\ f.size > 0 /\ f.taker = o /\ m.left <= f.takerLeft
                      /\ f.trade[2] = position["created"]
                      /\ \E i \in DOMAIN makers : f.maker = makers[i].id
                      /\ \A j \in DOMAIN m.kept :
                            f.maker = m.kept[j].id => m.kept[j].left <= f.makerLeft
    BY <1>14 DEF ToSet
  <2>1. DOMAIN makers = 1..Len(makers)
    OBVIOUS
  <2> QED
    BY <1>13, <2>1 DEF Shape, FillShape
<1>18. \A j \in DOMAIN m.kept :
            /\ m.kept[j].left > 0
            /\ \E i \in DOMAIN makers : /\ m.kept[j].id = makers[i].id
                                        /\ m.kept[j].left <= makers[i].left
  <2>1. DOMAIN makers = 1..Len(makers)
    OBVIOUS
  <2> QED
    BY <1>13, <2>1 DEF Shape
<1>19. /\ Traded(o, all) + m.left <= rows[o].size
       /\ \A j \in DOMAIN m.kept :
            Traded(m.kept[j].id, all) + m.kept[j].left <= rows[m.kept[j].id].size
       /\ \A x \in ToSet(placed) : rows[x].size > 0 => Traded(x, all) <= rows[x].size
  <2>1. RoomFor(m, Len(makers), o, makers, fills, all) /\ DOMAIN makers = 1..Len(makers)
    BY <1>0, <1>15 DEF Matched
  <2>2. \A x : Traded(x, all) \in Int /\ Traded(x, fills) \in Int
    BY <1>9, <1>15, TradedIsInt
  <2>3. Traded(o, all) + m.left = rows[o].size /\ m.left >= 0
    BY <1>13, <2>1 DEF RoomFor, Shape
  <2>4. ASSUME NEW j \in DOMAIN m.kept
        PROVE  Traded(m.kept[j].id, all) + m.kept[j].left <= rows[m.kept[j].id].size
    <3>1. PICK i \in DOMAIN makers : KeptOf(m.kept[j], makers[i], fills, all)
      BY <2>1 DEF RoomFor
    <3> QED
      BY <1>10, <3>1 DEF KeptOf
  <2>5. ASSUME NEW i \in DOMAIN makers, NEW x, x = makers[i].id
        PROVE  Traded(x, all) <= rows[x].size
    <3>1. rows[x].size \in Int /\ makers[i] \in Entry /\ makers[i].left \in Int
          /\ Traded(x, fills) + makers[i].left <= rows[x].size
      <4>1. x \in ToSet(placed) /\ Traded(x, fills) + makers[i].left <= rows[x].size
        BY <1>10, <2>5
      <4>2. makers[i] \in Entry /\ makers[i].left \in Int
        <5>1. PICK e \in Entry : e = makers[i]
          OBVIOUS
        <5> QED
          BY <5>1 DEF Entry
      <4> QED
        BY <4>1, <4>2, RowFacts
    <3>2. CASE Traded(x, all) = Traded(x, fills) + makers[i].left
      BY <3>1, <3>2
    <3>3. CASE \E j \in DOMAIN m.kept : KeptOf(m.kept[j], makers[i], fills, all)
      <4>1. PICK j \in DOMAIN m.kept : KeptOf(m.kept[j], makers[i], fills, all)
        BY <3>3
      <4>2. PICK e \in Entry : e = m.kept[j] /\ e.left > 0
        BY <1>8, <1>18
      <4>3. Traded(x, all) + e.left = Traded(x, fills) + makers[i].left /\ e.left \in Int
        BY <2>5, <4>1, <4>2 DEF KeptOf, Entry
      <4> QED
        BY <2>2, <3>1, <4>2, <4>3
    <3> QED
      BY <2>1, <2>5, <3>2, <3>3 DEF RoomFor
  <2>6. ASSUME NEW x \in ToSet(placed), rows[x].size > 0
        PROVE  Traded(x, all) <= rows[x].size
    <3>1. CASE x = o
      BY <1>8, <2>2, <2>3, <3>1
    <3>2. CASE \E i \in DOMAIN makers : x = makers[i].id
      BY <2>5, <3>2
    <3>3. CASE x # o /\ \A i \in DOMAIN makers : x # makers[i].id
      <4>1. \A f \in all \ fills : x \notin {f.maker, f.taker}
        BY <1>15, <1>17, <3>3
      <4>2. Traded(x, all) = Traded(x, fills)
        BY <1>15, <4>1, TradedOthers
      <4> QED
        BY <1>12, <2>6, <4>2
    <3> QED
      BY <3>1, <3>2, <3>3
  <2> QED
    BY <1>8, <2>2, <2>3, <2>4, <2>6
<1>20. \A j \in DOMAIN own :
            \/ j \in DOMAIN rest /\ own[j] = rest[j]
            \/ /\ j \notin DOMAIN rest /\ j = Len(rest) + 1 /\ m.left > 0
               /\ own[j].id = o /\ own[j].left = m.left
  BY <1>0 DEF Matched
<1>21. RestsOnce'
  <2>1. IdsDiffer(own)
    BY <1>10, <1>20 DEF IdsDiffer
  <2>2. IdsDiffer(m.kept)
    BY <1>13 DEF Shape
  <2>3. \A j \in DOMAIN own : own[j].id \in Taken' /\ rows[own[j].id].side = side
    BY <1>1, <1>2, <1>10, <1>20
  <2>4. \A j \in DOMAIN m.kept : m.kept[j].id \in Taken' /\ rows[m.kept[j].id].side = opposite
    BY <1>1, <1>10, <1>18
  <2>5. ASSUME NEW s \in Side
        PROVE  /\ IdsDiffer(book'[s])
               /\ \A j \in DOMAIN book'[s] : book'[s][j].id \in Taken'
                                             /\ rows[book'[s][j].id].side = s
    <3>1. CASE s = side
      BY <1>7, <2>1, <2>3, <3>1
    <3>2. CASE s = opposite
      BY <1>7, <2>2, <2>4, <3>2
    <3> QED
      BY <1>2, <3>1, <3>2
  <2>6. rows' = rows
    BY <1>1
  <2> QED
    BY <2>5, <2>6 DEF RestsOnce, IdsDiffer
<1>22. FillsAreSound'
  <2>1. \A f \in fills : /\ f.size > 0 /\ {f.maker, f.taker} \subseteq Taken
                         /\ f.trade[2] < position["created"] + 1
    BY <1>9, OldFills
  <2>2. \A f \in new : /\ f.size > 0 /\ {f.maker, f.taker} \subseteq Taken'
                       /\ f.trade[2] < position["created"] + 1
    BY <1>1, <1>10, <1>17
  <2> QED
    BY <1>1, <1>15, <1>16, <2>1, <2>2 DEF FillsAreSound
<1>23. WithinSize'
  <2>1. \A x \in ToSet(placed) : rows[x].size > 0 => Traded(x, all) <= rows[x].size
    BY <1>19
  <2>2. ASSUME NEW j \in DOMAIN own, NEW e, e = own[j]
        PROVE  e.left > 0 /\ Traded(e.id, all) + e.left <= rows[e.id].size
    <3>1. CASE j \in DOMAIN rest /\ e = rest[j]
      <4>1. \A f \in all \ fills : e.id \notin {f.maker, f.taker}
        BY <1>2, <1>10, <1>15, <1>17, <3>1
      <4>2. Traded(e.id, all) = Traded(e.id, fills)
        BY <1>15, <4>1, TradedOthers
      <4> QED
        BY <1>10, <3>1, <4>2
    <3>2. CASE e.id = o /\ e.left = m.left /\ m.left > 0
      BY <1>19, <3>2
    <3> QED
      BY <1>20, <2>2, <3>1, <3>2
  <2>3. \A j \in DOMAIN m.kept :
            m.kept[j].left > 0
            /\ Traded(m.kept[j].id, all) + m.kept[j].left <= rows[m.kept[j].id].size
    BY <1>18, <1>19
  <2>4. ASSUME NEW s \in Side, NEW j \in DOMAIN book'[s], NEW e, e = book'[s][j]
        PROVE  e.left > 0 /\ Traded(e.id, all) + e.left <= rows[e.id].size
    <3>1. CASE s = side
      BY <1>7, <2>2, <2>4, <3>1
    <3>2. CASE s = opposite
      BY <1>7, <2>3, <2>4, <3>2
    <3> QED
      BY <1>2, <3>1, <3>2
  <2>5. UNCHANGED <<rows, placed>>
    BY <1>1
  <2> QED
    BY <1>16, <2>1, <2>4, <2>5 DEF WithinSize
<1>24. RowsShowNoLess'
  <2> DEFINE Shown(e) == /\ e.left <= rows[e.id].size
                         /\ \A f \in all : /\ f.maker = e.id => e.left <= f.makerLeft
                                           /\ f.taker = e.id => e.left <= f.takerLeft
                         /\ cancels[e.id] = 0 => Open(e.id) /\ e.left <= rows[e.id].remaining
  <2>1. \A s \in Side : \A i \in DOMAIN book[s] :
            LET e == book[s][i]
            IN  /\ e.left <= rows[e.id].size
                /\ \A f \in fills : /\ f.maker = e.id => e.left <= f.makerLeft
                                    /\ f.taker = e.id => e.left <= f.takerLeft
                /\ cancels[e.id] = 0 => Open(e.id) /\ e.left <= rows[e.id].remaining
    BY <1>9 DEF LifeParts, RowsShowNoLess
  <2>2. ASSUME NEW j \in DOMAIN rest, NEW e, e = rest[j]
        PROVE  Shown(e)
    <3>1. \A f \in new : e.id \notin {f.maker, f.taker}
      BY <1>2, <1>10, <1>17, <2>2
    <3> QED
      BY <1>3, <1>15, <2>1, <2>2, <3>1
  <2>3. ASSUME m.left > 0, NEW e, e.id = o, e.left = m.left
        PROVE  Shown(e)
    <3>1. m.left <= rows[o].size
      <4>1. \A f \in all : f.size > 0
        BY <1>9, <1>15, <1>17 DEF LifeParts, FillsAreSound
      <4>2. {} \in SUBSET all /\ {} \in SUBSET Fill /\ IsFiniteSet({})
        BY FS_EmptySet
      <4>3. Traded(o, {}) <= Traded(o, all) /\ Traded(o, all) \in Int
        BY <1>15, <4>1, <4>2, TradedLess
      <4>4. Traded(o, {}) = 0
        BY <4>2, TradedNone
      <4>5. Traded(o, all) + m.left <= rows[o].size
        BY <1>19
      <4> QED
        BY <1>8, <4>3, <4>4, <4>5
    <3>2. rows[o].remaining = rows[o].size /\ (cancels[o] = 0 => Open(o))
      BY <1>1 DEF LifeParts, RowsShowNoLess
    <3>3. \A f \in fills : f.maker # o /\ f.taker # o
      BY <1>11
    <3>4. \A f \in new : f.maker # o /\ m.left <= f.takerLeft
      BY <1>10, <1>17
    <3> QED
      BY <1>15, <2>3, <3>1, <3>2, <3>3, <3>4
  <2>4. ASSUME NEW j \in DOMAIN m.kept, NEW e \in Entry, e = m.kept[j]
        PROVE  Shown(e)
    <3>1. PICK i \in DOMAIN makers : e.id = makers[i].id /\ e.left <= makers[i].left
      BY <1>18, <2>4
    <3>2. PICK old \in Entry : old = makers[i] /\ e.id = old.id /\ e.left <= old.left
      BY <3>1
    <3>3. /\ old.left <= rows[old.id].size
          /\ \A f \in fills : /\ f.maker = old.id => old.left <= f.makerLeft
                              /\ f.taker = old.id => old.left <= f.takerLeft
          /\ cancels[old.id] = 0 => Open(old.id) /\ old.left <= rows[old.id].remaining
      BY <1>3, <2>1, <3>2
    <3>4. /\ e.left \in Int /\ old.left \in Int
          /\ rows[old.id].size \in Int /\ rows[old.id].remaining \in Int
          /\ \A f \in fills : f.makerLeft \in Int /\ f.takerLeft \in Int
      <4>1. old.id \in ToSet(placed)
        BY <1>10, <3>2
      <4> QED
        BY <4>1, RowFacts DEF Entry, Fill
    <3>5. \A f \in new : f.taker # e.id /\ (f.maker = e.id => e.left <= f.makerLeft)
      BY <1>10, <1>17, <2>4, <3>2
    <3>6. \A f \in fills : /\ f.maker = e.id => e.left <= f.makerLeft
                           /\ f.taker = e.id => e.left <= f.takerLeft
      BY <3>2, <3>3, <3>4
    <3>7. e.left <= rows[e.id].size
      BY <3>2, <3>3, <3>4
    <3>8. cancels[e.id] = 0 => Open(e.id) /\ e.left <= rows[e.id].remaining
      BY <3>2, <3>3, <3>4
    <3> QED
      BY <1>15, <3>5, <3>6, <3>7, <3>8
  <2> HIDE DEF Shown
  <2>5. ASSUME NEW s \in Side, NEW j \in DOMAIN book'[s]
        PROVE  Shown(book'[s][j])
    <3>1. CASE s = side
      BY <1>7, <1>20, <2>2, <2>3, <2>5, <3>1
    <3>2. CASE s = opposite
      <4>1. j \in DOMAIN m.kept /\ book'[s][j] = m.kept[j] /\ m.kept[j] \in Entry
        BY <1>7, <1>8, <2>5, <3>2
      <4> QED
        BY <2>4, <4>1
    <3> QED
      BY <1>2, <3>1, <3>2
  <2>6. \A x \in Rejects : x \in Taken' /\ rows[x].size <= 0
    BY <1>1 DEF LifeParts, RowsShowNoLess
  <2>7. \A x \in ToSet(placed) \ Taken' :
            rows[x].remaining = rows[x].size /\ (cancels[x] = 0 => Open(x))
    BY <1>1 DEF LifeParts, RowsShowNoLess
  <2>8. UNCHANGED <<rows, placed, cancels>>
    BY <1>1
  <2> QED
    BY <1>16, <2>5, <2>6, <2>7, <2>8 DEF RowsShowNoLess, Shown, Open
<1> QED
  BY <1>1, <1>21, <1>22, <1>23, <1>24 DEF LifeParts

\* Whoever takes an order is in one of the two cases.
LEMMA ProcessCreatedLife ==
    ASSUME TypeOK, LifeParts, ProcessCreated
    PROVE  LifeParts'
<1>1. PICK o : o = Message("created")
  OBVIOUS
<1> QED
  BY <1>1, RejectLife, MatchLife

\* No step makes up for a fault that has happened, so before every calm state
\* there were only calm ones.
LEMMA FaultsStay ==
    ASSUME TypeOK, [Next]_vars
    PROVE  \A kind \in FaultKind : fault'[kind] = 0 => fault[kind] = 0
<1>1. UNCHANGED fault \/ \E kinds : Suffer(kinds)
  <2>1. CASE UNCHANGED vars
    BY <2>1 DEF vars
  <2>2. CASE Next
    BY <2>2 DEF Next, CreateLimitOrder, CancelOrder, PublishRequest, RepeatRequest, LoseRequest,
                CommitMessages, CommitFails, ProcessCreated, PublishResult, RepeatResult,
                PublishFails, ProcessCancelled, RestartEngine, RestartEngineEmpty,
                OrderMatched, OrderRejected, DropMessage, RestartIndexer
  <2> QED
    BY <2>1, <2>2
<1>2. \A kind \in FaultKind : fault[kind] \in Nat
  BY DEF TypeOK
<1>3. CASE UNCHANGED fault
  BY <1>3
<1>4. CASE \E kinds : Suffer(kinds)
  <2>1. PICK kinds : Suffer(kinds)
    BY <1>4
  <2>2. \A kind \in FaultKind :
            fault'[kind] = IF kind \in kinds THEN fault[kind] + 1 ELSE fault[kind]
    BY <2>1, SufferFacts
  <2> QED
    BY <1>2, <2>2
<1> QED
  BY <1>1, <1>3, <1>4

LEMMA CalmBefore ==
    ASSUME TypeOK, [Next]_vars, Calm'
    PROVE  Calm
  BY FaultsStay DEF Calm, NoFault, FaultKind

LEMMA NotCalmAfter ==
    ASSUME TypeOK,
           RestartEngine \/ RestartEngineEmpty \/ \E r \in publishing : RepeatRequest(r)
    PROVE  ~ Calm'
<1>1. fault["engineRestart"] \in Nat /\ fault["repeatedRequest"] \in Nat
      /\ "engineRestart" \in FaultKind /\ "repeatedRequest" \in FaultKind
  BY DEF TypeOK, FaultKind
<1>2. CASE RestartEngine \/ RestartEngineEmpty
  <2>1. PICK kinds : Suffer(kinds) /\ "engineRestart" \in kinds
    BY <1>2 DEF RestartEngine, RestartEngineEmpty
  <2>2. fault'["engineRestart"] = fault["engineRestart"] + 1
    BY <1>1, <2>1, SufferFacts
  <2> QED
    BY <1>1, <2>2 DEF Calm, NoFault
<1>3. CASE \E r \in publishing : RepeatRequest(r)
  <2>1. Suffer({"repeatedRequest"})
    BY <1>3 DEF RepeatRequest
  <2>2. fault'["repeatedRequest"] = fault["repeatedRequest"] + 1
    BY <1>1, <2>1, SufferFacts
  <2> QED
    BY <1>1, <2>2 DEF Calm, NoFault
<1> QED
  BY <1>2, <1>3

LEMMA InitLife ==
    Init => LifeInv
<1> SUFFICES ASSUME Init PROVE LifeParts
  BY DEF LifeInv
<1>1. /\ publishing = {} /\ placed = <<>> /\ outbox = <<>>
      /\ log["created"] = <<>> /\ log["matched"] = <<>> /\ log["rejected"] = <<>>
      /\ book["buy"] = <<>> /\ book["sell"] = <<>> /\ position["created"] = 0
  BY DEF Init, Topic, Side
<1>2. /\ ToSet(outbox) = {} /\ ToSet(log["matched"]) = {} /\ ToSet(log["rejected"]) = {}
      /\ ToSet(placed) = {}
  BY <1>1 DEF ToSet
<1>3. Fills = {} /\ Rejects = {}
  BY <1>2 DEF Fills, Rejects
<1>4. \A side \in Side : DOMAIN book[side] = {}
  BY <1>1 DEF Side
<1>5. AnnouncedOnce
  BY <1>1 DEF AnnouncedOnce, IsInjective
<1>6. RestsOnce /\ FillsAreSound
  BY <1>3, <1>4 DEF RestsOnce, FillsAreSound, IdsDiffer
<1>7. WithinSize /\ RowsShowNoLess
  BY <1>2, <1>3, <1>4 DEF WithinSize, RowsShowNoLess
<1> QED
  BY <1>5, <1>6, <1>7 DEF LifeParts

LEMMA StepLife ==
    TypeOK /\ LifeInv /\ [Next]_vars => LifeInv'
<1> SUFFICES ASSUME TypeOK, LifeInv, [Next]_vars, Calm' PROVE LifeParts'
  BY DEF LifeInv
<1>1. LifeParts
  BY CalmBefore DEF LifeInv
<1>2. CASE UNCHANGED vars
  <2>1. UNCHANGED <<rows, placed, publishing, cancels, log, engine>>
        /\ position'["created"] = position["created"]
    BY <1>2 DEF vars, store, api, consumers
  <2> QED
    BY <1>1, <2>1, QuietLife
<1>3. CASE \E w \in Wanted : CreateLimitOrder(w[1], w[2], w[3])
  BY <1>1, <1>3, CreateLife
<1>4. CASE \E o \in Cancellable : CancelOrder(o)
  BY <1>1, <1>4, CancelLife
<1>5. CASE \E r \in publishing : PublishRequest(r) \/ LoseRequest(r)
  BY <1>1, <1>5, RequestLife
<1>6. CASE \E r \in publishing : RepeatRequest(r)
  BY <1>6, NotCalmAfter
<1>7. CASE \E t \in Topic : CommitMessages(t) \/ CommitFails(t)
  BY <1>1, <1>7, CommitLife
<1>8. CASE ProcessCreated
  BY <1>1, <1>8, ProcessCreatedLife
<1>9. CASE PublishResult \/ RepeatResult
  BY <1>1, <1>9, ResultLife
<1>10. CASE PublishFails
  BY <1>1, <1>10, PublishFailsLife
<1>11. CASE ProcessCancelled
  BY <1>1, <1>11, ProcessCancelledLife
<1>12. CASE RestartEngine \/ RestartEngineEmpty
  BY <1>12, NotCalmAfter
<1>13. CASE OrderMatched
  BY <1>1, <1>13, OrderMatchedLife
<1>14. CASE OrderRejected
  BY <1>1, <1>14, OrderRejectedLife
<1>15. CASE \E t \in IndexerTopic : DropMessage(t)
  BY <1>1, <1>15, DropLife
<1>16. CASE RestartIndexer
  BY <1>1, <1>16, RestartIndexerLife
<1> QED
  BY <1>2, <1>3, <1>4, <1>5, <1>6, <1>7, <1>8, <1>9, <1>10, <1>11, <1>12, <1>13, <1>14,
     <1>15, <1>16 DEF Next

LEMMA Invariance == Spec => [](TypeOK /\ LifeInv)
  BY InitType, InitLife, StepType, StepLife, PTL DEF Spec

-----------------------------------------------------------------------------
(* What one life promises.                                                  *)

\* However publishes, commits, cancels and the indexer fail or interleave, an
\* order never rests twice while the engine lives and no write is repeated.
THEOREM RestsInOnePlace == Spec => []OneCopyInOneLife
<1>1. TypeOK /\ LifeInv => OneCopyInOneLife
  <2> SUFFICES ASSUME LifeParts,
                      NEW side1 \in Side, NEW side2 \in Side,
                      NEW i \in DOMAIN book[side1], NEW j \in DOMAIN book[side2],
                      book[side1][i].id = book[side2][j].id
               PROVE  side1 = side2 /\ i = j
    BY DEF LifeInv, Calm, OneCopyInOneLife, OneCopy
  <2>1. side1 = side2
    BY DEF LifeParts, RestsOnce
  <2> QED
    BY <2>1 DEF LifeParts, RestsOnce, IdsDiffer
<1> QED
  BY <1>1, Invariance, PTL

\* What is left of an order on the book is what its one entry has left.
LEMMA LeftOfOne ==
    ASSUME TypeOK, LifeParts, NEW o \in ToSet(placed)
    PROVE  \/ LeftOnBook(o) = 0
           \/ \E side \in Side : \E i \in DOMAIN book[side] :
                book[side][i].id = o /\ LeftOnBook(o) = book[side][i].left
<1>1. /\ LeftOnBook(o) = InSide(o, "buy") + InSide(o, "sell")
      /\ InSide(o, "buy") \in Int /\ InSide(o, "sell") \in Int
      /\ "buy" \in Side /\ "sell" \in Side
  BY LeftOnBookIsASum, InSideFacts DEF Side
<1>2. ASSUME NEW side \in Side
      PROVE  \/ InSide(o, side) = 0
             \/ /\ rows[o].side = side
                /\ \E i \in DOMAIN book[side] :
                        book[side][i].id = o /\ InSide(o, side) = book[side][i].left
  <2>1. CASE \A i \in DOMAIN book[side] : book[side][i].id # o
    BY <2>1, InSideFacts
  <2>2. CASE \E i \in DOMAIN book[side] : book[side][i].id = o
    <3>1. PICK i \in DOMAIN book[side] : book[side][i].id = o
      BY <2>2
    <3>2. \A j \in DOMAIN book[side] : book[side][j].id = o => j = i
      BY <3>1 DEF LifeParts, RestsOnce, IdsDiffer
    <3>3. InSide(o, side) = book[side][i].left
      BY <3>1, <3>2, InSideFacts
    <3> QED
      BY <3>1, <3>3 DEF LifeParts, RestsOnce
  <2> QED
    BY <2>1, <2>2
<1>3. CASE InSide(o, "buy") = 0 /\ InSide(o, "sell") = 0
  BY <1>1, <1>3
<1>4. CASE InSide(o, "buy") # 0 /\ InSide(o, "sell") = 0
  <2>1. LeftOnBook(o) = InSide(o, "buy")
    BY <1>1, <1>4
  <2> QED
    BY <1>1, <1>2, <1>4, <2>1
<1>5. CASE InSide(o, "buy") = 0 /\ InSide(o, "sell") # 0
  <2>1. LeftOnBook(o) = InSide(o, "sell")
    BY <1>1, <1>5
  <2> QED
    BY <1>1, <1>2, <1>5, <2>1
<1>6. CASE InSide(o, "buy") # 0 /\ InSide(o, "sell") # 0
  BY <1>1, <1>2, <1>6
<1> QED
  BY <1>3, <1>4, <1>5, <1>6

\* Nor is more ever traded or left of an order than was placed.
THEOREM TradesFitTheOrder == Spec => []NeverOvertraded
<1>1. TypeOK /\ LifeInv => NeverOvertraded
  <2> SUFFICES ASSUME TypeOK, LifeParts, NEW o \in ToSet(placed), rows[o].size > 0
               PROVE  Traded(o, Fills) + LeftOnBook(o) <= rows[o].size
    BY DEF LifeInv, Calm, NeverOvertraded, Fills
  <2>1. CASE LeftOnBook(o) = 0
    <3>1. Traded(o, Fills) <= rows[o].size
      BY DEF LifeParts, WithinSize
    <3>2. Traded(o, Fills) \in Int
      BY FillsFinite, TradedIsInt DEF FillsAreFinite
    <3> QED
      BY <2>1, <3>1, <3>2
  <2>2. CASE \E side \in Side : \E i \in DOMAIN book[side] :
                book[side][i].id = o /\ LeftOnBook(o) = book[side][i].left
    BY <2>2 DEF LifeParts, WithinSize
  <2> QED
    BY <2>1, <2>2, LeftOfOne
<1> QED
  BY <1>1, Invariance, PTL

-----------------------------------------------------------------------------
(* What a restart promises.                                                 *)

\* An entry for each resting order among the first k placed.
Restored(acc, side, k) ==
    \A i \in 1..k :
        /\ placed[i] \in fn_get_resting_orders(side)
        /\ rows[placed[i]].remaining > 0
        => \E j \in DOMAIN acc : /\ acc[j].id = placed[i]
                                 /\ acc[j].left = rows[placed[i]].remaining

LEMMA RestoredStep ==
    ASSUME TypeOK, NEW side \in Side, NEW k \in 1..Len(placed),
           NEW acc \in Seq(Entry), Restored(acc, side, k - 1)
    PROVE  Restored(Rebuild(acc, side, placed[k]), side, k)
<1>1. PICK o, next : o = placed[k] /\ next = Rebuild(acc, side, o)
  OBVIOUS
<1>2. CASE o \in fn_get_resting_orders(side) /\ rows[o].remaining > 0
  <2>1. PICK e : e = [id |-> o, left |-> rows[o].remaining]
    OBVIOUS
  <2>2. e.id = o /\ e.left = rows[o].remaining
    BY <2>1
  <2>3. next = Append(acc, e)
    BY <1>1, <1>2, <2>1 DEF Rebuild, RestoreOrder
  <2>4. /\ Len(acc) + 1 \in DOMAIN next /\ next[Len(acc) + 1] = e
        /\ \A j \in DOMAIN acc : j \in DOMAIN next /\ next[j] = acc[j]
    BY <2>3, AppendIndex
  <2>5. ASSUME NEW i \in 1..k,
               placed[i] \in fn_get_resting_orders(side), rows[placed[i]].remaining > 0
        PROVE  \E j \in DOMAIN next : /\ next[j].id = placed[i]
                                      /\ next[j].left = rows[placed[i]].remaining
    <3>1. CASE i = k
      BY <1>1, <2>2, <2>4, <3>1
    <3>2. CASE i \in 1..(k - 1)
      BY <2>4, <2>5, <3>2 DEF Restored
    <3> QED
      BY <3>1, <3>2
  <2> QED
    BY <1>1, <2>5 DEF Restored
<1>3. CASE ~ (o \in fn_get_resting_orders(side) /\ rows[o].remaining > 0)
  <2>1. next = acc
    BY <1>1, <1>3 DEF Rebuild, RestoreOrder
  <2>2. \A i \in 1..k : i = k \/ i \in 1..(k - 1)
    OBVIOUS
  <2> QED
    BY <1>1, <1>3, <2>1, <2>2 DEF Restored
<1> QED
  BY <1>2, <1>3

\* Every order whose row is open with something remaining rests again.
LEMMA RestoredOrders ==
    ASSUME TypeOK, NEW o \in ToSet(placed), Open(o), rows[o].remaining > 0
    PROVE  \E f \in ToSet(restoreFromDB[rows[o].side]) :
                f.id = o /\ f.left = rows[o].remaining
<1>1. PICK side \in Side : side = rows[o].side
  BY RowFacts
<1>2. PICK n \in Nat : n = Len(placed) /\ DOMAIN placed = 1..n
  BY DEF TypeOK
<1>3. PICK a \in [0..n -> Seq(Entry)] : IsRebuild(a, side)
  BY <1>2, RebuildExists
<1>4. /\ a[0] = <<>> /\ a[n] = restoreFromDB[side]
      /\ \A k \in 1..n : a[k] = Rebuild(a[k - 1], side, placed[k])
  BY <1>2, <1>3 DEF IsRebuild
<1> DEFINE Good == {k \in 0..n : Restored(a[k], side, k)}
<1>5. 0 \in Good
  BY DEF Restored
<1>6. ASSUME NEW k \in 1..n, k - 1 \in Good
      PROVE  k \in Good
  <2>1. PICK acc \in Seq(Entry) : acc = a[k - 1]
    BY <1>3
  <2>2. Restored(acc, side, k - 1) /\ k \in 1..Len(placed)
    BY <1>2, <1>6, <2>1
  <2>3. Restored(Rebuild(acc, side, placed[k]), side, k)
    BY <2>2, RestoredStep
  <2> QED
    BY <1>4, <2>1, <2>3
<1>7. n \in Good
  <2>1. 0..n \subseteq Good
    <3> HIDE DEF Good
    <3> QED
      BY <1>5, <1>6, UpTo
  <2> QED
    BY <2>1
<1>8. PICK acc : acc = a[n] /\ Restored(acc, side, n)
  BY <1>7
<1>9. PICK i \in 1..n : placed[i] = o
  BY <1>2 DEF ToSet
<1>10. o \in fn_get_resting_orders(side)
  BY <1>1 DEF fn_get_resting_orders
<1>11. PICK j \in DOMAIN acc : acc[j].id = o /\ acc[j].left = rows[o].remaining
  BY <1>8, <1>9, <1>10 DEF Restored
<1>12. acc[j] \in ToSet(acc)
  BY DEF ToSet
<1> QED
  BY <1>1, <1>4, <1>8, <1>11, <1>12

\* Only a restart counts as one, and without an empty start it is the one that
\* rebuilds the book.
LEMMA RestartStep ==
    ASSUME TypeOK, [Next]_vars, Restarted, fault'["emptyStart"] = 0
    PROVE  RestartEngine
<1>1. /\ "engineRestart" \in FaultKind /\ "emptyStart" \in FaultKind
      /\ fault["emptyStart"] \in Nat
  BY DEF TypeOK, FaultKind
<1>2. ~ UNCHANGED fault
  BY DEF Restarted
<1>3. ~ RestartEngineEmpty
  <2> SUFFICES ASSUME RestartEngineEmpty PROVE FALSE
    OBVIOUS
  <2>1. Suffer({"engineRestart", "emptyStart"})
    BY DEF RestartEngineEmpty
  <2>2. fault'["emptyStart"] = fault["emptyStart"] + 1
    BY <1>1, <2>1, SufferFacts
  <2> QED
    BY <1>1, <2>2
<1>4. \A kind : Suffer({kind}) => kind = "engineRestart"
  <2> SUFFICES ASSUME NEW kind, Suffer({kind}), kind # "engineRestart" PROVE FALSE
    OBVIOUS
  <2>1. fault'["engineRestart"] = fault["engineRestart"]
    BY <1>1, SufferFacts
  <2> QED
    BY <2>1 DEF Restarted
<1>5. Next
  BY <1>2 DEF vars
<1> QED
  BY <1>2, <1>3, <1>4, <1>5 DEF Next, CreateLimitOrder, CancelOrder, PublishRequest,
     RepeatRequest, LoseRequest, CommitMessages, CommitFails, ProcessCreated, PublishResult,
     RepeatResult, PublishFails, ProcessCancelled, OrderMatched, OrderRejected, DropMessage,
     RestartIndexer

\* Whatever was in flight when the engine stopped, an order that rested and
\* was not cancelled rests again, with no less than it had left: its row is
\* open and shows at least that, because no fill or rejection that reached the
\* indexer, in whatever order, says otherwise.
THEOREM RestingOrdersComeBack == Spec => RestartLosesNothing
<1>1. ASSUME TypeOK, LifeInv, [Next]_vars
      PROVE  [Restarted /\ fault'["emptyStart"] = 0
                 /\ NoFault({"engineRestart", "repeatedRequest"}) =>
                \A side \in Side : \A e \in ToSet(book[side]) :
                    cancels[e.id] = 0 =>
                        \E f \in ToSet(book'[side]) : f.id = e.id /\ f.left >= e.left]_vars
  <2> SUFFICES ASSUME Restarted, fault'["emptyStart"] = 0, Calm,
                      NEW side \in Side, NEW e \in ToSet(book[side]), cancels[e.id] = 0
               PROVE  \E f \in ToSet(book'[side]) : f.id = e.id /\ f.left >= e.left
    BY DEF Calm
  <2>1. LifeParts /\ book' = restoreFromDB
    BY <1>1, RestartStep DEF LifeInv, RestartEngine
  <2>2. PICK i \in DOMAIN book[side] : book[side][i] = e
    BY DEF ToSet
  <2>3. e.id \in ToSet(placed) /\ e.left \in Int
    <3>1. book[side][i] \in Entry
      BY <1>1 DEF TypeOK
    <3>2. book[side][i].id \in Taken
      BY <2>1 DEF LifeParts, RestsOnce
    <3> QED
      BY <1>1, <2>2, <3>1, <3>2, TakenFacts DEF Entry
  <2>4. /\ rows[e.id].side = side /\ e.left > 0
        /\ Open(e.id) /\ e.left <= rows[e.id].remaining
    BY <2>1, <2>2 DEF LifeParts, RestsOnce, WithinSize, RowsShowNoLess
  <2>5. rows[e.id].remaining \in Int
    BY <1>1, <2>3, RowFacts
  <2>6. rows[e.id].remaining > 0 /\ rows[e.id].remaining >= e.left
    BY <2>3, <2>4, <2>5
  <2>7. PICK f \in ToSet(restoreFromDB[side]) : f.id = e.id /\ f.left = rows[e.id].remaining
    BY <1>1, <2>3, <2>4, <2>6, RestoredOrders
  <2> QED
    BY <2>1, <2>6, <2>7
<1> QED
  BY <1>1, Invariance, PTL DEF Spec, RestartLosesNothing

-----------------------------------------------------------------------------
(* A life in which nothing is lost between the engine and the rows.         *)

Lossless == NoFault({"engineRestart", "repeatedRequest", "failedPublish", "dropped"})

\* What rests of an order is exactly what was not traded of it, and an order
\* the engine has taken rests unless it was traded, cancelled or rejected.
BookExact ==
    /\ \A side \in Side : MakersExact(book[side], Fills)
    /\ \A o \in Taken :
        rows[o].size > 0 /\ cancels[o] = 0 => OnBook(o) \/ Traded(o, Fills) = rows[o].size

\* The fills are published in the order they were made in.
InOrder ==
    /\ \A i, j \in DOMAIN log["matched"] :
        i <= j => NoLater(log["matched"][i], log["matched"][j])
    /\ \A i \in DOMAIN log["matched"], j \in DOMAIN outbox :
        outbox[j].topic = "matched" => NoLater(log["matched"][i], outbox[j].body)
    /\ \A i, j \in DOMAIN outbox :
        i <= j /\ outbox[i].topic = "matched" /\ outbox[j].topic = "matched"
            => NoLater(outbox[i].body, outbox[j].body)

EngineExact == Exact(Fills) /\ BookExact /\ InOrder

\* The message of a fill of the order, whose outcome the row shows.
Shows(o, i) ==
    /\ o \in Parties(log["matched"][i])
    /\ rows[o].remaining = LeftTo(log["matched"][i], o)

\* A row shows the last fill the indexer has handled, or since a restart of the
\* indexer one that it will come to again.
RowsFollow ==
    \A o \in ToSet(placed) :
        \/ \E i \in DOMAIN log["matched"] :
            /\ Shows(o, i)
            /\ \A j \in (i + 1)..position["matched"] : o \notin Parties(log["matched"][j])
        \/ /\ rows[o].remaining = rows[o].size
           /\ \A j \in 1..position["matched"] : o \notin Parties(log["matched"][j])

\* The trade row of a fill.
RowOf(f) == [trade |-> f.trade, maker |-> f.maker, taker |-> f.taker, size |-> f.size]

TradesFollow ==
    /\ \A row \in tradeRows : \E i \in DOMAIN log["matched"] : row = RowOf(log["matched"][i])
    /\ \A i \in 1..position["matched"] : RowOf(log["matched"][i]) \in tradeRows

IndexerExact == RowsFollow /\ TradesFollow

\* An order is announced, or waits to be; and only what was cancelled is
\* announced as cancelled.
Announced(o) ==
    \/ o \in ToSet(log["created"])
    \/ \E r \in publishing : r.topic = "created" /\ r.order = o

ApiExact ==
    /\ NoFault({"lostRequest"}) => \A o \in ToSet(placed) : Announced(o)
    /\ \A r \in publishing : r.topic = "cancelled" => cancels[r.order] # 0
    /\ \A o \in ToSet(log["cancelled"]) : cancels[o] # 0

ExactParts == EngineExact /\ IndexerExact /\ ApiExact

\* The inductive invariant.
ExactInv == Lossless => ExactParts

LEMMA LosslessBefore ==
    ASSUME TypeOK, [Next]_vars, Lossless'
    PROVE  Lossless
  BY FaultsStay DEF Lossless, NoFault, FaultKind

LEMMA LosslessIsCalm == Lossless => Calm
  BY DEF Lossless, Calm, NoFault

\* What keeps each part.
LEMMA EngineQuiet ==
    ASSUME TypeOK, LifeParts, EngineExact, Fills' = Fills, Taken' = Taken, UNCHANGED book,
           \A x \in ToSet(placed) : rows'[x].size = rows[x].size,
           \A x \in Taken : cancels'[x] = 0 => cancels[x] = 0, InOrder'
    PROVE  EngineExact'
<1>1. Taken \subseteq ToSet(placed)
  BY TakenFacts
<1>2. \A f \in Fills : Parties(f) \subseteq ToSet(placed)
  BY <1>1 DEF LifeParts, FillsAreSound, Parties
<1>3. Exact(Fills)'
  BY <1>2 DEF EngineExact, Exact, ExactFill
<1>4. \A side \in Side : \A i \in DOMAIN book[side] : book[side][i].id \in ToSet(placed)
  BY <1>1 DEF LifeParts, RestsOnce
<1>5. BookExact'
  BY <1>1, <1>4 DEF EngineExact, BookExact, MakersExact, OnBook
<1> QED
  BY <1>3, <1>5 DEF EngineExact

LEMMA IndexerQuiet ==
    ASSUME TypeOK, IndexerExact, log'["matched"] = log["matched"], UNCHANGED <<placed, tradeRows>>,
           NEW p \in Nat, p = position'["matched"], p <= position["matched"],
           \A x \in ToSet(placed) : /\ rows'[x].size = rows[x].size
                                    /\ rows'[x].remaining = rows[x].remaining
    PROVE  IndexerExact'
<1>1. position["matched"] \in Nat
  BY DEF TypeOK, Topic
<1>2. \A i \in Int : \A j \in i..p : j \in i..position["matched"]
  BY <1>1
<1>3. RowsFollow'
  <2> SUFFICES ASSUME NEW o \in ToSet(placed)
               PROVE  \/ \E i \in DOMAIN log["matched"] :
                            /\ Shows(o, i)'
                            /\ \A j \in (i + 1)..p : o \notin Parties(log["matched"][j])
                      \/ /\ rows'[o].remaining = rows'[o].size
                         /\ \A j \in 1..p : o \notin Parties(log["matched"][j])
    BY DEF RowsFollow
  <2>1. CASE \E i \in DOMAIN log["matched"] :
                /\ Shows(o, i)
                /\ \A j \in (i + 1)..position["matched"] : o \notin Parties(log["matched"][j])
    <3>1. PICK i \in DOMAIN log["matched"] :
                /\ Shows(o, i)
                /\ \A j \in (i + 1)..position["matched"] : o \notin Parties(log["matched"][j])
      BY <2>1
    <3>2. i \in Int
      BY DEF TypeOK, Topic
    <3>3. Shows(o, i)'
      BY <3>1 DEF Shows
    <3> QED
      BY <1>2, <3>1, <3>2, <3>3
  <2>2. CASE /\ rows[o].remaining = rows[o].size
             /\ \A j \in 1..position["matched"] : o \notin Parties(log["matched"][j])
    BY <1>2, <2>2
  <2> QED
    BY <2>1, <2>2 DEF IndexerExact, RowsFollow
<1>4. TradesFollow'
  BY <1>2 DEF IndexerExact, TradesFollow
<1> QED
  BY <1>3, <1>4 DEF IndexerExact

LEMMA ApiQuiet ==
    ASSUME ApiExact, UNCHANGED <<placed, cancels, publishing>>,
           log'["created"] = log["created"], log'["cancelled"] = log["cancelled"],
           fault'["lostRequest"] = 0 => fault["lostRequest"] = 0
    PROVE  ApiExact'
  BY DEF ApiExact, Announced, NoFault

\* Orders and cancellations.
\* The messages the indexer is through with.
LEMMA MatchedFacts ==
    ASSUME TypeOK
    PROVE  /\ log["matched"] \in Seq(Fill) /\ Len(log["matched"]) \in Nat
           /\ DOMAIN log["matched"] = 1..Len(log["matched"])
           /\ position["matched"] \in Nat /\ position["matched"] <= Len(log["matched"])
           /\ 1..position["matched"] \subseteq DOMAIN log["matched"]
<1>1. "matched" \in Topic
  BY DEF Topic
<1>2. PICK s \in Seq(Fill) : s = log["matched"]
  BY DEF TypeOK
<1>3. PICK n \in Nat : n = Len(s) /\ DOMAIN s = 1..n
  BY <1>2
<1>4. PICK p \in Nat : p = position["matched"] /\ p <= n
  BY <1>1, <1>2, <1>3 DEF TypeOK
<1>5. 1..p \subseteq 1..n
  BY <1>4
<1> QED
  BY <1>2, <1>3, <1>4, <1>5

LEMMA CreateExact ==
    ASSUME TypeOK, LifeParts, ExactParts, NEW w \in Wanted, CreateLimitOrder(w[1], w[2], w[3])
    PROVE  ExactParts'
<1>1. PICK o \in Order, side \in Side, size \in Int : o = w[1] /\ side = w[2] /\ size = w[3]
  BY BoundsAssumption DEF Side
<1>2. /\ o \notin ToSet(placed) /\ placed' = Append(placed, o)
      /\ rows' = [x \in DOMAIN rows \cup {o} |->
                    IF x = o THEN [side |-> side, size |-> size, remaining |-> size,
                                   status |-> "pending"]
                    ELSE rows[x]]
      /\ publishing' = publishing \cup {Request("created", o, 1)}
      /\ UNCHANGED <<tradeRows, cancels, log, consumers, engine, fault>>
  BY <1>1 DEF CreateLimitOrder, fn_create_order_atomic
<1>3. ToSet(placed)' = ToSet(placed) \cup {o}
  BY <1>2, AppendFacts DEF TypeOK
<1>4. \A x \in ToSet(placed) : rows'[x] = rows[x]
  BY <1>2 DEF TypeOK
<1>5. rows'[o].size = size /\ rows'[o].remaining = size
  BY <1>2
<1>6. /\ UNCHANGED <<log, position, book, outbox, cancels, tradeRows, fault>>
      /\ Taken' = Taken /\ Fills' = Fills
  BY <1>2 DEF consumers, engine, Taken, Fills
<1>7. EngineExact'
  <2>1. InOrder'
    BY <1>6 DEF ExactParts, EngineExact, InOrder
  <2> QED
    BY <1>4, <1>6, <2>1, EngineQuiet DEF ExactParts
<1>8. IndexerExact'
  <2>1. \A j \in 1..position["matched"] : o \notin Parties(log["matched"][j])
    <3> SUFFICES ASSUME NEW j \in 1..position["matched"]
                 PROVE  o \notin Parties(log["matched"][j])
      OBVIOUS
    <3>1. j \in DOMAIN log["matched"]
      BY MatchedFacts
    <3>2. log["matched"][j] \in Fills
      BY <3>1 DEF Fills, ToSet
    <3> QED
      BY <1>2, <3>2, TakenFacts DEF LifeParts, FillsAreSound, Parties
  <2>2. RowsFollow'
    BY <1>3, <1>4, <1>5, <1>6, <2>1 DEF ExactParts, IndexerExact, RowsFollow, Shows
  <2>3. TradesFollow'
    BY <1>6 DEF ExactParts, IndexerExact, TradesFollow
  <2> QED
    BY <2>2, <2>3 DEF IndexerExact
<1>9. ApiExact'
  <2>1. Request("created", o, 1).topic = "created" /\ Request("created", o, 1).order = o
    BY DEF Request
  <2>2. \A x \in ToSet(placed) : Announced(x) => Announced(x)'
    BY <1>2, <1>6 DEF Announced
  <2>3. Announced(o)'
    BY <1>2, <2>1 DEF Announced
  <2>4. NoFault({"lostRequest"})' => \A x \in ToSet(placed)' : Announced(x)'
    BY <1>3, <1>6, <2>2, <2>3 DEF ExactParts, ApiExact, NoFault
  <2>5. \A r \in publishing' : r.topic = "cancelled" => cancels'[r.order] # 0
    BY <1>2, <1>6, <2>1 DEF ExactParts, ApiExact
  <2> QED
    BY <1>6, <2>4, <2>5 DEF ExactParts, ApiExact
<1> QED
  BY <1>7, <1>8, <1>9 DEF ExactParts

LEMMA CancelExact ==
    ASSUME TypeOK, LifeParts, ExactParts, NEW o \in Cancellable, CancelOrder(o)
    PROVE  ExactParts'
<1>1. /\ o \in ToSet(placed) /\ o \in Order
      /\ rows' = [rows EXCEPT ![o].status = "cancelled"]
      /\ cancels' = [cancels EXCEPT ![o] = @ + 1]
      /\ publishing' = publishing \cup {Request("cancelled", o, cancels'[o])}
      /\ UNCHANGED <<placed, tradeRows, log, consumers, engine, fault>>
  BY BoundsAssumption DEF CancelOrder, fn_cancel_order
<1>2. \A x \in ToSet(placed) :
        rows'[x].size = rows[x].size /\ rows'[x].remaining = rows[x].remaining
  BY <1>1 DEF TypeOK
<1>3. /\ UNCHANGED <<placed, log, position, book, outbox, tradeRows, fault>>
      /\ Taken' = Taken /\ Fills' = Fills
  BY <1>1 DEF consumers, engine, Taken, Fills
<1>4. cancels'[o] # 0 /\ \A x \in Order : cancels[x] # 0 => cancels'[x] # 0
  BY <1>1 DEF TypeOK
<1>5. \A x \in ToSet(placed) : x \in Order
  BY RowFacts
<1>6. EngineExact'
  <2>1. InOrder'
    BY <1>3 DEF ExactParts, EngineExact, InOrder
  <2>2. \A x \in Taken : cancels'[x] = 0 => cancels[x] = 0
    BY <1>4, <1>5, TakenFacts
  <2> QED
    BY <1>2, <1>3, <2>1, <2>2, EngineQuiet DEF ExactParts
<1>7. IndexerExact'
  <2>1. PICK p \in Nat : p = position["matched"]
    BY DEF TypeOK, Topic
  <2> QED
    BY <1>2, <1>3, <2>1, IndexerQuiet DEF ExactParts
<1>8. ApiExact'
  <2>1. Request("cancelled", o, cancels'[o]).topic = "cancelled"
        /\ Request("cancelled", o, cancels'[o]).order = o
    BY DEF Request
  <2>2. \A x \in ToSet(placed) : Announced(x) => Announced(x)'
    BY <1>1, <1>3 DEF Announced
  <2>3. \A r \in publishing : r.order \in Order
    BY <1>5 DEF TypeOK
  <2>4. \A r \in publishing' : r.topic = "cancelled" => cancels'[r.order] # 0
    BY <1>1, <1>4, <2>1, <2>3 DEF ExactParts, ApiExact
  <2>5. \A x \in ToSet(log["cancelled"]) : x \in Order
    <3>1. log["cancelled"] \in Seq(ToSet(placed))
      BY DEF TypeOK, EngineTopic
    <3> QED
      BY <1>5, <3>1, SeqFacts
  <2> QED
    BY <1>3, <1>4, <2>2, <2>4, <2>5 DEF ExactParts, ApiExact, NoFault
<1> QED
  BY <1>6, <1>7, <1>8 DEF ExactParts

LEMMA RequestExact ==
    ASSUME TypeOK, LifeParts, ExactParts, NEW r \in publishing, PublishRequest(r) \/ LoseRequest(r)
    PROVE  ExactParts'
<1>1. /\ UNCHANGED <<store, cancels, consumers, engine>> /\ publishing' = publishing \ {r}
      /\ (UNCHANGED log /\ Suffer({"lostRequest"}))
            \/ (Published(r.topic, r.order) /\ UNCHANGED fault)
  BY DEF PublishRequest, LoseRequest
<1>2. UNCHANGED <<rows, placed, tradeRows, cancels, position, book, outbox>>
  BY <1>1 DEF store, consumers, engine
<1>3. PICK t \in Topic, o \in ToSet(placed) : t = r.topic /\ o = r.order /\ t \in EngineTopic
  BY DEF TypeOK, Topic, EngineTopic
<1>4. t # "matched" /\ t # "rejected" /\ "matched" \in Topic /\ "cancelled" \in Topic
      /\ "created" \in Topic
  BY <1>3 DEF EngineTopic, Topic
<1>5. \/ UNCHANGED log /\ Suffer({"lostRequest"})
      \/ /\ log'[t] = Append(log[t], o) /\ UNCHANGED fault
         /\ \A u \in Topic \ {t} : log'[u] = log[u]
  <2>1. CASE Published(r.topic, r.order) /\ UNCHANGED fault
    <3>1. Published(t, o) /\ UNCHANGED placed
      BY <1>2, <1>3, <2>1
    <3> QED
      BY <1>3, <1>4, <2>1, <3>1, PublishedFacts
  <2> QED
    BY <1>1, <2>1
<1>6. \A u \in EngineTopic : log[u] \in Seq(ToSet(placed))
  BY DEF TypeOK
<1>7. ASSUME NEW u \in EngineTopic
      PROVE  ToSet(log[u])' = IF u = t /\ ~ UNCHANGED log THEN ToSet(log[u]) \cup {o}
                              ELSE ToSet(log[u])
  <2>1. CASE UNCHANGED log
    BY <2>1
  <2>2. CASE u = t /\ ~ UNCHANGED log
    <3>1. PICK s \in Seq(ToSet(placed)) : s = log[u] /\ log'[u] = Append(s, o)
      BY <1>5, <1>6, <2>2
    <3>2. ToSet(Append(s, o)) = ToSet(s) \cup {o}
      BY AppendFacts
    <3> QED
      BY <2>2, <3>1, <3>2
  <2>3. CASE u # t
    <3>1. log'[u] = log[u]
      BY <1>5, <2>3 DEF Topic, EngineTopic
    <3> QED
      BY <2>3, <3>1
  <2> QED
    BY <2>1, <2>2, <2>3
<1>8. log'["matched"] = log["matched"]
  BY <1>4, <1>5
<1>9. Taken' = Taken
  <2>1. PICK s \in Seq(ToSet(placed)) : s = log["created"]
    BY TakenFacts
  <2>2. log'["created"] = s \/ log'["created"] = Append(s, o)
    BY <1>4, <1>5, <2>1
  <2>3. \A i \in 1..position["created"] : log'["created"][i] = log["created"][i]
    BY <2>1, <2>2, TakenFacts
  <2> QED
    BY <1>2, <2>3 DEF Taken
<1>10. EngineExact'
  <2>1. Fills' = Fills
    BY <1>2, <1>8 DEF Fills
  <2>2. InOrder'
    BY <1>2, <1>8 DEF ExactParts, EngineExact, InOrder
  <2>3. \A x \in Taken : cancels'[x] = 0 => cancels[x] = 0
    BY <1>2
  <2> QED
    BY <1>2, <1>9, <2>1, <2>2, <2>3, EngineQuiet DEF ExactParts
<1>11. IndexerExact'
  <2>1. PICK p \in Nat : p = position["matched"] /\ p <= p
    BY MatchedFacts
  <2> QED
    BY <1>2, <1>8, <2>1, IndexerQuiet DEF ExactParts
<1>12. ApiExact'
  <2>1. "created" \in EngineTopic /\ "cancelled" \in EngineTopic
    BY DEF EngineTopic
  <2>2. ASSUME NoFault({"lostRequest"})', NEW x \in ToSet(placed)
        PROVE  Announced(x)'
    <3>1. ~ Suffer({"lostRequest"})
      <4> SUFFICES ASSUME Suffer({"lostRequest"}) PROVE FALSE
        OBVIOUS
      <4>1. fault'["lostRequest"] = fault["lostRequest"] + 1 /\ fault["lostRequest"] \in Nat
        BY SufferFacts DEF TypeOK, FaultKind
      <4> QED
        BY <2>2, <4>1 DEF NoFault
    <3>2. UNCHANGED fault
      BY <1>5, <3>1
    <3>3. NoFault({"lostRequest"})
      BY <2>2, <3>2 DEF NoFault
    <3>4. Announced(x)
      BY <3>3 DEF ExactParts, ApiExact
    <3>5. CASE x \in ToSet(log["created"])
      BY <1>7, <2>1, <3>5 DEF Announced
    <3>6. CASE \E q \in publishing : q.topic = "created" /\ q.order = x
      <4>1. PICK q \in publishing : q.topic = "created" /\ q.order = x
        BY <3>6
      <4>2. CASE q # r
        BY <1>1, <4>1, <4>2 DEF Announced
      <4>3. CASE q = r
        <5>1. t = "created" /\ o = x /\ ~ UNCHANGED log
          <6>1. t = "created" /\ o = x
            BY <1>3, <4>1, <4>3
          <6>2. r.nth = 1 /\ x \notin ToSet(log["created"])
            BY <4>1, <4>3 DEF LifeParts, AnnouncedOnce
          <6>3. PICK s \in Seq(ToSet(placed)) : s = log["created"]
            BY TakenFacts
          <6>4. log'["created"] = Append(s, o)
            BY <1>5, <3>1, <6>1, <6>3
          <6>5. ToSet(Append(s, o)) = ToSet(s) \cup {o}
            BY AppendFacts
          <6> QED
            BY <6>1, <6>2, <6>3, <6>4, <6>5
        <5> QED
          BY <1>7, <2>1, <5>1 DEF Announced
      <4> QED
        BY <4>2, <4>3
    <3> QED
      BY <3>4, <3>5, <3>6 DEF Announced
  <2>3. \A q \in publishing' : q.topic = "cancelled" => cancels'[q.order] # 0
    BY <1>1, <1>2 DEF ExactParts, ApiExact
  <2>4. \A x \in ToSet(log["cancelled"])' : cancels'[x] # 0
    <3>1. t = "cancelled" => cancels[o] # 0
      BY <1>3 DEF ExactParts, ApiExact
    <3> QED
      BY <1>2, <1>7, <2>1, <3>1 DEF ExactParts, ApiExact
  <2> QED
    BY <1>2, <2>2, <2>3, <2>4 DEF ApiExact
<1> QED
  BY <1>10, <1>11, <1>12 DEF ExactParts

\* Steps of the consumers that change no row and nothing in the engine's hands.
LEMMA QuietExact ==
    ASSUME TypeOK, LifeParts, ExactParts,
           UNCHANGED <<rows, placed, tradeRows, publishing, cancels, log, engine>>,
           position'["created"] = position["created"],
           NEW p \in Nat, p = position'["matched"], p <= position["matched"],
           fault'["lostRequest"] = 0 => fault["lostRequest"] = 0
    PROVE  ExactParts'
<1>1. Taken' = Taken /\ Fills' = Fills /\ UNCHANGED <<book, outbox>>
  BY DEF Taken, Fills, engine
<1>2. EngineExact'
  <2>1. InOrder'
    BY <1>1 DEF ExactParts, EngineExact, InOrder
  <2> QED
    BY <1>1, <2>1, EngineQuiet DEF ExactParts
<1>3. IndexerExact'
  BY IndexerQuiet DEF ExactParts
<1>4. ApiExact'
  BY ApiQuiet DEF ExactParts
<1> QED
  BY <1>2, <1>3, <1>4 DEF ExactParts

LEMMA CommitExact ==
    ASSUME TypeOK, LifeParts, ExactParts, NEW t \in Topic, CommitMessages(t) \/ CommitFails(t)
    PROVE  ExactParts'
<1>1. /\ UNCHANGED <<store, api, log, position, engine>>
      /\ UNCHANGED fault \/ Suffer({"failedCommit"})
  BY DEF CommitMessages, CommitFails
<1>2. fault'["lostRequest"] = fault["lostRequest"]
  <2>1. "lostRequest" \in FaultKind
    BY DEF FaultKind
  <2> QED
    BY <1>1, <2>1, SufferFacts
<1>3. PICK p \in Nat : p = position["matched"] /\ p <= p
  BY MatchedFacts
<1> QED
  BY <1>1, <1>2, <1>3, QuietExact DEF store, api

LEMMA RestartIndexerExact ==
    ASSUME TypeOK, LifeParts, ExactParts, RestartIndexer
    PROVE  ExactParts'
<1>1. /\ UNCHANGED <<store, api, log, engine>> /\ Suffer({"indexerRestart"})
      /\ Rewound(IndexerTopic)
  BY DEF RestartIndexer
<1>2. fault'["lostRequest"] = fault["lostRequest"]
  <2>1. "lostRequest" \in FaultKind
    BY DEF FaultKind
  <2> QED
    BY <1>1, <2>1, SufferFacts
<1>3. /\ "matched" \in IndexerTopic /\ "created" \notin IndexerTopic
      /\ "matched" \in Topic /\ "created" \in Topic
  BY DEF IndexerTopic, Topic
<1>4. position'["created"] = position["created"] /\ position'["matched"] = committed["matched"]
  BY <1>1, <1>3 DEF Rewound
<1>5. PICK p \in Nat : p = committed["matched"] /\ p <= position["matched"]
  BY <1>3 DEF TypeOK
<1> QED
  BY <1>1, <1>2, <1>4, <1>5, QuietExact DEF store, api

\* A life in which something is lost has ended.
LEMMA NotLosslessAfter ==
    ASSUME TypeOK,
           \/ RestartEngine \/ RestartEngineEmpty \/ PublishFails
           \/ \E r \in publishing : RepeatRequest(r)
           \/ \E t \in IndexerTopic : DropMessage(t)
    PROVE  ~ Lossless'
<1>1. PICK kinds : Suffer(kinds) /\ kinds \cap {"engineRestart", "repeatedRequest",
                                                "failedPublish", "dropped"} # {}
  BY DEF RestartEngine, RestartEngineEmpty, PublishFails, RepeatRequest, DropMessage
<1>2. PICK kind \in kinds : kind \in {"engineRestart", "repeatedRequest", "failedPublish",
                                      "dropped"}
  BY <1>1
<1>3. kind \in FaultKind /\ fault[kind] \in Nat
  BY <1>2 DEF TypeOK, FaultKind
<1>4. fault'[kind] = fault[kind] + 1
  BY <1>1, <1>2, <1>3, SufferFacts
<1> QED
  BY <1>2, <1>3, <1>4 DEF Lossless, NoFault

\* The engine takes an order.
LEMMA RejectExact ==
    ASSUME TypeOK, LifeParts, ExactParts, ProcessCreated, NEW o, o = Message("created"),
           rows[o].size <= 0
    PROVE  ExactParts'
<1>1. /\ Taken' = Taken \cup {o} /\ Fills = ToSet(log["matched"])
      /\ UNCHANGED <<rows, placed, cancels, publishing, log>>
  BY TakeFacts
<1>2. outbox' = <<Envelope("rejected", o)>> /\ UNCHANGED <<book, fault, tradeRows>>
  BY DEF ProcessCreated, store
<1>3. Envelope("rejected", o).topic = "rejected"
  BY DEF Envelope
<1>4. Fills' = Fills
  <2>1. ToSet(outbox)' = {Envelope("rejected", o)}
    BY <1>2 DEF ToSet
  <2> QED
    BY <1>1, <1>3, <2>1 DEF Fills
<1>5. position'["matched"] = position["matched"]
  <2>1. Fetch("created") /\ "created" \in Topic /\ "matched" \in Topic
    BY DEF ProcessCreated, Topic
  <2> QED
    BY <1>1, <2>1, FetchFacts
<1>6. EngineExact'
  <2>1. Exact(Fills)'
    BY <1>1, <1>4 DEF ExactParts, EngineExact, Exact, ExactFill
  <2>2. BookExact'
    <3>1. \A side \in Side : MakersExact(book[side], Fills)'
      BY <1>1, <1>2, <1>4 DEF ExactParts, EngineExact, BookExact, MakersExact
    <3>2. \A x : OnBook(x)' <=> OnBook(x)
      BY <1>2 DEF OnBook
    <3>3. \A x \in Taken' : rows'[x].size > 0 => x \in Taken
      <4>1. rows[o].size \in Int
        BY TakeFacts, RowFacts
      <4> QED
        BY <1>1, <4>1
    <3>4. \A x \in Taken' : rows'[x].size > 0 /\ cancels'[x] = 0
                => OnBook(x)' \/ Traded(x, Fills') = rows'[x].size
      BY <1>1, <1>4, <3>2, <3>3 DEF ExactParts, EngineExact, BookExact
    <3> QED
      BY <3>1, <3>4 DEF BookExact
  <2>3. InOrder'
    <3>1. \A i \in DOMAIN outbox' : outbox'[i].topic # "matched"
      BY <1>2, <1>3
    <3> QED
      BY <1>1, <3>1 DEF ExactParts, EngineExact, InOrder
  <2> QED
    BY <2>1, <2>2, <2>3 DEF EngineExact
<1>7. IndexerExact'
  <2>1. PICK p \in Nat : p = position["matched"] /\ p <= p
    BY MatchedFacts
  <2> QED
    BY <1>1, <1>2, <1>5, <2>1, IndexerQuiet DEF ExactParts
<1>8. ApiExact'
  BY <1>1, <1>2, ApiQuiet DEF ExactParts
<1> QED
  BY <1>6, <1>7, <1>8 DEF ExactParts

LEMMA MatchExact ==
    ASSUME TypeOK, LifeParts, ExactParts, ProcessCreated, NEW o, o = Message("created"),
           ~ (rows[o].size <= 0)
    PROVE  ExactParts'
<1>1. /\ o \in ToSet(placed) /\ o \notin Taken /\ Taken' = Taken \cup {o}
      /\ position["created"] \in Nat
      /\ Fills = ToSet(log["matched"])
      /\ UNCHANGED <<rows, placed, cancels, publishing, log, tradeRows, fault>>
  BY TakeFacts DEF ProcessCreated, store
<1>2. PICK side \in Side, opposite \in Side, makers \in Seq(Entry), rest \in Seq(Entry),
           own \in Seq(Entry), m \in Acc, fills \in SUBSET Fill, new \in SUBSET Fill :
                Matched(o, side, opposite, makers, rest, own, m, fills, new)
  BY MatchFacts
<1>3. /\ opposite # side /\ \A s \in Side : s = side \/ s = opposite
      /\ makers = book[opposite] /\ rest = book[side]
      /\ book'[opposite] = m.kept /\ book'[side] = own
  BY <1>2 DEF Matched
<1>4. /\ m.left \in Int /\ m.left >= 0 /\ m.fills \in Seq(Fill) /\ m.kept \in Seq(Entry)
      /\ rows[o].size \in Int /\ rows[o].size > 0
  BY <1>1, <1>2, RowFacts DEF Matched, Shape, Acc
<1>5. /\ outbox' = [i \in DOMAIN m.fills |-> Envelope("matched", m.fills[i])]
      /\ fills = Fills /\ new = ToSet(m.fills)
  BY <1>2 DEF Matched
<1>6. PICK all \in SUBSET Fill : all = fills \cup new /\ IsFiniteSet(all) /\ Fills' = all
  <2>1. IsFiniteSet(fills) /\ IsFiniteSet(new) /\ Fills' = fills \cup new
    BY <1>2 DEF Matched
  <2>2. IsFiniteSet(fills \cup new)
    BY <2>1, FS_Union
  <2> QED
    BY <2>1, <2>2
<1>7. \A i \in DOMAIN makers :
            makers[i].id \in Taken /\ makers[i].id # o /\ rows[makers[i].id].side = opposite
  BY <1>2 DEF Matched
<1>8. \A i \in DOMAIN rest :
            rest[i].id \in Taken /\ rest[i].id # o /\ rows[rest[i].id].side = side
  BY <1>2 DEF Matched
<1>9. RoomFor(m, Len(makers), o, makers, fills, all) /\ DOMAIN makers = 1..Len(makers)
  BY <1>2, <1>6 DEF Matched
<1>10. MakersExact(makers, fills) /\ MakersExact(rest, fills) /\ Exact(fills)
  BY <1>3, <1>5 DEF ExactParts, EngineExact, BookExact
<1>11. \A n \in DOMAIN m.fills : /\ m.fills[n].taker = o
                                 /\ m.fills[n].trade[2] = position["created"]
                                 /\ m.fills[n].trade[3] = n - 1
                                 /\ \E i \in DOMAIN makers : m.fills[n].maker = makers[i].id
  <2>1. Shape(m, Len(makers), o, makers)
    BY <1>2 DEF Matched
  <2>2. \A n \in DOMAIN m.fills : FillShape(m.fills[n], n, m, Len(makers), o, makers)
    BY <2>1 DEF Shape
  <2> QED
    BY <1>9, <2>2 DEF FillShape
<1>12. \A x : Traded(x, all) \in Int /\ Traded(x, fills) \in Int
  BY <1>2, <1>6, TradedIsInt DEF Matched
<1>13. ASSUME NEW x, x # o, \A i \in DOMAIN makers : makers[i].id # x
       PROVE  Traded(x, all) = Traded(x, fills)
  <2>1. \A f \in new : x \notin {f.maker, f.taker}
    BY <1>5, <1>11, <1>13 DEF ToSet
  <2>2. \A f \in all \ fills : x \notin {f.maker, f.taker}
    BY <1>6, <2>1
  <2> QED
    BY <1>6, <2>2, TradedOthers
<1>14. Traded(o, all) + m.left = rows[o].size
  BY <1>9 DEF RoomFor
\* What rests afterwards.
<1>15. MakersExact(own, all)
  <2>1. ASSUME NEW j \in DOMAIN own
        PROVE  /\ rows[own[j].id].size > 0
               /\ own[j].left + Traded(own[j].id, all) = rows[own[j].id].size
    <3>1. CASE j \in DOMAIN rest /\ own[j] = rest[j]
      <4>1. Traded(rest[j].id, all) = Traded(rest[j].id, fills)
        BY <1>3, <1>7, <1>8, <1>13, <3>1
      <4> QED
        BY <1>10, <3>1, <4>1 DEF MakersExact
    <3>2. CASE own[j].id = o /\ own[j].left = m.left
      BY <1>4, <1>12, <1>14, <3>2
    <3> QED
      BY <1>2, <3>1, <3>2 DEF Matched
  <2> QED
    BY <2>1 DEF MakersExact
<1>16. MakersExact(m.kept, all)
  <2>1. ASSUME NEW j \in DOMAIN m.kept
        PROVE  /\ rows[m.kept[j].id].size > 0
               /\ m.kept[j].left + Traded(m.kept[j].id, all) = rows[m.kept[j].id].size
    <3>1. PICK i \in DOMAIN makers : KeptOf(m.kept[j], makers[i], fills, all)
      BY <1>9 DEF RoomFor
    <3>2. PICK e \in Entry, old \in Entry : e = m.kept[j] /\ old = makers[i]
      BY <1>4
    <3>3. e.id = old.id /\ Traded(old.id, all) + e.left = Traded(old.id, fills) + old.left
      BY <3>1, <3>2 DEF KeptOf
    <3>4. rows[old.id].size > 0 /\ old.left + Traded(old.id, fills) = rows[old.id].size
      BY <1>10, <3>2 DEF MakersExact
    <3>5. e.left \in Int /\ old.left \in Int
      BY DEF Entry
    <3> QED
      BY <1>12, <3>2, <3>3, <3>4, <3>5
  <2> QED
    BY <2>1 DEF MakersExact
<1>17. ASSUME NEW x \in Taken', rows[x].size > 0, cancels[x] = 0
       PROVE  OnBook(x)' \/ Traded(x, all) = rows[x].size
  <2>1. CASE x = o
    <3>1. CASE m.left > 0
      <4>1. \E j \in DOMAIN own : own[j].id = o
        BY <1>2, <3>1 DEF Matched
      <4> QED
        BY <1>3, <2>1, <4>1 DEF OnBook
    <3>2. CASE m.left = 0
      BY <1>12, <1>14, <2>1, <3>2
    <3> QED
      BY <1>4, <3>1, <3>2
  <2>2. CASE \E i \in DOMAIN rest : rest[i].id = x
    <3>1. \E j \in DOMAIN own : own[j].id = x
      BY <1>2, <2>2 DEF Matched
    <3> QED
      BY <1>3, <3>1 DEF OnBook
  <2>3. CASE \E i \in DOMAIN makers : makers[i].id = x
    <3>1. PICK i \in DOMAIN makers, old \in Entry : old = makers[i] /\ old.id = x
      BY <2>3
    <3>2. CASE Traded(x, all) = Traded(x, fills) + old.left
      <4>1. old.left + Traded(x, fills) = rows[x].size /\ old.left \in Int
        BY <1>10, <3>1 DEF MakersExact, Entry
      <4> QED
        BY <1>12, <3>2, <4>1
    <3>3. CASE \E j \in DOMAIN m.kept : KeptOf(m.kept[j], old, fills, all)
      <4>1. PICK j \in DOMAIN m.kept : m.kept[j].id = x
        BY <3>1, <3>3 DEF KeptOf
      <4> QED
        BY <1>3, <4>1 DEF OnBook
    <3> QED
      BY <1>9, <3>1, <3>2, <3>3 DEF RoomFor
  <2>4. CASE /\ x # o /\ \A i \in DOMAIN rest : rest[i].id # x
             /\ \A i \in DOMAIN makers : makers[i].id # x
    <3>1. ~ OnBook(x)
      BY <1>3, <2>4 DEF OnBook
    <3>2. Traded(x, fills) = rows[x].size
      BY <1>1, <1>5, <1>17, <2>4, <3>1 DEF ExactParts, EngineExact, BookExact
    <3> QED
      BY <1>13, <2>4, <3>2
  <2> QED
    BY <2>1, <2>2, <2>3, <2>4
<1>18. BookExact'
  <2>1. \A s \in Side : MakersExact(book'[s], all)
    BY <1>3, <1>15, <1>16
  <2>2. UNCHANGED <<rows, cancels>>
    BY <1>1
  <2> QED
    BY <1>6, <1>17, <2>1, <2>2 DEF BookExact, MakersExact
<1>19. InOrder'
  <2>1. DOMAIN outbox' = DOMAIN m.fills
        /\ \A j \in DOMAIN m.fills : outbox'[j].body = m.fills[j]
    BY <1>5 DEF Envelope
  <2>2. \A f \in fills : f.trade[2] < position["created"]
    BY <1>2 DEF Matched, Older
  <2>3. \A i \in DOMAIN log["matched"], j \in DOMAIN m.fills :
            NoLater(log["matched"][i], m.fills[j])
    BY <1>1, <1>5, <1>11, <2>2 DEF NoLater, ToSet
  <2>4. ASSUME NEW i \in DOMAIN m.fills, NEW j \in DOMAIN m.fills, i <= j
        PROVE  NoLater(m.fills[i], m.fills[j])
    <3>1. i \in Int /\ j \in Int
      BY <1>4
    <3> QED
      BY <1>11, <2>4, <3>1 DEF NoLater
  <2>5. log' = log
    BY <1>1
  <2>6. \A i, j \in DOMAIN log["matched"] :
            i <= j => NoLater(log["matched"][i], log["matched"][j])
    BY DEF ExactParts, EngineExact, InOrder
  <2> QED
    BY <2>1, <2>3, <2>4, <2>5, <2>6 DEF InOrder
<1>20. EngineExact'
  <2>1. Exact(all)
    BY <1>2, <1>6, <1>10 DEF Matched
  <2>2. Exact(Fills)'
    BY <1>1, <1>6, <2>1 DEF Exact, ExactFill
  <2> QED
    BY <1>18, <1>19, <2>2 DEF EngineExact
<1>21. IndexerExact'
  <2>1. PICK p \in Nat : p = position["matched"] /\ p <= p
    BY MatchedFacts
  <2>2. position'["matched"] = position["matched"]
    <3>1. Fetch("created") /\ "created" \in Topic /\ "matched" \in Topic
      BY DEF ProcessCreated, Topic
    <3> QED
      BY <1>1, <3>1, FetchFacts
  <2> QED
    BY <1>1, <2>1, <2>2, IndexerQuiet DEF ExactParts
<1>22. ApiExact'
  BY <1>1, ApiQuiet DEF ExactParts
<1> QED
  BY <1>20, <1>21, <1>22 DEF ExactParts

LEMMA ProcessCreatedExact ==
    ASSUME TypeOK, LifeParts, ExactParts, ProcessCreated
    PROVE  ExactParts'
<1>1. PICK o : o = Message("created")
  OBVIOUS
<1> QED
  BY <1>1, RejectExact, MatchExact

\* One more fill for the indexer to come to.
LEMMA LongerLog ==
    ASSUME TypeOK, IndexerExact, UNCHANGED <<rows, placed, tradeRows>>,
           position'["matched"] = position["matched"],
           NEW body, log'["matched"] = Append(log["matched"], body)
    PROVE  IndexerExact'
<1>1. PICK s \in Seq(Fill), n \in Nat, p \in Nat :
            /\ s = log["matched"] /\ n = Len(s) /\ DOMAIN s = 1..n
            /\ p = position["matched"] /\ p <= n
  BY MatchedFacts
<1>2. /\ DOMAIN log'["matched"] = 1..(n + 1)
      /\ \A i \in 1..n : log'["matched"][i] = s[i]
  BY <1>1, AppendIndex
<1>3. \A i \in 1..n : i \in 1..(n + 1) /\ \A j \in (i + 1)..p : j \in 1..n
  BY <1>1
<1>4. \A j \in 1..p : j \in 1..n
  BY <1>1
<1>5. RowsFollow'
  <2> SUFFICES ASSUME NEW o \in ToSet(placed)
               PROVE  \/ \E i \in 1..(n + 1) :
                            /\ Shows(o, i)'
                            /\ \A j \in (i + 1)..p : o \notin Parties(log'["matched"][j])
                      \/ /\ rows'[o].remaining = rows'[o].size
                         /\ \A j \in 1..p : o \notin Parties(log'["matched"][j])
    BY <1>1, <1>2 DEF RowsFollow
  <2>1. CASE \E i \in 1..n : /\ Shows(o, i)
                             /\ \A j \in (i + 1)..p : o \notin Parties(s[j])
    <3>1. PICK i \in 1..n : Shows(o, i) /\ \A j \in (i + 1)..p : o \notin Parties(s[j])
      BY <2>1
    <3>2. Shows(o, i)'
      BY <1>1, <1>2, <3>1 DEF Shows
    <3>3. \A j \in (i + 1)..p : o \notin Parties(log'["matched"][j])
      BY <1>2, <1>3, <3>1
    <3> QED
      BY <1>3, <3>2, <3>3
  <2>2. CASE /\ rows[o].remaining = rows[o].size
             /\ \A j \in 1..p : o \notin Parties(s[j])
    BY <1>2, <1>4, <2>2
  <2> QED
    BY <1>1, <2>1, <2>2 DEF IndexerExact, RowsFollow
<1>6. TradesFollow'
  <2>1. \A row \in tradeRows : \E i \in 1..n : row = RowOf(s[i])
    BY <1>1 DEF IndexerExact, TradesFollow
  <2>2. \A i \in 1..p : RowOf(s[i]) \in tradeRows
    BY <1>1 DEF IndexerExact, TradesFollow
  <2>3. \A row \in tradeRows : \E i \in 1..(n + 1) : row = RowOf(log'["matched"][i])
    BY <1>2, <1>3, <2>1
  <2>4. \A i \in 1..p : RowOf(log'["matched"][i]) \in tradeRows
    BY <1>2, <1>4, <2>2
  <2> QED
    BY <1>1, <1>2, <2>3, <2>4 DEF TradesFollow
<1> QED
  BY <1>5, <1>6 DEF IndexerExact

\* A result goes from the outbox to its topic, and perhaps stays there too.
LEMMA ResultExact ==
    ASSUME TypeOK, LifeParts, ExactParts, PublishResult \/ RepeatResult
    PROVE  ExactParts'
<1>1. /\ outbox # <<>> /\ Published(Head(outbox).topic, Head(outbox).body)
      /\ UNCHANGED <<store, api, consumers, book>>
      /\ outbox' = Tail(outbox) \/ outbox' = outbox
      /\ UNCHANGED fault \/ Suffer({"repeatedPublish"})
  BY DEF PublishResult, RepeatResult, engine
<1>2. PICK t \in {"matched", "rejected"}, body \in Order \cup Fill :
            /\ t = Head(outbox).topic /\ body = Head(outbox).body
            /\ t = "matched" => body \in Fill
            /\ t = "rejected" => body \in Order
  BY <1>1, HeadFacts
<1>3. t \in Topic /\ t \notin EngineTopic /\ "created" \in Topic /\ t # "created"
      /\ "matched" \in Topic /\ "rejected" \in Topic /\ "cancelled" \in Topic /\ t # "cancelled"
  BY DEF Topic, EngineTopic
<1>4. UNCHANGED <<rows, placed, tradeRows, book, cancels, publishing, position>>
  BY <1>1 DEF store, api, consumers
<1>5. Published(t, body)
  BY <1>1, <1>2
<1>6. /\ log'[t] = Append(log[t], body)
      /\ \A u \in Topic \ {t} : log'[u] = log[u]
  BY <1>2, <1>3, <1>4, <1>5, PublishedFacts
<1>7. Taken' = Taken /\ log'["created"] = log["created"] /\ log'["cancelled"] = log["cancelled"]
  <2>1. log'["created"] = log["created"] /\ log'["cancelled"] = log["cancelled"]
    BY <1>3, <1>6
  <2> QED
    BY <1>4, <2>1 DEF Taken
<1>8. PICK old \in Seq(Result), n \in Nat :
            /\ old = outbox /\ n = Len(old) /\ n > 0 /\ DOMAIN old = 1..n
            /\ old[1].topic = t /\ old[1].body = body
  <2>1. PICK old \in Seq(Result) : old = outbox
    BY DEF TypeOK
  <2>2. Len(old) \in Nat /\ Len(old) > 0 /\ DOMAIN old = 1..Len(old) /\ Head(old) = old[1]
    BY <1>1, <2>1
  <2> QED
    BY <1>2, <2>1, <2>2
<1>9. PICK d \in {0, 1} : /\ DOMAIN outbox' = 1..(n - d)
                          /\ \A j \in 1..(n - d) : outbox'[j] = old[j + d]
  <2>1. CASE outbox' = Tail(old)
    <3>1. DOMAIN Tail(old) = 1..(n - 1) /\ \A j \in 1..(n - 1) : Tail(old)[j] = old[j + 1]
      BY <1>8
    <3> QED
      BY <2>1, <3>1
  <2>2. CASE outbox' = old
    <3>1. DOMAIN outbox' = 1..(n - 0) /\ \A j \in 1..(n - 0) : outbox'[j] = old[j + 0]
      BY <1>8, <2>2
    <3> QED
      BY <3>1
  <2> QED
    BY <1>1, <1>8, <2>1, <2>2
<1>10. PICK s \in Seq(Fill), k \in Nat :
            s = log["matched"] /\ k = Len(s) /\ DOMAIN s = 1..k
  BY MatchedFacts
<1>11. \/ t = "rejected" /\ log'["matched"] = s
       \/ /\ t = "matched" /\ log'["matched"] = Append(s, body)
          /\ DOMAIN log'["matched"] = 1..(k + 1) /\ log'["matched"][k + 1] = body
          /\ \A i \in 1..k : log'["matched"][i] = s[i]
  <2>1. CASE t = "rejected"
    BY <1>3, <1>6, <1>10, <2>1
  <2>2. CASE t = "matched"
    <3>1. log'["matched"] = Append(s, body)
      BY <1>6, <1>10, <2>2
    <3> QED
      BY <1>10, <2>2, <3>1, AppendIndex
  <2> QED
    BY <2>1, <2>2
<1>12. Fills' = Fills
  <2>1. \A b : b \in Fills <=> \/ b \in ToSet(s)
                               \/ \E i \in 1..n : old[i].topic = "matched" /\ old[i].body = b
    BY <1>8, <1>10 DEF Fills, ToSet
  <2>2. \A b : b \in Fills' <=>
            \/ b \in ToSet(log'["matched"])
            \/ \E i \in 1..(n - d) : old[i + d].topic = "matched" /\ old[i + d].body = b
    BY <1>9 DEF Fills, ToSet
  <2>3. \A b : b \in ToSet(log'["matched"]) <=> b \in ToSet(s) \/ (t = "matched" /\ b = body)
    <3>1. CASE t = "rejected"
      BY <1>11, <3>1
    <3>2. CASE t = "matched"
      <4>1. ToSet(Append(s, body)) = ToSet(s) \cup {body}
        BY <1>2, <3>2, AppendFacts
      <4>2. PICK new : new = log'["matched"] /\ new = Append(s, body)
        BY <1>11, <3>2
      <4> QED
        BY <3>2, <4>1, <4>2
    <3> QED
      BY <3>1, <3>2
  <2>4. /\ \A i \in 1..(n - d) : i + d \in 1..n
        /\ \A i \in 1..n : i = 1 \/ (i - d \in 1..(n - d) /\ (i - d) + d = i)
    BY <1>8, <1>9
  <2>5. \A b : b \in Fills' => b \in Fills
    BY <1>8, <2>1, <2>2, <2>3, <2>4
  <2>6. \A b : b \in Fills => b \in Fills'
    BY <1>8, <2>1, <2>2, <2>3, <2>4
  <2> QED
    BY <2>5, <2>6
<1>13. InOrder'
  <2>1. /\ \A i, j \in 1..k : i <= j => NoLater(s[i], s[j])
        /\ \A i \in 1..k, j \in 1..n : old[j].topic = "matched" => NoLater(s[i], old[j].body)
        /\ \A i, j \in 1..n : i <= j /\ old[i].topic = "matched" /\ old[j].topic = "matched"
                => NoLater(old[i].body, old[j].body)
    BY <1>8, <1>10 DEF ExactParts, EngineExact, InOrder
  <2>2. /\ \A j \in 1..(n - d) : j + d \in 1..n /\ 1 <= j + d
        /\ \A i, j \in 1..(n - d) : i <= j => i + d <= j + d
        /\ 1 \in 1..n
    BY <1>8, <1>9
  <2>3. \A i, j \in DOMAIN outbox' :
            i <= j /\ outbox'[i].topic = "matched" /\ outbox'[j].topic = "matched"
                => NoLater(outbox'[i].body, outbox'[j].body)
    BY <1>9, <2>1, <2>2
  <2>4. CASE t = "rejected"
    <3>1. \A i, j \in DOMAIN s : i <= j => NoLater(s[i], s[j])
      BY <1>10, <2>1
    <3>2. \A i \in DOMAIN s, j \in DOMAIN outbox' :
            outbox'[j].topic = "matched" => NoLater(s[i], outbox'[j].body)
      <4> SUFFICES ASSUME NEW i \in 1..k, NEW j \in 1..(n - d), outbox'[j].topic = "matched"
                   PROVE  NoLater(s[i], outbox'[j].body)
        BY <1>9, <1>10
      <4>1. j + d \in 1..n /\ outbox'[j] = old[j + d]
        BY <1>9, <2>2
      <4>2. old[j + d].topic = "matched"
        BY <4>1
      <4>3. NoLater(s[i], old[j + d].body)
        BY <2>1, <4>1, <4>2
      <4> QED
        BY <4>1, <4>3
    <3>3. log'["matched"] = s
      BY <1>11, <2>4
    <3> QED
      BY <2>3, <3>1, <3>2, <3>3 DEF InOrder
  <2>5. CASE t = "matched"
    <3>1. PICK new : new = log'["matched"]
      OBVIOUS
    <3>2. DOMAIN new = 1..(k + 1) /\ new[k + 1] = body /\ \A i \in 1..k : new[i] = s[i]
      BY <1>11, <2>5, <3>1
    <3>3. \A i \in 1..(k + 1) : i = k + 1 \/ i \in 1..k
      BY <1>10
    <3>4. NoLater(body, body) /\ \A i \in 1..k : NoLater(s[i], body)
      BY <1>2, <1>8, <2>1, <2>2, <2>5, LaterFacts
    <3>5. ASSUME NEW i \in DOMAIN new, NEW j \in DOMAIN new, i <= j
          PROVE  NoLater(new[i], new[j])
      <4>1. CASE j = k + 1
        BY <3>2, <3>3, <3>4, <4>1
      <4>2. CASE j \in 1..k
        <5>1. i \in 1..k
          BY <1>10, <3>2, <3>5, <4>2
        <5> QED
          BY <2>1, <3>2, <3>5, <4>2, <5>1
      <4> QED
        BY <3>2, <3>3, <4>1, <4>2
    <3>6. ASSUME NEW i \in DOMAIN new, NEW j \in DOMAIN outbox', outbox'[j].topic = "matched"
          PROVE  NoLater(new[i], outbox'[j].body)
      <4>1. j + d \in 1..n /\ 1 <= j + d /\ outbox'[j] = old[j + d]
        BY <1>9, <2>2
      <4>2. CASE i = k + 1
        BY <1>8, <2>1, <2>2, <2>5, <3>2, <3>6, <4>1, <4>2
      <4>3. CASE i \in 1..k
        BY <2>1, <3>2, <3>6, <4>1, <4>3
      <4> QED
        BY <3>2, <3>3, <4>2, <4>3
    <3> QED
      BY <2>3, <3>1, <3>5, <3>6 DEF InOrder
  <2> QED
    BY <2>4, <2>5
<1>14. EngineExact'
  BY <1>4, <1>7, <1>12, <1>13, EngineQuiet DEF ExactParts
<1>15. IndexerExact'
  <2>1. CASE t = "rejected"
    <3>1. log'["matched"] = log["matched"]
      BY <1>10, <1>11, <2>1
    <3>2. PICK p \in Nat : p = position["matched"] /\ p <= p
      BY MatchedFacts
    <3> QED
      BY <1>4, <3>1, <3>2, IndexerQuiet DEF ExactParts
  <2>2. CASE t = "matched"
    <3>1. log'["matched"] = Append(log["matched"], body)
      BY <1>6, <2>2
    <3> QED
      BY <1>4, <3>1, LongerLog DEF ExactParts
  <2> QED
    BY <2>1, <2>2
<1>16. ApiExact'
  <2>1. "lostRequest" \in FaultKind
    BY DEF FaultKind
  <2>2. fault'["lostRequest"] = fault["lostRequest"]
    BY <1>1, <2>1, SufferFacts
  <2> QED
    BY <1>4, <1>7, <2>2, ApiQuiet DEF ExactParts
<1> QED
  BY <1>14, <1>15, <1>16 DEF ExactParts

\* A cancellation takes out at most the order it names, which was cancelled.
LEMMA RemoveKeeps ==
    ASSUME NEW s \in Seq(Entry), NEW k \in DOMAIN s, NEW t, t = RemoveAt(s, k)
    PROVE  \A i \in DOMAIN s : i # k => \E j \in DOMAIN t : t[j] = s[i]
<1>1. PICK n \in Nat : n = Len(s) /\ DOMAIN s = 1..n /\ k \in 1..n
  OBVIOUS
<1>2. t \in Seq(Entry) /\ Len(t) = n - 1
      /\ \A i \in 1..(n - 1) : t[i] = IF i < k THEN s[i] ELSE s[i + 1]
  BY <1>1, RemoveAtIndex
<1>3. DOMAIN t = 1..(n - 1)
  BY <1>1, <1>2
<1>4. ASSUME NEW i \in 1..n, i < k
      PROVE  \E j \in 1..(n - 1) : t[j] = s[i]
  <2>1. i \in 1..(n - 1)
    BY <1>1, <1>4
  <2> QED
    BY <1>2, <1>4, <2>1
<1>5. ASSUME NEW i \in 1..n, i > k
      PROVE  \E j \in 1..(n - 1) : t[j] = s[i]
  <2>1. i - 1 \in 1..(n - 1) /\ ~ (i - 1 < k) /\ (i - 1) + 1 = i
    BY <1>1, <1>5
  <2>2. t[i - 1] = s[i]
    BY <1>2, <2>1
  <2> QED
    BY <2>1, <2>2
<1>6. \A i \in 1..n : i # k => i < k \/ i > k
  BY <1>1
<1> QED
  BY <1>1, <1>3, <1>4, <1>5, <1>6

LEMMA ProcessCancelledExact ==
    ASSUME TypeOK, LifeParts, ExactParts, ProcessCancelled
    PROVE  ExactParts'
<1>1. /\ Fetch("cancelled") /\ book' = Without(Message("cancelled"))
      /\ UNCHANGED <<store, api, log, outbox, fault>>
      /\ "cancelled" \in Topic /\ "created" \in Topic /\ "matched" \in Topic
  BY DEF ProcessCancelled, Topic
<1>2. position'["created"] = position["created"] /\ position'["matched"] = position["matched"]
  BY <1>1, FetchFacts
<1>3. PICK x : x = Message("cancelled") /\ x \in ToSet(log["cancelled"]) /\ cancels[x] # 0
  <2>1. position["cancelled"] + 1 \in DOMAIN log["cancelled"]
        /\ Message("cancelled") = log["cancelled"][position["cancelled"] + 1]
    BY <1>1, FetchFacts
  <2>2. Message("cancelled") \in ToSet(log["cancelled"])
    BY <2>1 DEF ToSet
  <2> QED
    BY <2>2 DEF ExactParts, ApiExact
<1>4. book \in [Side -> Seq(Entry)]
  BY DEF TypeOK
<1>5. UNCHANGED <<rows, placed, tradeRows, publishing, cancels, log, outbox, fault>>
      /\ Taken' = Taken /\ Fills' = Fills
  BY <1>1, <1>2 DEF store, api, Taken, Fills
<1>6. ASSUME NEW side \in Side
      PROVE  /\ \A i \in DOMAIN book'[side] :
                    \E j \in DOMAIN book[side] : book'[side][i] = book[side][j]
             /\ \A i \in DOMAIN book[side] : book[side][i].id # x =>
                    \E j \in DOMAIN book'[side] : book'[side][j] = book[side][i]
  <2>1. CASE book' = book
    BY <2>1
  <2>2. CASE \E s \in Side : \E k \in DOMAIN book[s] :
                book[s][k].id = x /\ book' = [book EXCEPT ![s] = RemoveAt(@, k)]
    <3>0. PICK s \in Side : \E k \in DOMAIN book[s] :
                book[s][k].id = x /\ book' = [book EXCEPT ![s] = RemoveAt(@, k)]
      BY <2>2
    <3>1. PICK k \in DOMAIN book[s] :
                book[s][k].id = x /\ book' = [book EXCEPT ![s] = RemoveAt(@, k)]
      BY <3>0
    <3>2. CASE s = side
      <4>1. PICK old \in Seq(Entry) : old = book[side] /\ k \in DOMAIN old /\ old[k].id = x
                                      /\ IdsDiffer(old)
        BY <1>4, <3>1, <3>2 DEF LifeParts, RestsOnce
      <4>2. PICK new : new = book'[side] /\ new = RemoveAt(old, k)
        BY <1>4, <3>1, <3>2, <4>1
      <4>3. \A i \in DOMAIN new : \E j \in DOMAIN old : new[i] = old[j]
        BY <4>1, <4>2, RemoveIds
      <4>4. \A i \in DOMAIN old : i # k => \E j \in DOMAIN new : new[j] = old[i]
        BY <4>1, <4>2, RemoveKeeps
      <4> QED
        BY <4>1, <4>2, <4>3, <4>4
    <3>3. CASE s # side
      BY <1>4, <3>1, <3>3
    <3> QED
      BY <3>2, <3>3
  <2> QED
    BY <1>1, <1>3, <2>1, <2>2, WithoutFacts
<1>7. BookExact'
  <2>1. ASSUME NEW side \in Side
        PROVE  MakersExact(book'[side], Fills)
    <3>1. MakersExact(book[side], Fills)
      BY DEF ExactParts, EngineExact, BookExact
    <3> QED
      BY <1>6, <3>1 DEF MakersExact
  <2>2. ASSUME NEW o \in Taken, cancels[o] = 0, OnBook(o)
        PROVE  OnBook(o)'
    <3>1. PICK side \in Side : \E i \in DOMAIN book[side] : book[side][i].id = o
      BY <2>2 DEF OnBook
    <3>2. PICK i \in DOMAIN book[side] : book[side][i].id = o
      BY <3>1
    <3>3. o # x
      BY <1>3, <2>2
    <3> QED
      BY <1>6, <3>2, <3>3 DEF OnBook
  <2> QED
    BY <1>5, <2>1, <2>2 DEF ExactParts, EngineExact, BookExact, MakersExact
<1>8. EngineExact'
  <2>1. InOrder'
    BY <1>5 DEF ExactParts, EngineExact, InOrder
  <2>2. Exact(Fills)'
    BY <1>5 DEF ExactParts, EngineExact, Exact, ExactFill
  <2> QED
    BY <1>7, <2>1, <2>2 DEF EngineExact
<1>9. IndexerExact'
  <2>1. PICK p \in Nat : p = position["matched"] /\ p <= p
    BY MatchedFacts
  <2> QED
    BY <1>2, <1>5, <2>1, IndexerQuiet DEF ExactParts
<1>10. ApiExact'
  BY <1>5, ApiQuiet DEF ExactParts
<1> QED
  BY <1>8, <1>9, <1>10 DEF ExactParts

\* The indexer.
LEMMA OrderRejectedExact ==
    ASSUME TypeOK, LifeParts, ExactParts, OrderRejected
    PROVE  ExactParts'
<1>1. /\ Fetch("rejected") /\ rows' = [rows EXCEPT ![Message("rejected")].status = "rejected"]
      /\ UNCHANGED <<placed, tradeRows, api, log, engine, fault>>
      /\ "rejected" \in Topic /\ "created" \in Topic /\ "matched" \in Topic
  BY DEF OrderRejected, Topic
<1>2. position'["created"] = position["created"] /\ position'["matched"] = position["matched"]
  BY <1>1, FetchFacts
<1>3. PICK o : o = Message("rejected")
  OBVIOUS
<1>4. \A x \in ToSet(placed) :
        rows'[x].size = rows[x].size /\ rows'[x].remaining = rows[x].remaining
  BY <1>1, <1>3 DEF TypeOK
<1>5. /\ Taken' = Taken /\ Fills' = Fills
      /\ UNCHANGED <<book, outbox, cancels, publishing>>
  BY <1>1, <1>2 DEF Taken, Fills, engine, api
<1>6. EngineExact'
  <2>1. InOrder'
    BY <1>1, <1>5 DEF ExactParts, EngineExact, InOrder
  <2> QED
    BY <1>4, <1>5, <2>1, EngineQuiet DEF ExactParts
<1>7. IndexerExact'
  <2>1. PICK p \in Nat : p = position["matched"] /\ p <= p
    BY MatchedFacts
  <2> QED
    BY <1>1, <1>2, <1>4, <2>1, IndexerQuiet DEF ExactParts
<1>8. ApiExact'
  BY <1>1, <1>5, ApiQuiet DEF ExactParts
<1> QED
  BY <1>6, <1>7, <1>8 DEF ExactParts

LEMMA OrderMatchedExact ==
    ASSUME TypeOK, LifeParts, ExactParts, OrderMatched
    PROVE  ExactParts'
<1>1. /\ Fetch("matched") /\ fn_process_order_matched(Message("matched"))
      /\ UNCHANGED <<placed, api, log, engine, fault>>
      /\ "matched" \in Topic /\ "created" \in Topic
  BY DEF OrderMatched, Topic
<1>2. PICK s \in Seq(Fill), n \in Nat, p \in Nat :
            /\ s = log["matched"] /\ n = Len(s) /\ DOMAIN s = 1..n
            /\ p = position["matched"] /\ p <= n
  BY MatchedFacts
<1>3. /\ p + 1 \in 1..n /\ position'["matched"] = p + 1 /\ Message("matched") = s[p + 1]
      /\ position'["created"] = position["created"]
  BY <1>1, <1>2, FetchFacts
<1>4. PICK f \in Fill : f = s[p + 1] /\ f \in Fills
  BY <1>2, <1>3 DEF Fills, ToSet
<1>5. /\ rows' = [rows EXCEPT ![f.maker] = AfterFill(@, f.makerLeft),
                              ![f.taker] = AfterFill(@, f.takerLeft)]
      /\ tradeRows' = tradeRows \cup {RowOf(f)}
  BY <1>1, <1>3, <1>4 DEF fn_process_order_matched, RowOf
<1>6. f.maker # f.taker /\ f.maker \in ToSet(placed) /\ f.taker \in ToSet(placed)
  <2>1. f.maker # f.taker
    BY <1>4 DEF ExactParts, EngineExact, Exact, ExactFill
  <2> QED
    BY <1>4, <2>1, TakenFacts DEF LifeParts, FillsAreSound
<1>7. \A x \in ToSet(placed) :
        /\ rows'[x].size = rows[x].size
        /\ x \in Parties(f) => rows'[x].remaining = LeftTo(f, x)
        /\ x \notin Parties(f) => rows'[x] = rows[x]
  <2>1. ASSUME NEW x \in ToSet(placed), x = f.maker
        PROVE  rows'[x] = AfterFill(rows[x], f.makerLeft)
    BY <1>5, <1>6, <2>1 DEF TypeOK
  <2>2. ASSUME NEW x \in ToSet(placed), x = f.taker
        PROVE  rows'[x] = AfterFill(rows[x], f.takerLeft)
    BY <1>5, <1>6, <2>2 DEF TypeOK
  <2>3. ASSUME NEW x \in ToSet(placed), x \notin Parties(f)
        PROVE  rows'[x] = rows[x]
    BY <1>5, <1>6, <2>3 DEF TypeOK, Parties
  <2>4. \A x \in ToSet(placed) : \A left :
            AfterFill(rows[x], left).size = rows[x].size /\ AfterFill(rows[x], left).remaining = left
    BY DEF AfterFill, TypeOK
  <2> SUFFICES ASSUME NEW x \in ToSet(placed)
               PROVE  /\ rows'[x].size = rows[x].size
                      /\ x \in Parties(f) => rows'[x].remaining = LeftTo(f, x)
                      /\ x \notin Parties(f) => rows'[x] = rows[x]
    OBVIOUS
  <2>5. CASE x = f.maker
    BY <2>1, <2>4, <2>5 DEF Parties, LeftTo
  <2>6. CASE x = f.taker
    <3>1. rows'[x] = AfterFill(rows[x], f.takerLeft) /\ LeftTo(f, x) = f.takerLeft
      BY <1>6, <2>2, <2>6 DEF LeftTo
    <3> QED
      BY <2>4, <2>6, <3>1 DEF Parties
  <2>7. CASE x \notin Parties(f)
    BY <2>3, <2>7
  <2> QED
    BY <2>5, <2>6, <2>7 DEF Parties
<1>8. /\ Taken' = Taken /\ Fills' = Fills
      /\ UNCHANGED <<book, outbox, cancels, publishing, log>>
  BY <1>1, <1>3 DEF Taken, Fills, engine, api
<1>9. EngineExact'
  <2>1. InOrder'
    BY <1>8 DEF ExactParts, EngineExact, InOrder
  <2> QED
    BY <1>7, <1>8, <2>1, EngineQuiet DEF ExactParts
<1>10. RowsFollow'
  <2> SUFFICES ASSUME NEW o \in ToSet(placed)
               PROVE  \/ \E i \in 1..n :
                            /\ Shows(o, i)'
                            /\ \A j \in (i + 1)..(p + 1) : o \notin Parties(s[j])
                      \/ /\ rows'[o].remaining = rows'[o].size
                         /\ \A j \in 1..(p + 1) : o \notin Parties(s[j])
    BY <1>1, <1>2, <1>3 DEF RowsFollow
  <2>1. CASE o \in Parties(f)
    <3>1. Shows(o, p + 1)'
      BY <1>2, <1>4, <1>7, <1>8, <2>1 DEF Shows
    <3>2. \A j \in ((p + 1) + 1)..(p + 1) : FALSE
      BY <1>2
    <3> QED
      BY <1>3, <3>1, <3>2
  <2>2. CASE o \notin Parties(f)
    <3>1. rows'[o] = rows[o]
      BY <1>7, <2>2
    <3>2. CASE \E i \in 1..n : /\ Shows(o, i)
                               /\ \A j \in (i + 1)..p : o \notin Parties(s[j])
      <4>1. PICK i \in 1..n : Shows(o, i) /\ \A j \in (i + 1)..p : o \notin Parties(s[j])
        BY <3>2
      <4>2. Shows(o, i)'
        BY <1>8, <3>1, <4>1 DEF Shows
      <4>3. \A j \in (i + 1)..(p + 1) : j = p + 1 \/ j \in (i + 1)..p
        BY <1>2
      <4> QED
        BY <1>4, <2>2, <4>1, <4>2, <4>3
    <3>3. CASE /\ rows[o].remaining = rows[o].size
               /\ \A j \in 1..p : o \notin Parties(s[j])
      <4>1. \A j \in 1..(p + 1) : j = p + 1 \/ j \in 1..p
        BY <1>2
      <4> QED
        BY <1>4, <2>2, <3>1, <3>3, <4>1
    <3> QED
      BY <1>2, <3>2, <3>3 DEF ExactParts, IndexerExact, RowsFollow
  <2> QED
    BY <2>1, <2>2
<1>11. TradesFollow'
  <2>1. \A row \in tradeRows : \E i \in 1..n : row = RowOf(s[i])
    BY <1>2 DEF ExactParts, IndexerExact, TradesFollow
  <2>2. \A i \in 1..p : RowOf(s[i]) \in tradeRows
    BY <1>2 DEF ExactParts, IndexerExact, TradesFollow
  <2>3. \A row \in tradeRows' : \E i \in 1..n : row = RowOf(s[i])
    BY <1>3, <1>4, <1>5, <2>1
  <2>4. \A i \in 1..(p + 1) : RowOf(s[i]) \in tradeRows'
    <3>1. \A i \in 1..(p + 1) : i = p + 1 \/ i \in 1..p
      BY <1>2
    <3> QED
      BY <1>4, <1>5, <2>2, <3>1
  <2> QED
    BY <1>2, <1>3, <1>8, <2>3, <2>4 DEF TradesFollow
<1>12. ApiExact'
  BY <1>1, <1>8, ApiQuiet DEF ExactParts
<1> QED
  BY <1>9, <1>10, <1>11, <1>12 DEF ExactParts, IndexerExact

LEMMA InitExact ==
    Init => ExactInv
<1> SUFFICES ASSUME Init PROVE ExactParts
  BY DEF ExactInv
<1>1. /\ publishing = {} /\ placed = <<>> /\ outbox = <<>> /\ tradeRows = {}
      /\ log["created"] = <<>> /\ log["cancelled"] = <<>> /\ log["matched"] = <<>>
      /\ position["created"] = 0 /\ position["matched"] = 0
      /\ book["buy"] = <<>> /\ book["sell"] = <<>>
  BY DEF Init, Topic, Side
<1>2. /\ ToSet(outbox) = {} /\ ToSet(log["matched"]) = {} /\ ToSet(placed) = {}
      /\ ToSet(log["cancelled"]) = {} /\ 1..0 = {}
  BY <1>1 DEF ToSet
<1>3. Fills = {} /\ Taken = {}
  BY <1>1, <1>2 DEF Fills, Taken
<1>4. \A side \in Side : DOMAIN book[side] = {}
  BY <1>1 DEF Side
<1>5. EngineExact
  <2>1. Exact(Fills)
    BY <1>3 DEF Exact
  <2>2. BookExact
    BY <1>3, <1>4 DEF BookExact, MakersExact
  <2>3. InOrder
    BY <1>1 DEF InOrder
  <2> QED
    BY <2>1, <2>2, <2>3 DEF EngineExact
<1>6. IndexerExact
  BY <1>1, <1>2 DEF IndexerExact, RowsFollow, TradesFollow
<1>7. ApiExact
  BY <1>1, <1>2 DEF ApiExact
<1> QED
  BY <1>5, <1>6, <1>7 DEF ExactParts

LEMMA StepExact ==
    TypeOK /\ LifeInv /\ ExactInv /\ [Next]_vars => ExactInv'
<1> SUFFICES ASSUME TypeOK, LifeInv, ExactInv, [Next]_vars, Lossless' PROVE ExactParts'
  BY DEF ExactInv
<1>1. LifeParts /\ ExactParts
  BY LosslessBefore, LosslessIsCalm DEF LifeInv, ExactInv
<1>2. CASE UNCHANGED vars
  <2>1. PICK p \in Nat : p = position["matched"] /\ p <= p
    BY MatchedFacts
  <2>2. UNCHANGED <<rows, placed, tradeRows, publishing, cancels, log, engine, position, fault>>
    BY <1>2 DEF vars, store, api, consumers
  <2> QED
    BY <1>1, <2>1, <2>2, QuietExact
<1>3. CASE \E w \in Wanted : CreateLimitOrder(w[1], w[2], w[3])
  BY <1>1, <1>3, CreateExact
<1>4. CASE \E o \in Cancellable : CancelOrder(o)
  BY <1>1, <1>4, CancelExact
<1>5. CASE \E r \in publishing : PublishRequest(r) \/ LoseRequest(r)
  BY <1>1, <1>5, RequestExact
<1>6. CASE \/ RestartEngine \/ RestartEngineEmpty \/ PublishFails
           \/ \E r \in publishing : RepeatRequest(r)
           \/ \E t \in IndexerTopic : DropMessage(t)
  BY <1>6, NotLosslessAfter
<1>7. CASE \E t \in Topic : CommitMessages(t) \/ CommitFails(t)
  BY <1>1, <1>7, CommitExact
<1>8. CASE ProcessCreated
  BY <1>1, <1>8, ProcessCreatedExact
<1>9. CASE PublishResult \/ RepeatResult
  BY <1>1, <1>9, ResultExact
<1>10. CASE ProcessCancelled
  BY <1>1, <1>10, ProcessCancelledExact
<1>11. CASE OrderMatched
  BY <1>1, <1>11, OrderMatchedExact
<1>12. CASE OrderRejected
  BY <1>1, <1>12, OrderRejectedExact
<1>13. CASE RestartIndexer
  BY <1>1, <1>13, RestartIndexerExact
<1> QED
  BY <1>2, <1>3, <1>4, <1>5, <1>6, <1>7, <1>8, <1>9, <1>10, <1>11, <1>12, <1>13 DEF Next

LEMMA ExactInvariance == Spec => [](TypeOK /\ LifeInv /\ ExactInv)
  BY InitType, InitLife, InitExact, StepType, StepLife, StepExact, PTL DEF Spec

-----------------------------------------------------------------------------
(* What a life in which nothing is lost promises.                           *)

LEMMA SameFills ==
    ASSUME NEW o, NEW fills, NEW others, FillsOf(o, fills) = FillsOf(o, others)
    PROVE  Traded(o, fills) = Traded(o, others)
  BY Zenon DEF Traded, FillsOf

\* What the trade rows of an order add up to is what was published of it.
LEMMA RowsAddUp ==
    ASSUME NEW fills \in SUBSET Fill, IsFiniteSet(fills), NEW o,
           \A f, g \in fills : f.trade = g.trade => f = g
    PROVE  Traded(o, {RowOf(f) : f \in fills}) = Traded(o, fills)
<1>1. PICK all : all = {RowOf(f) : f \in fills}
  OBVIOUS
<1>2. IsFiniteSet(all) /\ \A row \in all : row.size \in Int
  <2>1. PICK c : c = [f \in fills |-> RowOf(f)]
    OBVIOUS
  <2>2. c \in Surjection(fills, all)
    BY <1>1, <2>1 DEF Surjection
  <2>3. \A f \in fills : RowOf(f).size \in Int
    BY DEF RowOf, Fill
  <2> QED
    BY <1>1, <2>2, <2>3, FS_Surjection
<1>3. \A f \in fills : f.size \in Int
  BY FillSizes
<1>4. PICK g : /\ Adds(g, SizesOf(o, all), FillsOf(o, all)) /\ g[{}] = 0
               /\ g[FillsOf(o, all)] = Traded(o, all)
  BY <1>2, TradedIsASum
<1>5. PICK h : /\ Adds(h, SizesOf(o, fills), FillsOf(o, fills)) /\ h[{}] = 0
               /\ h[FillsOf(o, fills)] = Traded(o, fills)
  BY <1>3, TradedIsASum
<1>6. PICK D, E : D = FillsOf(o, all) /\ E = FillsOf(o, fills)
  OBVIOUS
<1>7. PICK c : c = [f \in E |-> RowOf(f)]
  OBVIOUS
<1>8. \A f \in fills : /\ RowOf(f).maker = f.maker /\ RowOf(f).taker = f.taker
                       /\ RowOf(f).trade = f.trade /\ RowOf(f).size = f.size
  BY DEF RowOf
<1>9. c \in [E -> D] /\ \A z \in D : \E x \in E : c[x] = z
  BY <1>1, <1>6, <1>7, <1>8 DEF FillsOf
<1>10. \A x, y \in E : c[x] = c[y] => x = y
  BY <1>6, <1>7, <1>8 DEF FillsOf
<1>11. \A x \in E : SizesOf(o, fills)[x] = SizesOf(o, all)[c[x]]
  <2> SUFFICES ASSUME NEW x \in E
               PROVE  SizesOf(o, fills)[x] = SizesOf(o, all)[c[x]]
    OBVIOUS
  <2>1. PICK y \in D : y = c[x] /\ y = RowOf(x)
    BY <1>7, <1>9
  <2>2. SizesOf(o, fills)[x] = x.size
    BY <1>6 DEF SizesOf
  <2>3. SizesOf(o, all)[y] = y.size
    BY <1>6 DEF SizesOf
  <2>4. y.size = x.size
    BY <1>6, <1>8, <2>1 DEF FillsOf
  <2> QED
    BY <2>1, <2>2, <2>3, <2>4
<1>12. IsFiniteSet(D)
  BY <1>2, <1>6, SizesFacts
<1>13. Adds(g, SizesOf(o, all), D) /\ Adds(h, SizesOf(o, fills), E)
  BY <1>4, <1>5, <1>6
<1>14. h[E] = g[D]
  BY <1>4, <1>5, <1>9, <1>10, <1>11, <1>12, <1>13, SumRenamed
<1> QED
  BY <1>1, <1>4, <1>5, <1>6, <1>14

\* The row of an order shows what was traded of it by the last fill the indexer
\* has handled.
LEMMA RowShowsTraded ==
    ASSUME TypeOK, LifeParts, ExactParts, CaughtUp("matched"), NEW o \in ToSet(placed)
    PROVE  rows[o].size - rows[o].remaining = Traded(o, ToSet(log["matched"]))
<1>1. PICK s \in Seq(Fill), n \in Nat :
            /\ s = log["matched"] /\ n = Len(s) /\ DOMAIN s = 1..n
            /\ position["matched"] = n
  BY MatchedFacts DEF CaughtUp
<1>2. PICK done : done = ToSet(s) /\ done \in SUBSET Fill /\ IsFiniteSet(done)
                  /\ \A f \in done : f \in Fills
  BY <1>1, ToSetFinite DEF Fills
<1>3. rows[o].size \in Int /\ rows[o].remaining \in Int
  BY RowFacts
<1>4. CASE \E i \in 1..n : /\ Shows(o, i)
                           /\ \A j \in (i + 1)..n : o \notin Parties(s[j])
  <2>1. PICK i \in 1..n : Shows(o, i) /\ \A j \in (i + 1)..n : o \notin Parties(s[j])
    BY <1>4
  <2>2. PICK f \in Fill : f = s[i] /\ f \in Fills
    BY <1>1, <1>2, <2>1 DEF ToSet
  <2>3. o \in Parties(f) /\ rows[o].remaining = LeftTo(f, o)
    BY <1>1, <2>1, <2>2 DEF Shows
  <2>4. LeftTo(f, o) + Traded(o, UntilFill(f, Fills)) = rows[o].size
    BY <2>2, <2>3 DEF ExactParts, EngineExact, Exact, ExactFill
  <2>5. \A g \in Fills : o \in Parties(g) /\ NoLater(g, f) => g \in done
    <3> SUFFICES ASSUME NEW g \in Fills, g \notin done, NoLater(g, f)
                 PROVE  g \in done
      OBVIOUS
    <3>1. PICK j \in DOMAIN outbox : outbox[j].topic = "matched" /\ outbox[j].body = g
      BY <1>1, <1>2 DEF Fills, ToSet
    <3>2. NoLater(s[i], g)
      BY <1>1, <2>1, <3>1 DEF ExactParts, EngineExact, InOrder
    <3>3. g = f
      BY <2>2, <3>2 DEF ExactParts, EngineExact, Exact
    <3> QED
      BY <1>1, <1>2, <2>1, <2>2, <3>3 DEF ToSet
  <2>6. \A g \in done : o \in Parties(g) => NoLater(g, f)
    <3> SUFFICES ASSUME NEW j \in 1..n, o \in Parties(s[j])
                 PROVE  NoLater(s[j], f)
      BY <1>1, <1>2 DEF ToSet
    <3>1. j <= i
      BY <2>1
    <3> QED
      BY <1>1, <2>1, <2>2, <3>1 DEF ExactParts, EngineExact, InOrder
  <2>7. FillsOf(o, UntilFill(f, Fills)) = FillsOf(o, done)
    BY <1>2, <2>5, <2>6 DEF FillsOf, UntilFill, Parties
  <2>8. Traded(o, UntilFill(f, Fills)) = Traded(o, done)
    BY <2>7, SameFills
  <2>9. Traded(o, done) \in Int
    BY <1>2, TradedIsInt
  <2> QED
    BY <1>1, <1>2, <1>3, <2>3, <2>4, <2>8, <2>9
<1>5. CASE /\ rows[o].remaining = rows[o].size
           /\ \A j \in 1..n : o \notin Parties(s[j])
  <2>1. \A f \in done : o \notin {f.maker, f.taker}
    BY <1>1, <1>2, <1>5 DEF ToSet, Parties
  <2>2. Traded(o, done) = 0
    BY <1>2, <2>1, TradedNone
  <2> QED
    BY <1>1, <1>2, <1>3, <1>5, <2>2
<1> QED
  BY <1>1, <1>4, <1>5 DEF ExactParts, IndexerExact, RowsFollow

\* Once the indexer is through its topic, what the row of an order says was
\* traded is what its trade rows add up to: messages that come again, in
\* whatever order the indexer restarted, change neither.
THEOREM RowsAgreeWithTrades == Spec => []RowsMatchTrades
<1>1. TypeOK /\ LifeInv /\ ExactInv => RowsMatchTrades
  <2> SUFFICES ASSUME TypeOK, LifeInv, ExactInv, Lossless, CaughtUp("matched"),
                      NEW o \in ToSet(placed)
               PROVE  rows[o].size - rows[o].remaining = Traded(o, tradeRows)
    BY DEF RowsMatchTrades, Lossless
  <2>1. LifeParts /\ ExactParts
    BY LosslessIsCalm DEF LifeInv, ExactInv
  <2>2. PICK s \in Seq(Fill), n \in Nat :
            /\ s = log["matched"] /\ n = Len(s) /\ DOMAIN s = 1..n
            /\ position["matched"] = n
    BY MatchedFacts DEF CaughtUp
  <2>3. PICK done \in SUBSET Fill : done = ToSet(s) /\ IsFiniteSet(done)
                                    /\ \A f \in done : f \in Fills
    BY <2>2, ToSetFinite DEF Fills
  <2>4. tradeRows = {RowOf(f) : f \in done}
    <3>1. \A row \in tradeRows : \E f \in done : row = RowOf(f)
      BY <2>1, <2>2, <2>3 DEF ExactParts, IndexerExact, TradesFollow, ToSet
    <3>2. \A f \in done : RowOf(f) \in tradeRows
      BY <2>1, <2>2, <2>3 DEF ExactParts, IndexerExact, TradesFollow, ToSet
    <3> QED
      BY <3>1, <3>2
  <2>5. ASSUME NEW f \in done, NEW g \in done, f.trade = g.trade
        PROVE  f = g
    <3>1. NoLater(f, g) /\ NoLater(g, f)
      <4>1. NoLater(f, f) /\ NoLater(g, g)
        BY LaterFacts
      <4> QED
        BY <2>5, <4>1 DEF NoLater
    <3> QED
      BY <2>1, <2>3, <3>1 DEF ExactParts, EngineExact, Exact
  <2>6. Traded(o, {RowOf(f) : f \in done}) = Traded(o, done)
    BY <2>3, <2>5, RowsAddUp
  <2>7. rows[o].size - rows[o].remaining = Traded(o, done)
    BY <2>1, <2>2, <2>3, RowShowsTraded
  <2> QED
    BY <2>4, <2>6, <2>7
<1> QED
  BY <1>1, ExactInvariance, PTL

\* Nothing comes back on a side but what Postgres shows as open on it.
OfRow(e, side) ==
    /\ e.id \in ToSet(placed) /\ rows[e.id].side = side /\ Open(e.id)
    /\ e.left = rows[e.id].remaining /\ e.left > 0

OfRows(acc, side) == \A j \in DOMAIN acc : OfRow(acc[j], side)

LEMMA OfRowsStep ==
    ASSUME TypeOK, NEW side \in Side, NEW o \in ToSet(placed),
           NEW acc \in Seq(Entry), OfRows(acc, side)
    PROVE  OfRows(Rebuild(acc, side, o), side)
<1>1. CASE o \in fn_get_resting_orders(side) /\ rows[o].remaining > 0
  <2>1. PICK e : e = [id |-> o, left |-> rows[o].remaining]
    OBVIOUS
  <2>2. OfRow(e, side)
    BY <1>1, <2>1 DEF OfRow, fn_get_resting_orders
  <2>3. Rebuild(acc, side, o) = Append(acc, e)
    BY <1>1, <2>1 DEF Rebuild, RestoreOrder
  <2>4. /\ DOMAIN Append(acc, e) = 1..(Len(acc) + 1) /\ Append(acc, e)[Len(acc) + 1] = e
        /\ \A j \in 1..Len(acc) : Append(acc, e)[j] = acc[j]
        /\ DOMAIN acc = 1..Len(acc) /\ Len(acc) \in Nat
    BY AppendIndex
  <2>5. \A j \in 1..(Len(acc) + 1) : j = Len(acc) + 1 \/ j \in 1..Len(acc)
    BY <2>4
  <2> QED
    BY <2>2, <2>3, <2>4, <2>5 DEF OfRows
<1>2. CASE ~ (o \in fn_get_resting_orders(side) /\ rows[o].remaining > 0)
  <2>1. Rebuild(acc, side, o) = acc
    BY <1>2 DEF Rebuild, RestoreOrder
  <2> QED
    BY <2>1
<1> QED
  BY <1>1, <1>2

LEMMA RestoredAreOfRows ==
    ASSUME TypeOK, NEW side \in Side, NEW f \in ToSet(restoreFromDB[side])
    PROVE  OfRow(f, side)
<1>1. PICK n \in Nat : n = Len(placed) /\ DOMAIN placed = 1..n
  BY DEF TypeOK
<1>2. PICK a \in [0..n -> Seq(Entry)] : IsRebuild(a, side)
  BY <1>1, RebuildExists
<1>3. /\ a[0] = <<>> /\ a[n] = restoreFromDB[side]
      /\ \A k \in 1..n : a[k] = Rebuild(a[k - 1], side, placed[k])
  BY <1>1, <1>2 DEF IsRebuild
<1> DEFINE Good == {k \in 0..n : OfRows(a[k], side)}
<1>4. 0 \in Good
  BY <1>3 DEF OfRows
<1>5. ASSUME NEW k \in 1..n, k - 1 \in Good
      PROVE  k \in Good
  <2>1. PICK acc \in Seq(Entry) : acc = a[k - 1]
    BY <1>2
  <2>2. OfRows(acc, side) /\ placed[k] \in ToSet(placed)
    BY <1>1, <1>5, <2>1 DEF ToSet
  <2>3. OfRows(Rebuild(acc, side, placed[k]), side)
    BY <2>2, OfRowsStep
  <2> QED
    BY <1>3, <2>1, <2>3
<1>6. n \in Good
  <2>1. 0..n \subseteq Good
    <3> HIDE DEF Good
    <3> QED
      BY <1>4, <1>5, UpTo
  <2> QED
    BY <2>1
<1> QED
  BY <1>3, <1>6 DEF OfRows, ToSet

\* An engine that stops when everything is handled comes back with the book it
\* had, entry for entry: an order is open with something remaining exactly if
\* it rests, and what remains of it is what rests.
THEOREM QuietRestartsAreHarmless == Spec => QuietRestartKeepsBook
<1>1. ASSUME TypeOK, LifeInv, ExactInv, [Next]_vars
      PROVE  [/\ Restarted /\ fault'["emptyStart"] = 0
              /\ Settled /\ \A t \in EngineTopic : committed[t] = Len(log[t])
              /\ NoFault({"engineRestart", "lostRequest", "repeatedRequest",
                          "failedPublish", "dropped"})
              /\ \A o \in Order : cancels[o] = 0
              => \A side \in Side : ToSet(book'[side]) = ToSet(book[side])]_vars
  <2> SUFFICES ASSUME Restarted, fault'["emptyStart"] = 0, Settled,
                      Lossless, NoFault({"lostRequest"}), \A o \in Order : cancels[o] = 0,
                      NEW side \in Side
               PROVE  ToSet(book'[side]) = ToSet(book[side])
    BY DEF Lossless, NoFault
  <2>1. LifeParts /\ ExactParts /\ book' = restoreFromDB
    BY <1>1, LosslessIsCalm, RestartStep DEF LifeInv, ExactInv, RestartEngine
  <2>2. CaughtUp("matched") /\ CaughtUp("created") /\ publishing = {} /\ outbox = <<>>
    BY DEF Settled, Topic
  <2>3. ToSet(placed) \subseteq Taken
    <3>1. \A o \in ToSet(placed) : o \in ToSet(log["created"])
      BY <2>1, <2>2 DEF ExactParts, ApiExact, Announced
    <3>2. DOMAIN log["created"] = 1..position["created"]
      BY <1>1, <2>2, TakenFacts DEF CaughtUp
    <3> QED
      BY <3>1, <3>2 DEF ToSet, Taken
  <2>4. \A o \in ToSet(placed) :
            /\ rows[o].size \in Int /\ rows[o].remaining \in Int /\ cancels[o] = 0
            /\ rows[o].size - rows[o].remaining = Traded(o, Fills) /\ Traded(o, Fills) \in Int
    <3>1. ToSet(outbox) = {}
      BY <2>2 DEF ToSet
    <3>2. Fills = ToSet(log["matched"])
      BY <3>1 DEF Fills
    <3>3. Fills \in SUBSET Fill /\ IsFiniteSet(Fills)
      BY <1>1, FillsFinite DEF FillsAreFinite
    <3> QED
      BY <1>1, <2>1, <2>2, <3>2, <3>3, RowFacts, RowShowsTraded, TradedIsInt
  <2>5. \A f \in ToSet(book'[side]) : f \in Entry
    <3>1. restoreFromDB[side] \in Seq(Entry)
      BY <1>1, RestoreType
    <3> QED
      BY <2>1, <3>1, SeqFacts
  <2>6. \A e \in ToSet(book[side]) : e \in Entry
    <3>1. book[side] \in Seq(Entry)
      BY <1>1 DEF TypeOK
    <3> QED
      BY <3>1, SeqFacts
  <2>7. \A e \in Entry : \A f \in Entry : e.id = f.id /\ e.left = f.left => e = f
    BY DEF Entry
  <2>8. ASSUME NEW e \in ToSet(book[side])
        PROVE  /\ e.id \in ToSet(placed) /\ rows[e.id].side = side
               /\ e.left > 0 /\ e.left = rows[e.id].remaining /\ Open(e.id)
    <3>1. PICK i \in DOMAIN book[side] : book[side][i] = e
      BY DEF ToSet
    <3>2. e.id \in Taken /\ rows[e.id].side = side /\ e.left > 0
      BY <2>1, <3>1 DEF LifeParts, RestsOnce, WithinSize
    <3>3. e.id \in ToSet(placed)
      BY <1>1, <3>2, TakenFacts
    <3>4. e.left + Traded(e.id, Fills) = rows[e.id].size
      BY <2>1, <3>1 DEF ExactParts, EngineExact, BookExact, MakersExact
    <3>5. Open(e.id)
      BY <2>1, <2>4, <3>1, <3>3 DEF LifeParts, RowsShowNoLess
    <3>6. e.left \in Int
      BY <2>6 DEF Entry
    <3> QED
      BY <2>4, <3>2, <3>3, <3>4, <3>5, <3>6
  <2>9. ASSUME NEW e \in ToSet(book[side])
        PROVE  e \in ToSet(book'[side])
    <3>1. /\ e.id \in ToSet(placed) /\ rows[e.id].side = side
          /\ e.left > 0 /\ e.left = rows[e.id].remaining /\ Open(e.id)
      BY <2>8
    <3>2. PICK f \in ToSet(book'[side]) : f.id = e.id /\ f.left = e.left
      BY <1>1, <2>1, <3>1, RestoredOrders
    <3>3. e = f
      BY <2>5, <2>6, <2>7, <3>2
    <3> QED
      BY <3>3
  <2>10. ASSUME NEW f \in ToSet(book'[side])
         PROVE  f \in ToSet(book[side])
    <3>1. PICK o : o = f.id /\ o \in ToSet(placed) /\ rows[o].side = side /\ Open(o)
                   /\ f.left = rows[o].remaining /\ f.left > 0
      BY <1>1, <2>1, <2>10, RestoredAreOfRows DEF OfRow
    <3>2. OnBook(o)
      <4>1. rows[o].size > 0
        <5> SUFFICES ASSUME ~ (rows[o].size > 0) PROVE FALSE
          OBVIOUS
        <5>1. \A g \in Fills : o \notin {g.maker, g.taker}
          BY <2>1 DEF ExactParts, EngineExact, Exact, ExactFill, Parties
        <5>2. Traded(o, Fills) = 0
          BY <1>1, <5>1, FillsFinite, TradedNone DEF FillsAreFinite
        <5> QED
          BY <2>4, <3>1, <5>2
      <4>2. Traded(o, Fills) # rows[o].size
        BY <2>4, <3>1
      <4> QED
        BY <2>1, <2>3, <2>4, <3>1, <4>1, <4>2 DEF ExactParts, EngineExact, BookExact
    <3>3. PICK s \in Side : \E i \in DOMAIN book[s] : book[s][i].id = o
      BY <3>2 DEF OnBook
    <3>4. PICK i \in DOMAIN book[s] : book[s][i].id = o
      BY <3>3
    <3>5. s = side
      BY <2>1, <3>1, <3>4 DEF LifeParts, RestsOnce
    <3>6. PICK e \in ToSet(book[side]) : e.id = o
      BY <3>4, <3>5 DEF ToSet
    <3>7. e.left = rows[o].remaining
      BY <2>8, <3>6
    <3>8. e = f
      BY <2>5, <2>6, <2>7, <3>1, <3>6, <3>7
    <3> QED
      BY <3>8
  <2> QED
    BY <2>9, <2>10
<1> QED
  BY <1>1, ExactInvariance, PTL DEF Spec, QuietRestartKeepsBook
=============================================================================
